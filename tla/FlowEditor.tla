------------------------------ MODULE FlowEditor ------------------------------
(***************************************************************************)
(* The flow editor page: one definition, edited by a form tab (FormMode)   *)
(* and a canvas tab (CanvasMode), loaded from the server and saved to it.  *)
(* A node is an id and a step, the configuration behind the id. Ids are    *)
(* numbers: k stands for the text node-k, 0 for the empty text.            *)
(***************************************************************************)
EXTENDS FlowValidation, Naturals

CONSTANTS
  Steps,       \* configurations of nodes
  EdgeIds,     \* ids of edges, random in the code
  Conditions,  \* conditions of edges
  MaxId        \* bound of the numbers in ids

\* A flow may begin with two nodes.
ASSUME EditorAssumption ==
  MaxId \in Nat /\ "success" \in Conditions /\ IsFiniteSet(Steps) /\ Cardinality(Steps) >= 2

VARIABLES
  page,     \* "loading", "open" or "left": one visit
  def,      \* the edited definition: nodes, edges, guardrails
  stored,   \* the definition on the server
  clashed   \* a node was given an id in use, a history

editorVars == <<page, def, stored, clashed>>

Empty == [nodes |-> << >>, edges |-> {}, guardrails |-> FALSE]

EditorTypeOK ==
  /\ page \in {"loading", "open", "left"}
  /\ NodeIds(def) \subseteq 0 .. MaxId
  /\ \A i \in DOMAIN def.nodes : def.nodes[i].step \in Steps
  /\ \A e \in def.edges : e.id \in EdgeIds /\ e.on \in Conditions
  /\ def.guardrails \in BOOLEAN /\ clashed \in BOOLEAN

\* Configurations and edge ids are interchangeable: one that is not in use.
FreshStep(nodes) == CHOOSE step \in Steps : \A i \in DOMAIN nodes : nodes[i].step # step
FreshEdgeId(edges) == CHOOSE id \in EdgeIds : \A e \in edges : e.id # id

\* A flow of one or two nodes, perhaps with guardrails, which only YAML gives.
EditorInit ==
  /\ page = "loading" /\ def = Empty /\ clashed = FALSE
  /\ LET one == <<[id |-> 1, step |-> FreshStep(<< >>)]>>
         both == Append(one, [id |-> 2, step |-> FreshStep(one)])
         edge == [id |-> FreshEdgeId({}), source |-> 1, target |-> 2, on |-> "success"]
     IN  \E guardrails \in BOOLEAN :
           \/ stored = [nodes |-> one, edges |-> {}, guardrails |-> guardrails]
           \/ \E edges \in {{}, {edge}} :
                stored = [nodes |-> both, edges |-> edges, guardrails |-> guardrails]

-----------------------------------------------------------------------------
(* Opening and leaving the page *)

\* stateFromFlow
LoadFlow ==
  /\ page = "loading" /\ page' = "open" /\ def' = stored
  /\ UNCHANGED <<stored, clashed>>

LeavePage ==
  /\ page # "left" /\ page' = "left" /\ def' = Empty /\ clashed' = FALSE
  /\ UNCHANGED stored

-----------------------------------------------------------------------------
(* Edits of the definition *)

SetDefinition(d) == page = "open" /\ def' = d /\ UNCHANGED <<page, stored>>

\* Mutant: the new node is numbered by the count of nodes.
NextNumber(d) == Len(d.nodes) + 1

\* newNode: the first free number above the count of nodes.
NewId(d) == Min((Len(d.nodes) + 1 .. 2 * Len(d.nodes) + 1) \ NodeIds(d))

AddNode ==
  /\ NewId(def) <= MaxId /\ Len(def.nodes) < Cardinality(Steps)
  /\ SetDefinition([def EXCEPT !.nodes = Append(@, [id |-> NewId(def), step |-> FreshStep(@)])])
  /\ UNCHANGED clashed

\* The nodes whose ids are not among these. (SelectSeq, which the proofs cannot
\* expand.)
Kept(nodes, ids) ==
  LET kept[n \in 0 .. Len(nodes)] ==
        IF n = 0 THEN << >>
        ELSE IF nodes[n].id \in ids THEN kept[n - 1] ELSE Append(kept[n - 1], nodes[n])
  IN  kept[Len(nodes)]

Without(d, ids) ==
  [nodes |-> Kept(d.nodes, ids),
   edges |-> {e \in d.edges : e.source \notin ids /\ e.target \notin ids},
   guardrails |-> FALSE]

\* FormMode.removeNode
RemoveNode(id) == SetDefinition(Without(def, {id})) /\ UNCHANGED clashed

\* Mutant: only the edges that leave the node follow its new id.
RemapSources(d, old, node) ==
  [nodes |-> [i \in DOMAIN d.nodes |-> IF d.nodes[i].id = old THEN node ELSE d.nodes[i]],
   edges |-> {[e EXCEPT !.source = IF @ = old THEN node.id ELSE @] : e \in d.edges},
   guardrails |-> d.guardrails /\ node.id = old]

\* updateNodeInDef replaces every node with the old id; a new id takes the
\* edges along and leaves the guardrails behind.
UpdateNode(d, old, node) ==
  [nodes |-> [i \in DOMAIN d.nodes |-> IF d.nodes[i].id = old THEN node ELSE d.nodes[i]],
   edges |-> {[e EXCEPT !.source = IF @ = old THEN node.id ELSE @,
                        !.target = IF @ = old THEN node.id ELSE @] : e \in d.edges},
   guardrails |-> d.guardrails /\ node.id = old]

\* FormMode.setNode, CanvasMode.updateNode: one keystroke in a node's form.
EditNode(i, node) ==
  /\ SetDefinition(UpdateNode(def, def.nodes[i].id, node))
  /\ clashed' = (clashed \/ node.id \in NodeIds(def) \ {def.nodes[i].id})

PutEdge(source, target) ==
  /\ Cardinality(def.edges) < Cardinality(EdgeIds)
  /\ SetDefinition([def EXCEPT !.edges =
       @ \union {[id |-> FreshEdgeId(@), source |-> source, target |-> target, on |-> "success"]}])
  /\ UNCHANGED clashed

\* FormMode.addEdge: between the first two nodes, or around the only one.
AddEdge ==
  /\ def.nodes # << >>
  /\ PutEdge(def.nodes[1].id, def.nodes[IF Len(def.nodes) > 1 THEN 2 ELSE 1].id)

\* CanvasMode.onConnect
Connect(source, target) ==
  /\ {source, target} \subseteq NodeIds(def) \ {0}
  /\ \A e \in def.edges : ~(e.source = source /\ e.target = target /\ e.on = "success")
  /\ PutEdge(source, target)

\* FormMode.patchEdge, CanvasMode.setEdgeCondition
PatchEdge(edge, patched) ==
  /\ patched.source \in NodeIds(def) \union {edge.source}
  /\ patched.target \in NodeIds(def) \union {edge.target}
  /\ SetDefinition([def EXCEPT !.edges = (@ \ {edge}) \union {patched}])
  /\ UNCHANGED clashed

RemoveEdges(edges) ==
  /\ SetDefinition([def EXCEPT !.edges = @ \ edges])
  /\ UNCHANGED clashed

\* The Delete key on a selection of the canvas removes the nodes and the
\* selected edges by two calls of onChange with the definition of the last
\* render: the second one, for the nodes, wins.
DeleteSelection(ids) ==
  /\ ids # {}
  /\ SetDefinition(Without(def, ids)) /\ UNCHANGED clashed

-----------------------------------------------------------------------------
(* saveFlow and FlowService.update *)

\* Accepted: on to the page of the flow.
Save ==
  /\ page = "open" /\ ValidDefinition(def)
  /\ stored' = def
  /\ page' = "left" /\ def' = Empty /\ clashed' = FALSE

\* Refused by the page or by the server: the page stays open.
SaveRefused ==
  /\ page = "open" /\ ~ValidDefinition(def)
  /\ UNCHANGED editorVars

EditorNext ==
  \/ LoadFlow \/ LeavePage \/ Save \/ SaveRefused
  \/ AddNode \/ AddEdge
  \/ \E id \in NodeIds(def) : RemoveNode(id)
  \/ \E i \in DOMAIN def.nodes, id \in 0 .. MaxId : EditNode(i, [def.nodes[i] EXCEPT !.id = id])
  \/ \E source, target \in NodeIds(def) : Connect(source, target)
  \/ \E e \in def.edges, id \in NodeIds(def) :
       PatchEdge(e, [e EXCEPT !.source = id]) \/ PatchEdge(e, [e EXCEPT !.target = id])
  \/ \E e \in def.edges, on \in Conditions : PatchEdge(e, [e EXCEPT !.on = on])
  \/ \E edges \in SUBSET def.edges : RemoveEdges(edges)
  \/ \E ids \in SUBSET NodeIds(def) : DeleteSelection(ids)

EditorSpec == EditorInit /\ [][EditorNext]_editorVars
-----------------------------------------------------------------------------
(* Properties *)

\* The edges of the edited definition join nodes it has, whatever is renamed
\* or removed in which tab ("so edges never dangle", state.ts).
NoDanglingEdge == \A e \in def.edges : {e.source, e.target} \subseteq NodeIds(def)

\* Two nodes have the same id, or the same configuration, only after someone
\* typed an id that was in use.
NodesDistinct ==
  page = "open" /\ ~clashed =>
    /\ UniqueIds(def)
    /\ \A i, j \in DOMAIN def.nodes : def.nodes[i].step = def.nodes[j].step => i = j

\* What the server accepts from the editor can be run to its end: whatever
\* nodes are left, one of them waits for none of the others.
StoredIsSortable == Sortable(stored)
=============================================================================
