---------------------------- MODULE FlowValidation ----------------------------
(***************************************************************************)
(* What the server accepts as a flow (packages/flow-engine: schema.ts,     *)
(* validate.ts). A definition is a record: nodes is a sequence of records  *)
(* with an id, edges a set of records with id, source and target. Ids are  *)
(* numbers; 0 is the empty text.                                           *)
(***************************************************************************)
EXTENDS FiniteSetsExt, SequencesExt

NodeIds(def) == {def.nodes[i].id : i \in DOMAIN def.nodes}

\* flowNodeSchema, flowEdgeSchema: ids are not empty.
ShapeOK(def) ==
  /\ 0 \notin NodeIds(def)
  /\ \A e \in def.edges : e.source # 0 /\ e.target # 0

UniqueIds(def) == Cardinality(NodeIds(def)) = Len(def.nodes)

EdgesOK(def) ==
  /\ \A e \in def.edges : {e.source, e.target} \subseteq NodeIds(def) /\ e.source # e.target
  /\ \A e, f \in def.edges : e.id = f.id => e = f

EntryNodes(def) == {n \in NodeIds(def) : \A e \in def.edges : e.target # n}

Adjacent(def, id) == {e.target : e \in {x \in def.edges : x.source = id}}

\* The depth-first search. Visit takes the nodes to do one after the other, in
\* any order: what is below a white one is visited while it is gray, and a gray
\* one closes a cycle.
Search(def, roots) ==
  LET Visit[todo \in SUBSET NodeIds(def)] == [color \in [NodeIds(def) -> {"white", "gray", "black"}] |->
        IF todo = {} THEN [found |-> FALSE, color |-> color]
        ELSE LET next == CHOOSE id \in todo : TRUE
                 below == IF color[next] = "white"
                          THEN Visit[Adjacent(def, next)][[color EXCEPT ![next] = "gray"]]
                          ELSE [found |-> color[next] = "gray", color |-> color]
             IN  IF below.found THEN below
                 ELSE Visit[todo \ {next}][[below.color EXCEPT ![next] = "black"]]]
  IN  Visit[roots][[id \in NodeIds(def) |-> "white"]]

\* Mutant: the search starts at the entry nodes only.
CycleBelowEntries(def) == Search(def, EntryNodes(def)).found

HasCycle(def) == Search(def, NodeIds(def)).found

\* validateFlowDefinition
ValidDefinition(def) ==
  /\ ShapeOK(def) /\ UniqueIds(def) /\ def.nodes # << >> /\ EdgesOK(def)
  /\ ~HasCycle(def)
  /\ def.edges # {} => EntryNodes(def) # {}

-----------------------------------------------------------------------------
(* What a run needs of a flow *)

\* There is always a node to go on with: of any nodes that are left, one that
\* no edge from the others leads to.
Sortable(def) ==
  \A left \in (SUBSET NodeIds(def)) \ {{}} :
    \E n \in left : \A e \in def.edges : e.target = n => e.source \notin left
=============================================================================
