------------------------------ MODULE FlowDag -------------------------------
(***************************************************************************)
(* A flow definition as the execution engine reads it, and the pure        *)
(* functions that decide from the persisted NodeRun rows which nodes may   *)
(* start: aggregateStatus and computeReady of execution.engine.ts, over    *)
(* the edges of the flow-engine package.                                   *)
(*                                                                         *)
(* A NodeRun row is identified by its node and its mapIndex (the position  *)
(* in a forEach fan-out, 0 for a plain node).  A table of rows is a        *)
(* function from instances to a status, "none" where no row exists.        *)
(***************************************************************************)
EXTENDS Naturals, FiniteSets

CONSTANTS
  Nodes,        \* the node ids of the definition
  Edges,        \* its edges, [source, target, on]
  Pos,          \* the position of a node in definition.nodes
  ForEach,      \* the nodes with a forEach expression
  Lengths,      \* for a forEach node, the array lengths it may evaluate to
  BatchLimit,   \* forEachConcurrency of a node
  Join,         \* join policy of a node: "all", "any" or "ratio"
  JoinPercent,  \* joinRatio of a node, in percent
  MaxItems,     \* bound on the length of a forEach array
  MaxNodeRuns   \* guardrails.maxNodeRuns, 0 when not set

EdgeConditions == {"success", "failure", "always"}

ASSUME FlowAssumption ==
  /\ IsFiniteSet(Nodes)
  /\ MaxItems \in Nat \ {0}
  /\ MaxNodeRuns \in Nat
  /\ Edges \subseteq [source : Nodes, target : Nodes, on : EdgeConditions]
  /\ Pos \in [Nodes -> Nat]
  /\ \A m, n \in Nodes : Pos[m] = Pos[n] => m = n
  /\ ForEach \subseteq Nodes
  /\ Lengths \in [Nodes -> SUBSET (0 .. MaxItems)]
  /\ BatchLimit \in [Nodes -> Nat \ {0}]
  /\ Join \in [Nodes -> {"all", "any", "ratio"}]
  /\ JoinPercent \in [Nodes -> 0 .. 100]

Instances == Nodes \X (0 .. MaxItems - 1)

InProgress == {"RUNNING", "WAITING_CALLBACK"}
Resolved   == {"SUCCESS", "FAILED"}
RowStatus  == InProgress \union Resolved

Rows(st)      == {x \in Instances : st[x] # "none"}
RowsOf(n, st) == {x \in Rows(st) : x[1] = n}

\* The join policy over the rows of a node, all of them resolved.
JoinHolds(n, st) ==
  LET rows == RowsOf(n, st)
      succ == {x \in rows : st[x] = "SUCCESS"}
  IN  CASE Join[n] = "any"   -> succ # {}
        [] Join[n] = "ratio" ->
             Cardinality(succ) * 100 >= JoinPercent[n] * Cardinality(rows)
        [] OTHER             -> succ = rows

\* Mutant: a node counts as resolved as soon as its join policy is decided.
AggregateStatusIgnoringProgress(n, st) ==
  IF RowsOf(n, st) = {} THEN "undefined"
  ELSE IF JoinHolds(n, st) THEN "SUCCESS" ELSE "FAILED"

\* Status of a node across its instances: undefined while it has none or one
\* of them is in progress.
AggregateStatus(n, st) ==
  IF RowsOf(n, st) = {} \/ \E x \in RowsOf(n, st) : st[x] \in InProgress
    THEN "undefined"
    ELSE IF JoinHolds(n, st) THEN "SUCCESS" ELSE "FAILED"

Incoming(n) == {e \in Edges : e.target = n}

Fires(e, st) ==
  LET agg == AggregateStatus(e.source, st)
  IN  \/ agg = "SUCCESS" /\ e.on \in {"success", "always"}
      \/ agg = "FAILED"  /\ e.on \in {"failure", "always"}

\* Whether the definition lets node n start: an entry node, or an edge fired.
MayStart(n, st) == Incoming(n) = {} \/ \E e \in Incoming(n) : Fires(e, st)

\* Mutant: an edge's condition is not compared with the outcome.
ReadyOnAnyOutcome(st) ==
  {n \in Nodes : /\ RowsOf(n, st) = {}
                 /\ \/ Incoming(n) = {}
                    \/ \E e \in Incoming(n) : AggregateStatus(e.source, st) # "undefined"}

\* The ready frontier: nodes with no row yet whose incoming edge has fired.
Ready(st) == {n \in Nodes : RowsOf(n, st) = {} /\ MayStart(n, st)}

AnyFailed(st) == \E n \in Nodes : AggregateStatus(n, st) = "FAILED"
=============================================================================
