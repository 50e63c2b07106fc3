----------------------------- MODULE MCFlowRun ------------------------------
(***************************************************************************)
(* Small flows for model checking FlowRun.                                 *)
(***************************************************************************)
EXTENDS FlowRun, TLC

\* Request handlers are interchangeable.
Handlers == Permutations(Requests)

Edge(s, t, c) == [source |-> s, target |-> t, on |-> c]
PlainLengths  == [n \in Nodes |-> {}]
LimitOne      == [n \in Nodes |-> 1]
LimitTwo      == [n \in Nodes |-> 2]
JoinAll       == [n \in Nodes |-> "all"]
NoPercent     == [n \in Nodes |-> 0]

\* Two callback nodes side by side; c follows a success of a or a failure of b.
ForkNodes == {"a", "b", "c"}
ForkEdges == {Edge("a", "c", "success"), Edge("b", "c", "failure")}
ForkPos   == [n \in ForkNodes |-> CASE n = "a" -> 1 [] n = "b" -> 2 [] n = "c" -> 3]

\* s, then a fan-out f whose result takes the run to g or to h.
FanNodes   == {"s", "f", "g", "h"}
FanEdges   == {Edge("s", "f", "always"), Edge("f", "g", "success"), Edge("f", "h", "failure")}
FanPos     == [n \in FanNodes |-> CASE n = "s" -> 1 [] n = "f" -> 2 [] n = "g" -> 3 [] n = "h" -> 4]
FanLengths == [n \in FanNodes |-> IF n = "f" THEN {0, 1, 3, 5} ELSE {}]
FanJoin    == [n \in FanNodes |-> IF n = "f" THEN "ratio" ELSE "any"]
FanPercent == [n \in FanNodes |-> 50]

TwoItems   == [n \in FanNodes |-> IF n = "f" THEN {2} ELSE {}]

\* A callback node and its successor.
ChainNodes == {"a", "b"}
ChainEdges == {Edge("a", "b", "always")}
ChainPos   == [n \in ChainNodes |-> IF n = "a" THEN 1 ELSE 2]
=============================================================================
