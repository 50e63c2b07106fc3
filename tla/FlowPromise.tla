---------------------------- MODULE FlowPromise -----------------------------
(***************************************************************************)
(* What a flow run promises, without jobs, workers or sweeps: nodes run    *)
(* under the conditions of the flow definition, an interrupted node may be *)
(* run again, a result is final, and the run succeeds only when the flow   *)
(* has been followed to its end.  The engine is shown to implement it.     *)
(***************************************************************************)
EXTENDS FlowDag

VARIABLES runStatus, row

Init ==
  /\ runStatus = "PENDING"
  /\ row = [x \in Instances |-> "none"]

Start ==
  /\ runStatus = "PENDING"
  /\ runStatus' = "RUNNING"
  /\ UNCHANGED row

\* An instance of a node that the definition lets start.
Begin(x) ==
  /\ runStatus = "RUNNING"
  /\ row[x] = "none" /\ MayStart(x[1], row)
  /\ row' = [row EXCEPT ![x] = "RUNNING"]
  /\ UNCHANGED runStatus

\* A further instance of a fan-out that has begun.
BeginNext(x) ==
  /\ runStatus = "RUNNING"
  /\ x[1] \in ForEach /\ RowsOf(x[1], row) # {} /\ row[x] = "none"
  /\ row' = [row EXCEPT ![x] = "RUNNING"]
  /\ UNCHANGED runStatus

End(x) ==
  /\ row[x] = "RUNNING"
  /\ \E status \in Resolved : row' = [row EXCEPT ![x] = status]
  /\ UNCHANGED runStatus

\* The instances in execution when a worker dies are forgotten.
Interrupt ==
  /\ runStatus \in {"PENDING", "RUNNING"}
  /\ row' = [x \in Instances |-> IF row[x] = "RUNNING" THEN "none" ELSE row[x]]
  /\ UNCHANGED runStatus

Succeed ==
  /\ runStatus = "RUNNING"
  /\ \A x \in Instances : row[x] \notin InProgress
  /\ Ready(row) = {} /\ ~AnyFailed(row)
  /\ runStatus' = "SUCCESS"
  /\ UNCHANGED row

\* A failed node at the end of the flow, a guardrail, or the watchdog.
Fail ==
  /\ runStatus = "RUNNING"
  /\ runStatus' = "FAILED"
  /\ UNCHANGED row

Next ==
  \/ Start \/ Interrupt \/ Succeed \/ Fail
  \/ \E x \in Instances : Begin(x) \/ BeginNext(x) \/ End(x)

Spec == Init /\ [][Next]_<<runStatus, row>>
=============================================================================
