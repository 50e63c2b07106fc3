--------------------------- MODULE FlowRunProofs ----------------------------
(***************************************************************************)
(* What FlowRun does for every flow definition, every number of callback   *)
(* handlers, sweepers and users, and every set of jobs whose worker may    *)
(* die: type correctness, the stability of recorded results, the order of  *)
(* a node after its predecessors, and the condition of the edge it follows.*)
(*                                                                         *)
(* They rest on what a row's writers may assume of it. The engine writes   *)
(* an outcome to the row it inserted, and only that job takes the row out  *)
(* of RUNNING (ClaimedRunning); everybody else writes to waiting rows.     *)
(***************************************************************************)
EXTENDS FlowRun, FiniteSetTheorems, TLAPS

-----------------------------------------------------------------------------
(* Type correctness *)

\* An advance that has ended has an outcome: what makes Finalize write a status.
ResultKnown == \A j \in Jobs : pc[j] = "final" => result[j] \in Resolved

TypeInv == TypeOK /\ ResultKnown

\* The node count of loadNodeStates is a number.
LEMMA RowCount ==
  ASSUME NEW st
  PROVE  Cardinality(Rows(st)) \in Nat
<1>1. IsFiniteSet(0 .. MaxItems - 1)
  BY FlowAssumption, FS_Interval
<1>2. IsFiniteSet(Instances)
  BY <1>1, FlowAssumption, FS_Product DEF Instances
<1>3. Rows(st) \subseteq Instances
  BY DEF Rows
<1>. QED BY <1>2, <1>3, FS_Subset, FS_CardinalityType

LEMMA InitTypeOK == Init => TypeOK
<1>. SUFFICES ASSUME Init PROVE TypeOK
  OBVIOUS
<1>1. RunStateTypeOK
  BY RunAssumption DEF Init, RunStateInit, RunStateTypeOK, Jobs, LiveJob, MaxFinished
<1>2. EngineTypeOK
  BY DEF Init, EngineInit, EngineTypeOK, MaxStalls
<1>3. CallbackTypeOK
  BY CallbackAssumption DEF Init, CallbackInit, CallbackTypeOK
<1>4. WatchdogTypeOK
  <2>1. aged \in BOOLEAN
    BY DEF Init, WatchdogInit
  <2>. QED BY <2>1, WatchdogAssumption DEF Init, WatchdogInit, WatchdogTypeOK
<1>. QED BY <1>1, <1>2, <1>3, <1>4 DEF TypeOK, Init

\* The worker's actions keep the types.
LEMMA EngineTypes ==
  ASSUME TypeOK, ResultKnown, NEW j \in Jobs, EngineStep(j) \/ Crash(j) \/ StalledCheck(j)
  PROVE  RunStateTypeOK' /\ EngineTypeOK'
<1>. USE DEF TypeOK, RunStateTypeOK, EngineTypeOK, runVars, rowVars, Goto, EndJob, LiveJob
<1>1. CASE ReadRun(j)
  BY <1>1 DEF ReadRun, AfterRead, advVars, Terminal
<1>2. CASE DeleteInFlight(j)
  BY <1>2 DEF DeleteInFlight, advVars
<1>3. CASE MarkRunning(j)
  BY <1>3 DEF MarkRunning, advVars, Terminal
<1>4. CASE LoadStates(j)
  <2>1. Ready(row) \subseteq Nodes
    BY DEF Ready
  <2>2. MaxNodeRuns \in Nat
    BY FlowAssumption
  <2>. QED BY <1>4, <2>1, <2>2, RowCount DEF LoadStates, advVars, Resolved
<1>5. CASE NextBatch(j)
  BY <1>5 DEF NextBatch
<1>6. CASE ReloadStates(j)
  BY <1>6 DEF ReloadStates, advVars, Resolved
<1>7. CASE Finalize(j)
  <2>1. result[j] \in Resolved
    BY <1>7 DEF Finalize, ResultKnown
  <2>. QED
    BY <1>7, <2>1 DEF Finalize, EmitFinished, MaxFinished, advVars, Terminal, Resolved
<1>8. ASSUME NEW n \in Nodes, RunPlain(j, n)
      PROVE  RunStateTypeOK' /\ EngineTypeOK'
  <2>1. <<n, 0>> \in Instances
    BY FlowAssumption DEF Instances
  <2>. QED BY <1>8, <2>1 DEF RunPlain, NextNode
<1>9. ASSUME NEW n \in Nodes, ForEachFailed(j, n)
      PROVE  RunStateTypeOK' /\ EngineTypeOK'
  <2>1. <<n, 0>> \in Instances
    BY FlowAssumption DEF Instances
  <2>. QED BY <1>9, <2>1 DEF ForEachFailed, RecordSentinel, NextNode, Resolved
<1>10. ASSUME NEW n \in Nodes, NEW len \in Lengths[n], RunForEach(j, n, len)
       PROVE  RunStateTypeOK' /\ EngineTypeOK'
  <2>1. <<n, 0>> \in Instances /\ {n} \X (0 .. len - 1) \subseteq Instances
    BY FlowAssumption DEF Instances
  <2>2. CASE \E status \in Resolved : RecordSentinel(j, n, status)
    BY <1>10, <2>1, <2>2 DEF RunForEach, RecordSentinel, NextNode
  <2>3. CASE /\ rest' = [rest EXCEPT ![j] = {n} \X (0 .. len - 1)]
             /\ forced' = [forced EXCEPT ![j] = "no"]
             /\ UNCHANGED claim
    BY <1>10, <2>1, <2>3 DEF RunForEach, NextNode
  <2>. QED BY <1>10, <2>2, <2>3 DEF RunForEach, Resolved
<1>11. ASSUME NEW x \in Instances, ClaimNodeRun(j, x)
       PROVE  RunStateTypeOK' /\ EngineTypeOK'
  <2>1. CASE row[x] = "none"
    <3>1. late' \in [Instances -> BOOLEAN]
      BY <1>11, <2>1 DEF ClaimNodeRun
    <3>. QED BY <1>11, <2>1, <3>1 DEF ClaimNodeRun, RowStatus, InProgress
  <2>2. CASE row[x] # "none"
    BY <1>11, <2>2 DEF ClaimNodeRun
  <2>. QED BY <2>1, <2>2
<1>12. ASSUME NEW x \in Instances, Trigger(j, x)
       PROVE  RunStateTypeOK' /\ EngineTypeOK'
  BY <1>12 DEF Trigger, engVars, advVars
<1>13. ASSUME NEW x \in Instances, UpdateNodeRun(j, x)
       PROVE  RunStateTypeOK' /\ EngineTypeOK'
  <2>1. Outcomes(j, x) \subseteq RowStatus
    BY DEF Outcomes, RowStatus, InProgress, Resolved
  <2>. QED BY <1>13, <2>1 DEF UpdateNodeRun
<1>14. ASSUME NEW x \in Instances, RowVanished(j, x)
       PROVE  RunStateTypeOK' /\ EngineTypeOK'
  BY <1>14 DEF RowVanished
<1>15. CASE Crash(j)
  BY <1>15 DEF Crash
<1>16. CASE StalledCheck(j)
  BY <1>16 DEF StalledCheck, MaxStalls, advVars
<1>. QED
  BY <1>1, <1>2, <1>3, <1>4, <1>5, <1>6, <1>7, <1>8, <1>9, <1>10, <1>11,
     <1>12, <1>13, <1>14, <1>15, <1>16 DEF EngineStep

\* The callback handlers' actions keep the types.
LEMMA CallbackTypes ==
  ASSUME TypeOK, CallbackNext
  PROVE  RunStateTypeOK' /\ CallbackTypeOK'
<1>. USE DEF TypeOK, RunStateTypeOK, CallbackTypeOK, runVars, rowVars, Handling, Reply
<1>. PICK h \in Requests :
       \/ CallbackStep(h) \/ RequestLost(h)
       \/ \E x \in Instances : ReportIgnored(h, x) \/ ReportRead(h, x) \/ HeartbeatRead(h, x)
  BY DEF CallbackNext
<1>1. req[h] # NoRequest => req[h].at \in Instances
  OBVIOUS
<1>2. CASE ReportWrite(h)
  BY <1>1, <1>2 DEF ReportWrite, RowStatus
<1>3. CASE ReportResume(h)
  BY <1>1, <1>3 DEF ReportResume, EnqueueResume, Jobs, LiveJob
<1>4. CASE HeartbeatWrite(h)
  BY <1>1, <1>4 DEF HeartbeatWrite
<1>5. CASE RequestLost(h)
  BY <1>5 DEF RequestLost
<1>6. ASSUME NEW x \in Instances, ReportIgnored(h, x)
      PROVE  RunStateTypeOK' /\ CallbackTypeOK'
  BY <1>6 DEF ReportIgnored, cbVars
<1>7. ASSUME NEW x \in Instances, ReportRead(h, x)
      PROVE  RunStateTypeOK' /\ CallbackTypeOK'
  BY <1>7 DEF ReportRead
<1>8. ASSUME NEW x \in Instances, HeartbeatRead(h, x)
      PROVE  RunStateTypeOK' /\ CallbackTypeOK'
  BY <1>8, CallbackAssumption DEF HeartbeatRead
<1>. QED
  BY <1>2, <1>3, <1>4, <1>5, <1>6, <1>7, <1>8 DEF CallbackStep

\* Time and the sweeps keep the types.
LEMMA WatchdogTypes ==
  ASSUME TypeOK, WatchdogNext
  PROVE  RunStateTypeOK' /\ WatchdogTypeOK'
<1>. USE DEF TypeOK, RunStateTypeOK, WatchdogTypeOK, runVars, rowVars, SweepTo
<1>1. CASE GracePasses
  BY <1>1 DEF GracePasses
<1>2. ASSUME NEW x \in Instances, DeadlinePasses(x)
      PROVE  RunStateTypeOK' /\ WatchdogTypeOK'
  BY <1>2 DEF DeadlinePasses, wdVars
<1>3. ASSUME NEW s \in Sweepers, Sweep(s)
      PROVE  RunStateTypeOK' /\ WatchdogTypeOK'
  BY <1>3 DEF Sweep
<1>4. ASSUME NEW s \in Sweepers, NEW x \in Instances, ExpireCallback(s, x)
      PROVE  RunStateTypeOK' /\ WatchdogTypeOK'
  BY <1>4 DEF ExpireCallback, RowStatus, Resolved
<1>5. ASSUME NEW s \in Sweepers, ExpiryDone(s)
      PROVE  RunStateTypeOK' /\ WatchdogTypeOK'
  BY <1>5 DEF ExpiryDone, EnqueueResume, Jobs, LiveJob
<1>6. ASSUME NEW s \in Sweepers, CountWaiting(s)
      PROVE  RunStateTypeOK' /\ WatchdogTypeOK'
  BY <1>6 DEF CountWaiting
<1>7. ASSUME NEW s \in Sweepers, OrphanCheck(s)
      PROVE  RunStateTypeOK' /\ WatchdogTypeOK'
  BY <1>7 DEF OrphanCheck
<1>8. ASSUME NEW s \in Sweepers, FailRun(s)
      PROVE  RunStateTypeOK' /\ WatchdogTypeOK'
  BY <1>8 DEF FailRun, EmitFinished, MaxFinished, Terminal
<1>9. ASSUME NEW s \in Sweepers, SweepLost(s)
      PROVE  RunStateTypeOK' /\ WatchdogTypeOK'
  BY <1>9, WatchdogAssumption DEF SweepLost
<1>. QED
  BY <1>1, <1>2, <1>3, <1>4, <1>5, <1>6, <1>7, <1>8, <1>9
  DEF WatchdogNext, TimePasses, SweepStep

\* Whatever takes a job to its finalization has set the outcome.
LEMMA ResultStaysKnown ==
  ASSUME TypeOK, ResultKnown, [Next]_vars
  PROVE  ResultKnown'
<1>. USE DEF TypeOK, EngineTypeOK, ResultKnown, Goto, EndJob
<1>1. ASSUME NEW j \in Jobs, EngineStep(j) \/ Crash(j) \/ StalledCheck(j)
      PROVE  ResultKnown'
  <2>1. CASE ReadRun(j)
    BY <2>1 DEF ReadRun, AfterRead
  <2>2. CASE DeleteInFlight(j) \/ MarkRunning(j) \/ NextBatch(j)
    BY <2>2 DEF DeleteInFlight, MarkRunning, NextBatch
  <2>3. CASE LoadStates(j)
    BY <2>3 DEF LoadStates, Resolved, advVars
  <2>4. CASE ReloadStates(j)
    BY <2>4 DEF ReloadStates, Resolved
  <2>5. CASE Finalize(j)
    BY <2>5 DEF Finalize
  <2>6. CASE Crash(j) \/ StalledCheck(j)
    BY <2>6 DEF Crash, StalledCheck
  <2>7. ASSUME NEW n \in Nodes,
               RunPlain(j, n) \/ ForEachFailed(j, n)
                 \/ \E len \in Lengths[n] : RunForEach(j, n, len)
        PROVE  ResultKnown'
    BY <2>7 DEF RunPlain, ForEachFailed, RunForEach, NextNode
  <2>8. ASSUME NEW x \in Instances,
               ClaimNodeRun(j, x) \/ Trigger(j, x) \/ UpdateNodeRun(j, x) \/ RowVanished(j, x)
        PROVE  ResultKnown'
    BY <2>8 DEF ClaimNodeRun, Trigger, UpdateNodeRun, RowVanished, engVars
  <2>. QED BY <1>1, <2>1, <2>2, <2>3, <2>4, <2>5, <2>6, <2>7, <2>8 DEF EngineStep
<1>2. CASE Engines
  BY <1>1, <1>2 DEF Engines, EngineNext
<1>3. CASE UNCHANGED engVars
  BY <1>3 DEF engVars
<1>4. CASE Callbacks \/ Watchdogs \/ Cancels \/ UNCHANGED vars
  BY <1>3, <1>4 DEF Callbacks, Watchdogs, Cancels, vars
<1>. QED BY <1>2, <1>4 DEF Next

LEMMA NextTypeInv == TypeInv /\ [Next]_vars => TypeInv'
<1>. SUFFICES ASSUME TypeOK, ResultKnown, [Next]_vars PROVE TypeOK'
  BY ResultStaysKnown DEF TypeInv
<1>1. CASE Engines
  <2>1. RunStateTypeOK' /\ EngineTypeOK'
    BY <1>1, EngineTypes DEF Engines, EngineNext
  <2>. QED
    BY <1>1, <2>1 DEF Engines, TypeOK, CallbackTypeOK, WatchdogTypeOK, cbVars, wdVars
<1>2. CASE Callbacks
  <2>1. RunStateTypeOK' /\ CallbackTypeOK'
    BY <1>2, CallbackTypes DEF Callbacks
  <2>. QED
    BY <1>2, <2>1
    DEF Callbacks, TypeOK, EngineTypeOK, WatchdogTypeOK, engVars, advVars, wdVars
<1>3. CASE Watchdogs
  <2>1. RunStateTypeOK' /\ WatchdogTypeOK'
    BY <1>3, WatchdogTypes DEF Watchdogs
  <2>. QED
    BY <1>3, <2>1
    DEF Watchdogs, TypeOK, EngineTypeOK, CallbackTypeOK, engVars, advVars, cbVars
<1>4. CASE Cancels
  <2>1. RunStateTypeOK' /\ (canceling \subseteq Users)'
    BY <1>4
    DEF Cancels, CancelRead, CancelWrite, TypeOK, RunStateTypeOK, runVars, rowVars, Terminal
  <2>. QED
    BY <1>4, <2>1
    DEF Cancels, TypeOK, EngineTypeOK, CallbackTypeOK, WatchdogTypeOK,
        engVars, advVars, cbVars, wdVars
<1>5. CASE UNCHANGED vars
  BY <1>5
  DEF vars, TypeOK, RunStateTypeOK, EngineTypeOK, CallbackTypeOK, WatchdogTypeOK,
      runVars, rowVars, engVars, advVars, cbVars, wdVars
<1>. QED BY <1>1, <1>2, <1>3, <1>4, <1>5 DEF Next

\* Every variable keeps its type in every behaviour of the run.
THEOREM TypeCorrect == Spec => []TypeOK
<1>1. Init => TypeInv
  <2>1. Init => ResultKnown
    BY DEF Init, EngineInit, ResultKnown
  <2>. QED BY <2>1, InitTypeOK DEF TypeInv
<1>2. TypeInv /\ [Next]_vars => TypeInv'
  BY NextTypeInv
<1>3. TypeInv => TypeOK
  BY DEF TypeInv
<1>. QED BY <1>1, <1>2, <1>3, PTL DEF Spec

-----------------------------------------------------------------------------
(* Recorded results *)

\* A row that the job executing the instance still owns is RUNNING.
ClaimedRunning ==
  \A j \in Jobs : \A x \in exec[j] : OwnsRow(j, x) => row[x] = "RUNNING"

\* What a step keeps: every result.
RowsKept == \A x \in Instances : row[x] \in Resolved => row'[x] = row[x]

LEMMA EngineKeepsRows ==
  ASSUME TypeOK, ClaimedRunning, NEW j \in Jobs,
         EngineStep(j) \/ Crash(j) \/ StalledCheck(j)
  PROVE  RowsKept
<1>. USE DEF TypeOK, RunStateTypeOK, RowsKept
<1>1. CASE DeleteInFlight(j)
  BY <1>1 DEF DeleteInFlight, InFlight, Resolved
<1>2. ASSUME NEW x \in Instances, ClaimNodeRun(j, x)
      PROVE  RowsKept
  BY <1>2 DEF ClaimNodeRun, rowVars, Resolved
<1>3. ASSUME NEW x \in Instances, UpdateNodeRun(j, x)
      PROVE  RowsKept
  <2>1. row[x] = "RUNNING"
    BY <1>3 DEF UpdateNodeRun, ClaimedRunning
  <2>. QED BY <1>3, <2>1 DEF UpdateNodeRun, Resolved
<1>4. CASE UNCHANGED row
  BY <1>4
<1>5. ASSUME NEW n \in Nodes,
             RunPlain(j, n) \/ ForEachFailed(j, n)
               \/ \E len \in Lengths[n] : RunForEach(j, n, len)
      PROVE  UNCHANGED row
  BY <1>5 DEF RunPlain, ForEachFailed, RunForEach, NextNode, runVars, rowVars
<1>6. ASSUME ReadRun(j) \/ MarkRunning(j) \/ LoadStates(j) \/ NextBatch(j)
               \/ ReloadStates(j) \/ Finalize(j) \/ Crash(j) \/ StalledCheck(j)
      PROVE  UNCHANGED row
  BY <1>6 DEF ReadRun, MarkRunning, LoadStates, NextBatch, ReloadStates, Finalize, Crash,
              StalledCheck, runVars, rowVars
<1>7. ASSUME NEW x \in Instances, Trigger(j, x) \/ RowVanished(j, x)
      PROVE  UNCHANGED row
  BY <1>7 DEF Trigger, RowVanished, rowVars
<1>. QED BY <1>1, <1>2, <1>3, <1>4, <1>5, <1>6, <1>7 DEF EngineStep

\* The other components only resolve rows that wait for their callback.
OnlyWaitingWritten ==
  \A x \in Instances :
    row'[x] # row[x] => row[x] = "WAITING_CALLBACK" /\ row'[x] \in Resolved

LEMMA OthersWriteWaiting ==
  ASSUME TypeOK, Callbacks \/ Watchdogs \/ Cancels \/ UNCHANGED vars
  PROVE  OnlyWaitingWritten /\ UNCHANGED owner /\ UNCHANGED exec
<1>. USE DEF TypeOK, RunStateTypeOK, OnlyWaitingWritten
<1>1. CASE Callbacks
  <2>1. UNCHANGED exec
    BY <1>1 DEF Callbacks, engVars, advVars
  <2>2. PICK h \in Requests :
          \/ CallbackStep(h) \/ RequestLost(h)
          \/ \E x \in Instances : ReportIgnored(h, x) \/ ReportRead(h, x) \/ HeartbeatRead(h, x)
    BY <1>1 DEF Callbacks, CallbackNext
  <2>3. CASE ReportWrite(h)
    <3>1. CASE row[req[h].at] = "WAITING_CALLBACK"
      BY <2>1, <2>3, <3>1 DEF ReportWrite
    <3>2. CASE row[req[h].at] # "WAITING_CALLBACK"
      BY <2>1, <2>3, <3>2 DEF ReportWrite
    <3>. QED BY <3>1, <3>2
  <2>4. CASE ReportResume(h) \/ HeartbeatWrite(h) \/ RequestLost(h)
    BY <2>1, <2>4 DEF ReportResume, HeartbeatWrite, RequestLost, runVars, rowVars
  <2>5. ASSUME NEW x \in Instances,
               ReportIgnored(h, x) \/ ReportRead(h, x) \/ HeartbeatRead(h, x)
        PROVE  OnlyWaitingWritten /\ UNCHANGED owner
    BY <2>5 DEF ReportIgnored, ReportRead, HeartbeatRead, runVars, rowVars
  <2>. QED BY <2>1, <2>2, <2>3, <2>4, <2>5 DEF CallbackStep
<1>2. CASE Watchdogs
  <2>1. UNCHANGED exec
    BY <1>2 DEF Watchdogs, engVars, advVars
  <2>2. CASE TimePasses
    BY <2>1, <2>2 DEF TimePasses, GracePasses, DeadlinePasses, runVars, rowVars
  <2>3. ASSUME NEW s \in Sweepers, NEW x \in Instances, ExpireCallback(s, x)
        PROVE  OnlyWaitingWritten /\ UNCHANGED owner
    <3>1. CASE row[x] = "WAITING_CALLBACK"
      BY <2>3, <3>1 DEF ExpireCallback, Resolved
    <3>2. CASE row[x] # "WAITING_CALLBACK"
      BY <2>3, <3>2 DEF ExpireCallback
    <3>. QED BY <3>1, <3>2
  <2>4. ASSUME NEW s \in Sweepers,
               Sweep(s) \/ ExpiryDone(s) \/ CountWaiting(s) \/ OrphanCheck(s)
                 \/ FailRun(s) \/ SweepLost(s)
        PROVE  OnlyWaitingWritten /\ UNCHANGED owner
    BY <2>4 DEF Sweep, ExpiryDone, CountWaiting, OrphanCheck, FailRun, SweepLost, runVars, rowVars
  <2>. QED BY <1>2, <2>1, <2>2, <2>3, <2>4 DEF Watchdogs, WatchdogNext, SweepStep
<1>3. CASE Cancels
  BY <1>3 DEF Cancels, CancelRead, CancelWrite, runVars, rowVars, engVars, advVars
<1>4. CASE UNCHANGED vars
  BY <1>4 DEF vars, runVars, rowVars, engVars, advVars
<1>. QED BY <1>1, <1>2, <1>3, <1>4

LEMMA NextKeepsRows ==
  ASSUME TypeOK, ClaimedRunning, [Next]_vars
  PROVE  RowsKept
<1>1. CASE Engines
  BY <1>1, EngineKeepsRows DEF Engines, EngineNext
<1>2. CASE Callbacks \/ Watchdogs \/ Cancels \/ UNCHANGED vars
  BY <1>2, OthersWriteWaiting DEF OnlyWaitingWritten, RowsKept, Resolved
<1>. QED BY <1>1, <1>2 DEF Next

\* ClaimedRunning is inductive: an insert makes the row RUNNING, the outcome
\* ends the execution, and the clean-up takes the row from its owner.
LEMMA ClaimedStaysRunning ==
  ASSUME TypeOK, ClaimedRunning, [Next]_vars
  PROVE  ClaimedRunning'
<1>. USE DEF TypeOK, RunStateTypeOK, EngineTypeOK, ClaimedRunning, OwnsRow
<1>1. ASSUME NEW j \in Jobs, EngineStep(j) \/ Crash(j) \/ StalledCheck(j)
      PROVE  ClaimedRunning'
  <2>1. CASE DeleteInFlight(j)
    <3>1. UNCHANGED exec
      BY <2>1 DEF DeleteInFlight, advVars
    <3>. QED BY <2>1, <3>1 DEF DeleteInFlight, InFlight
  <2>2. ASSUME NEW x \in Instances, ClaimNodeRun(j, x)
        PROVE  ClaimedRunning'
    BY <2>2 DEF ClaimNodeRun, rowVars
  <2>3. ASSUME NEW x \in Instances, UpdateNodeRun(j, x)
        PROVE  ClaimedRunning'
    BY <2>3 DEF UpdateNodeRun
  <2>4. ASSUME NEW x \in Instances, RowVanished(j, x)
        PROVE  ClaimedRunning'
    BY <2>4 DEF RowVanished, rowVars
  <2>5. CASE Crash(j)
    BY <2>5 DEF Crash, runVars, rowVars
  <2>6. ASSUME UNCHANGED <<row, owner, exec>>
        PROVE  ClaimedRunning'
    BY <2>6
  <2>7. ASSUME ReadRun(j) \/ MarkRunning(j) \/ LoadStates(j) \/ NextBatch(j)
                 \/ ReloadStates(j) \/ Finalize(j) \/ StalledCheck(j)
        PROVE  UNCHANGED <<row, owner, exec>>
    BY <2>7 DEF ReadRun, MarkRunning, LoadStates, NextBatch, ReloadStates, Finalize,
                StalledCheck, runVars, rowVars, advVars
  <2>8. ASSUME NEW n \in Nodes,
               RunPlain(j, n) \/ ForEachFailed(j, n)
                 \/ \E len \in Lengths[n] : RunForEach(j, n, len)
        PROVE  UNCHANGED <<row, owner, exec>>
    BY <2>8 DEF RunPlain, ForEachFailed, RunForEach, NextNode, runVars, rowVars
  <2>9. ASSUME NEW x \in Instances, Trigger(j, x)
        PROVE  UNCHANGED <<row, owner, exec>>
    BY <2>9 DEF Trigger, engVars, advVars
  <2>. QED
    BY <1>1, <2>1, <2>2, <2>3, <2>4, <2>5, <2>6, <2>7, <2>8, <2>9 DEF EngineStep
<1>2. CASE Engines
  BY <1>1, <1>2 DEF Engines, EngineNext
<1>3. CASE Callbacks \/ Watchdogs \/ Cancels \/ UNCHANGED vars
  <2>1. OnlyWaitingWritten /\ UNCHANGED owner /\ UNCHANGED exec
    BY <1>3, OthersWriteWaiting
  <2>. QED BY <2>1 DEF OnlyWaitingWritten
<1>. QED BY <1>2, <1>3 DEF Next

LEMMA ClaimedAlwaysRunning == Spec => [](TypeOK /\ ClaimedRunning)
<1>1. Init => ClaimedRunning
  BY DEF Init, EngineInit, ClaimedRunning
<1>2. TypeOK /\ ClaimedRunning /\ [Next]_vars => ClaimedRunning'
  BY ClaimedStaysRunning
<1>. QED BY <1>1, <1>2, TypeCorrect, PTL DEF Spec

\* A node result, once SUCCESS or FAILED, is never changed or deleted: not by
\* a late worker, a repeated callback, a sweep, or a crash-retry's clean-up.
THEOREM ResultsAreStable == Spec => RowResultStable
<1>1. TypeOK /\ ClaimedRunning /\ [Next]_vars
        => [\A x \in Instances : row[x] \in Resolved => row'[x] = row[x]]_vars
  BY NextKeepsRows DEF RowsKept
<1>. QED BY <1>1, ClaimedAlwaysRunning, PTL DEF Spec, RowResultStable

-----------------------------------------------------------------------------
(* The order of a node after its predecessors *)

\* The condition of StartedAfterSource on one node.
SourceDone(n) ==
  \/ Incoming(n) = {}
  \/ \E e \in Incoming(n) : \E x \in RowsOf(e.source, row) : row[x] \in Resolved

\* Everything a job has yet to run or to claim has a finished predecessor.
Scheduled ==
  \A j \in Jobs :
    /\ \A n \in todo[j] : SourceDone(n)
    /\ \A x \in rest[j] \union claim[j] : SourceDone(x[1])

OrderInv == Scheduled /\ StartedAfterSource

\* A node whose edge fired has a predecessor with a result, since a node with
\* a row in progress has no aggregate status.
LEMMA ReadyAfterSource ==
  ASSUME TypeOK, NEW n \in Ready(row)
  PROVE  SourceDone(n)
<1>1. CASE Incoming(n) = {}
  BY <1>1 DEF SourceDone
<1>2. CASE Incoming(n) # {}
  <2>1. PICK e \in Incoming(n) : Fires(e, row)
    BY <1>2 DEF Ready, MayStart
  <2>2. AggregateStatus(e.source, row) # "undefined"
    BY <2>1 DEF Fires
  <2>3. PICK x \in RowsOf(e.source, row) : row[x] \notin InProgress
    BY <2>2 DEF AggregateStatus
  <2>4. row[x] \in RowStatus
    BY <2>3 DEF RowsOf, Rows, TypeOK, RunStateTypeOK
  <2>. QED BY <2>3, <2>4 DEF RowStatus, SourceDone
<1>. QED BY <1>1, <1>2

LEMMA SourceStaysDone ==
  ASSUME TypeOK, ClaimedRunning, [Next]_vars, NEW n, SourceDone(n)
  PROVE  SourceDone(n)'
<1>1. RowsKept
  BY NextKeepsRows
<1>2. ASSUME NEW e \in Incoming(n), NEW x \in RowsOf(e.source, row), row[x] \in Resolved
      PROVE  x \in RowsOf(e.source, row') /\ row'[x] \in Resolved
  BY <1>1, <1>2 DEF RowsKept, RowsOf, Rows
<1>. QED BY <1>2 DEF SourceDone, Incoming

\* Where a step takes a job's work from.
WorkKept ==
  \A j \in Jobs :
    /\ todo'[j] \subseteq todo[j] \union Ready(row)
    /\ \A x \in rest'[j] \union claim'[j] : x[1] \in todo[j] \/ x \in rest[j] \union claim[j]

\* A row is inserted for a claimed instance only.
RowsClaimed ==
  \A x \in Instances : row'[x] # "none" => row[x] # "none" \/ \E j \in Jobs : x \in claim[j]

LEMMA EngineKeepsWork ==
  ASSUME TypeOK, NEW j \in Jobs, EngineStep(j) \/ Crash(j) \/ StalledCheck(j)
  PROVE  WorkKept
<1>. USE DEF TypeOK, EngineTypeOK, WorkKept
<1>1. CASE LoadStates(j)
  BY <1>1 DEF LoadStates, advVars
<1>2. CASE NextBatch(j)
  BY <1>2 DEF NextBatch
<1>3. CASE Crash(j)
  BY <1>3 DEF Crash
<1>4. ASSUME NEW n \in Nodes, NextNode(j, n)
      PROVE  n \in todo[j] /\ todo' = [todo EXCEPT ![j] = @ \ {n}]
  BY <1>4 DEF NextNode
<1>5. ASSUME NEW n \in Nodes, RunPlain(j, n) \/ ForEachFailed(j, n)
      PROVE  WorkKept
  <2>1. claim' = [claim EXCEPT ![j] = {<<n, 0>>}] /\ rest' = rest
    BY <1>5 DEF RunPlain, ForEachFailed, RecordSentinel
  <2>. QED BY <1>4, <1>5, <2>1 DEF RunPlain, ForEachFailed
<1>6. ASSUME NEW n \in Nodes, NEW len \in Lengths[n], RunForEach(j, n, len)
      PROVE  WorkKept
  <2>1. CASE claim' = [claim EXCEPT ![j] = {<<n, 0>>}] /\ rest' = rest
    BY <1>4, <1>6, <2>1 DEF RunForEach
  <2>2. CASE claim' = claim /\ rest' = [rest EXCEPT ![j] = {n} \X (0 .. len - 1)]
    BY <1>4, <1>6, <2>2 DEF RunForEach
  <2>. QED BY <1>6, <2>1, <2>2 DEF RunForEach, RecordSentinel
<1>7. ASSUME NEW x \in Instances, ClaimNodeRun(j, x) \/ RowVanished(j, x)
      PROVE  WorkKept
  BY <1>7 DEF ClaimNodeRun, RowVanished
<1>8. ASSUME NEW x \in Instances, Trigger(j, x) \/ UpdateNodeRun(j, x)
      PROVE  WorkKept
  BY <1>8 DEF Trigger, UpdateNodeRun, engVars, advVars
<1>9. CASE ReadRun(j) \/ DeleteInFlight(j) \/ MarkRunning(j) \/ ReloadStates(j)
             \/ Finalize(j) \/ StalledCheck(j)
  BY <1>9 DEF ReadRun, DeleteInFlight, MarkRunning, ReloadStates, Finalize, StalledCheck, advVars
<1>. QED
  BY <1>1, <1>2, <1>3, <1>5, <1>6, <1>7, <1>8, <1>9 DEF EngineStep

LEMMA EngineInsertsClaimed ==
  ASSUME TypeOK, ClaimedRunning, NEW j \in Jobs,
         EngineStep(j) \/ Crash(j) \/ StalledCheck(j)
  PROVE  RowsClaimed
<1>. USE DEF TypeOK, RunStateTypeOK, RowsClaimed
<1>1. CASE DeleteInFlight(j)
  BY <1>1 DEF DeleteInFlight
<1>2. ASSUME NEW x \in Instances, ClaimNodeRun(j, x)
      PROVE  RowsClaimed
  BY <1>2 DEF ClaimNodeRun, rowVars
<1>3. ASSUME NEW x \in Instances, UpdateNodeRun(j, x)
      PROVE  RowsClaimed
  BY <1>3 DEF UpdateNodeRun, OwnsRow
<1>4. CASE UNCHANGED row
  BY <1>4
<1>5. ASSUME NEW n \in Nodes,
             RunPlain(j, n) \/ ForEachFailed(j, n)
               \/ \E len \in Lengths[n] : RunForEach(j, n, len)
      PROVE  UNCHANGED row
  BY <1>5 DEF RunPlain, ForEachFailed, RunForEach, NextNode, runVars, rowVars
<1>6. ASSUME ReadRun(j) \/ MarkRunning(j) \/ LoadStates(j) \/ NextBatch(j)
               \/ ReloadStates(j) \/ Finalize(j) \/ Crash(j) \/ StalledCheck(j)
      PROVE  UNCHANGED row
  BY <1>6 DEF ReadRun, MarkRunning, LoadStates, NextBatch, ReloadStates, Finalize, Crash,
              StalledCheck, runVars, rowVars
<1>7. ASSUME NEW x \in Instances, Trigger(j, x) \/ RowVanished(j, x)
      PROVE  UNCHANGED row
  BY <1>7 DEF Trigger, RowVanished, rowVars
<1>. QED BY <1>1, <1>2, <1>3, <1>4, <1>5, <1>6, <1>7 DEF EngineStep

LEMMA OthersInsertNothing ==
  ASSUME TypeOK, Callbacks \/ Watchdogs \/ Cancels \/ UNCHANGED vars
  PROVE  WorkKept /\ RowsClaimed
<1>1. OnlyWaitingWritten
  BY OthersWriteWaiting
<1>2. UNCHANGED <<todo, rest, claim>>
  BY DEF Callbacks, Watchdogs, Cancels, vars, engVars, advVars
<1>. QED BY <1>1, <1>2 DEF OnlyWaitingWritten, WorkKept, RowsClaimed

\* OrderInv is inductive: work enters a job through the ready frontier, rows
\* come from claims, and what a predecessor has resolved stays resolved.
LEMMA OrderKept ==
  ASSUME TypeOK, ClaimedRunning, OrderInv, [Next]_vars
  PROVE  OrderInv'
<1>1. WorkKept /\ RowsClaimed
  <2>1. CASE Engines
    BY <2>1, EngineKeepsWork, EngineInsertsClaimed DEF Engines, EngineNext
  <2>2. CASE Callbacks \/ Watchdogs \/ Cancels \/ UNCHANGED vars
    BY <2>2, OthersInsertNothing
  <2>. QED BY <2>1, <2>2 DEF Next
<1>2. ASSUME NEW j \in Jobs, NEW n \in todo'[j]
      PROVE  SourceDone(n)'
  <2>1. SourceDone(n)
    BY <1>1, <1>2, ReadyAfterSource DEF WorkKept, OrderInv, Scheduled
  <2>. QED BY <2>1, SourceStaysDone
<1>3. ASSUME NEW j \in Jobs, NEW x \in rest'[j] \union claim'[j]
      PROVE  SourceDone(x[1])'
  <2>1. SourceDone(x[1])
    BY <1>1, <1>3 DEF WorkKept, OrderInv, Scheduled
  <2>. QED BY <2>1, SourceStaysDone
<1>4. ASSUME NEW n \in Nodes, RowsOf(n, row') # {}
      PROVE  SourceDone(n)'
  <2>1. PICK x \in Instances : x[1] = n /\ row'[x] # "none"
    BY <1>4 DEF RowsOf, Rows
  <2>2. CASE row[x] # "none"
    <3>1. SourceDone(n)
      BY <2>1, <2>2 DEF OrderInv, StartedAfterSource, SourceDone, RowsOf, Rows
    <3>. QED BY <3>1, SourceStaysDone
  <2>3. CASE \E j \in Jobs : x \in claim[j]
    <3>1. SourceDone(n)
      BY <2>1, <2>3 DEF OrderInv, Scheduled
    <3>. QED BY <3>1, SourceStaysDone
  <2>. QED BY <1>1, <2>1, <2>2, <2>3 DEF RowsClaimed
<1>5. Scheduled'
  BY <1>2, <1>3 DEF Scheduled
<1>6. StartedAfterSource'
  BY <1>4 DEF StartedAfterSource, SourceDone
<1>. QED BY <1>5, <1>6 DEF OrderInv

\* No node other than an entry node starts before a predecessor has a result,
\* whichever of the overlapping advances starts it and whatever crashes.
THEOREM NodesStartAfterSources == Spec => []StartedAfterSource
<1>1. Init => OrderInv
  <2>1. Init => Scheduled
    BY DEF Init, EngineInit, Scheduled
  <2>2. Init => StartedAfterSource
    BY DEF Init, RunStateInit, StartedAfterSource, RowsOf, Rows
  <2>. QED BY <2>1, <2>2 DEF OrderInv
<1>2. TypeOK /\ ClaimedRunning /\ OrderInv /\ [Next]_vars => OrderInv'
  BY OrderKept
<1>3. OrderInv => StartedAfterSource
  BY DEF OrderInv
<1>. QED BY <1>1, <1>2, <1>3, ClaimedAlwaysRunning, PTL DEF Spec

-----------------------------------------------------------------------------
(* A node follows the conditions of its edges *)

\* No edge leaves a fan-out, whose joined result may change between batches.
NoFanOutSource == \A e \in Edges : e.source \notin ForEach

\* A node without forEach has at most the instance at mapIndex 0.
PlainAtZero ==
  \A x \in Instances :
    x[1] \notin ForEach /\ (row[x] # "none" \/ \E j \in Jobs : x \in rest[j] \union claim[j])
      => x[2] = 0

\* Everything a job has yet to run or to claim was let in by the definition.
WorkGated ==
  \A j \in Jobs :
    /\ \A n \in todo[j] : MayStart(n, row)
    /\ \A x \in rest[j] \union claim[j] : MayStart(x[1], row)

\* Only forEach gives work an index other than 0.
IndexKept ==
  \A j \in Jobs : \A x \in rest'[j] \union claim'[j] :
    x \in rest[j] \union claim[j] \/ x[2] = 0 \/ x[1] \in ForEach

LEMMA EngineKeepsIndex ==
  ASSUME TypeOK, NEW j \in Jobs, EngineStep(j) \/ Crash(j) \/ StalledCheck(j)
  PROVE  IndexKept
<1>. USE DEF TypeOK, EngineTypeOK, IndexKept
<1>1. CASE NextBatch(j)
  BY <1>1 DEF NextBatch
<1>2. CASE Crash(j)
  BY <1>2 DEF Crash
<1>3. ASSUME NEW n \in Nodes, RunPlain(j, n) \/ ForEachFailed(j, n)
      PROVE  IndexKept
  <2>1. claim' = [claim EXCEPT ![j] = {<<n, 0>>}] /\ rest' = rest
    BY <1>3 DEF RunPlain, ForEachFailed, RecordSentinel
  <2>. QED BY <2>1
<1>4. ASSUME NEW n \in Nodes, NEW len \in Lengths[n], RunForEach(j, n, len)
      PROVE  IndexKept
  <2>1. CASE claim' = [claim EXCEPT ![j] = {<<n, 0>>}] /\ rest' = rest
    BY <2>1
  <2>2. CASE claim' = claim /\ rest' = [rest EXCEPT ![j] = {n} \X (0 .. len - 1)]
    BY <1>4, <2>2 DEF RunForEach
  <2>. QED BY <1>4, <2>1, <2>2 DEF RunForEach, RecordSentinel
<1>5. ASSUME NEW x \in Instances, ClaimNodeRun(j, x) \/ RowVanished(j, x)
      PROVE  IndexKept
  BY <1>5 DEF ClaimNodeRun, RowVanished
<1>6. ASSUME NEW x \in Instances, Trigger(j, x) \/ UpdateNodeRun(j, x)
      PROVE  IndexKept
  BY <1>6 DEF Trigger, UpdateNodeRun, engVars, advVars
<1>7. CASE ReadRun(j) \/ DeleteInFlight(j) \/ MarkRunning(j) \/ LoadStates(j) \/ ReloadStates(j)
             \/ Finalize(j) \/ StalledCheck(j)
  BY <1>7 DEF ReadRun, DeleteInFlight, MarkRunning, LoadStates, ReloadStates, Finalize, StalledCheck,
              advVars
<1>. QED BY <1>1, <1>2, <1>3, <1>4, <1>5, <1>6, <1>7 DEF EngineStep

\* What a step does to the work of the jobs, and to the rows.
LEMMA WorkStep ==
  ASSUME TypeOK, ClaimedRunning, [Next]_vars
  PROVE  WorkKept /\ RowsClaimed /\ IndexKept
<1>1. CASE Engines
  BY <1>1, EngineKeepsWork, EngineInsertsClaimed, EngineKeepsIndex DEF Engines, EngineNext
<1>2. CASE Callbacks \/ Watchdogs \/ Cancels \/ UNCHANGED vars
  <2>1. UNCHANGED <<rest, claim>>
    BY <1>2 DEF Callbacks, Watchdogs, Cancels, vars, engVars, advVars
  <2>. QED BY <1>2, <2>1, OthersInsertNothing DEF IndexKept
<1>. QED BY <1>1, <1>2 DEF Next

LEMMA PlainStaysAtZero ==
  ASSUME TypeOK, ClaimedRunning, PlainAtZero, [Next]_vars
  PROVE  PlainAtZero'
BY WorkStep DEF PlainAtZero, IndexKept, RowsClaimed

\* The result of a plain node, once there, decides its edges for good.
LEMMA FiringIsFinal ==
  ASSUME TypeOK, ClaimedRunning, PlainAtZero, [Next]_vars,
         NEW e \in Edges, e.source \notin ForEach, Fires(e, row)
  PROVE  Fires(e, row')
<1> DEFINE n == e.source
<1>1. RowsKept /\ PlainAtZero'
  BY NextKeepsRows, PlainStaysAtZero
<1>2. /\ RowsOf(n, row) # {}
      /\ \A x \in RowsOf(n, row) : row[x] \notin InProgress
  BY DEF Fires, AggregateStatus
<1>3. \A x \in RowsOf(n, row) : row[x] \in Resolved
  BY <1>2 DEF TypeOK, RunStateTypeOK, RowsOf, Rows, RowStatus
<1>4. PICK x \in Instances : x[1] = n /\ x \in RowsOf(n, row)
  BY <1>2 DEF RowsOf, Rows
<1>5. x[2] = 0 /\ row[x] \in Resolved /\ row'[x] = row[x] /\ row[x] # "none"
  BY <1>1, <1>3, <1>4 DEF PlainAtZero, RowsOf, Rows, RowsKept
<1>6. RowsOf(n, row') = RowsOf(n, row)
  <2>1. \A y \in Instances : y[1] = n /\ y[2] = 0 => y = x
    BY <1>4, <1>5 DEF Instances
  <2>2. ASSUME NEW y \in RowsOf(n, row')
        PROVE  y = x
    BY <1>1, <2>1 DEF PlainAtZero, RowsOf, Rows
  <2>3. ASSUME NEW y \in RowsOf(n, row)
        PROVE  y = x
    BY <2>1 DEF PlainAtZero, RowsOf, Rows
  <2>. QED BY <1>4, <1>5, <2>2, <2>3 DEF RowsOf, Rows
<1>7. \A y \in RowsOf(n, row) : row'[y] = row[y]
  BY <1>1, <1>3 DEF RowsKept, RowsOf, Rows
<1>8. JoinHolds(n, row') <=> JoinHolds(n, row)
  <2>1. {y \in RowsOf(n, row') : row'[y] = "SUCCESS"} = {y \in RowsOf(n, row) : row[y] = "SUCCESS"}
    BY <1>6, <1>7
  <2>. QED BY <1>6, <2>1 DEF JoinHolds
<1>9. AggregateStatus(n, row') = AggregateStatus(n, row)
  BY <1>6, <1>7, <1>8 DEF AggregateStatus
<1>. QED BY <1>9 DEF Fires

LEMMA StartIsFinal ==
  ASSUME NoFanOutSource, TypeOK, ClaimedRunning, PlainAtZero, [Next]_vars, NEW n, MayStart(n, row)
  PROVE  MayStart(n, row')
<1>1. CASE Incoming(n) = {}
  BY <1>1 DEF MayStart
<1>2. CASE \E e \in Incoming(n) : Fires(e, row)
  BY <1>2, FiringIsFinal DEF MayStart, Incoming, NoFanOutSource
<1>. QED BY <1>1, <1>2 DEF MayStart

GateInv == PlainAtZero /\ WorkGated /\ GatedByCondition

LEMMA GateKept ==
  ASSUME NoFanOutSource, TypeOK, ClaimedRunning, GateInv, [Next]_vars
  PROVE  GateInv'
<1>1. WorkKept /\ RowsClaimed /\ PlainAtZero'
  BY WorkStep, PlainStaysAtZero DEF GateInv
<1>2. ASSUME NEW n, MayStart(n, row)
      PROVE  MayStart(n, row')
  BY <1>2, StartIsFinal DEF GateInv
<1>3. WorkGated'
  <2>1. ASSUME NEW j \in Jobs, NEW n \in todo'[j]
        PROVE  MayStart(n, row')
    <3>1. MayStart(n, row)
      BY <1>1, <2>1 DEF WorkKept, GateInv, WorkGated, Ready
    <3>. QED BY <1>2, <3>1
  <2>2. ASSUME NEW j \in Jobs, NEW x \in rest'[j] \union claim'[j]
        PROVE  MayStart(x[1], row')
    <3>1. MayStart(x[1], row)
      BY <1>1, <2>2 DEF WorkKept, GateInv, WorkGated
    <3>. QED BY <1>2, <3>1
  <2>. QED BY <2>1, <2>2 DEF WorkGated
<1>4. ASSUME NEW n \in Nodes, RowsOf(n, row') # {}
      PROVE  MayStart(n, row')
  <2>1. PICK x \in Instances : x[1] = n /\ row'[x] # "none"
    BY <1>4 DEF RowsOf, Rows
  <2>2. CASE row[x] # "none"
    <3>1. MayStart(n, row)
      BY <2>1, <2>2 DEF GateInv, GatedByCondition, RowsOf, Rows
    <3>. QED BY <1>2, <3>1
  <2>3. CASE \E j \in Jobs : x \in claim[j]
    <3>1. MayStart(n, row)
      BY <2>1, <2>3 DEF GateInv, WorkGated
    <3>. QED BY <1>2, <3>1
  <2>. QED BY <1>1, <2>1, <2>2, <2>3 DEF RowsClaimed
<1>. QED BY <1>1, <1>3, <1>4 DEF GateInv, GatedByCondition

\* Whatever advances overlap and whoever crashes, a node other than an entry
\* node has a row only if the outcome of a predecessor meets the condition of
\* their edge, in every flow none of whose edges leaves a fan-out.
THEOREM NodesFollowConditions ==
  ASSUME NoFanOutSource
  PROVE  Spec => []GatedByCondition
<1>1. Init => GateInv
  BY DEF Init, RunStateInit, EngineInit, GateInv, PlainAtZero, WorkGated, GatedByCondition, RowsOf, Rows
<1>2. TypeOK /\ ClaimedRunning /\ GateInv /\ [Next]_vars => GateInv'
  BY GateKept
<1>3. GateInv => GatedByCondition
  BY DEF GateInv
<1>. QED BY <1>1, <1>2, <1>3, ClaimedAlwaysRunning, PTL DEF Spec
=============================================================================
