------------------------------- MODULE Engine -------------------------------
(***************************************************************************)
(* The BullMQ worker's handler of a run: RunService.executeRun and         *)
(* ExecutionEngine.advance, one process per job, one action between two    *)
(* awaited database calls.  Any two jobs of the run may be active at once  *)
(* (the initial job and resume jobs, on one worker or on several).         *)
(*                                                                         *)
(* Within advance, `todo` holds the ready nodes still to be run in order,  *)
(* `rest` the fan-out instances of later batches, `claim` the instances    *)
(* whose insert has been issued and `exec` those this job has claimed and  *)
(* is executing.  The retry loop of an instance stays inside "executing":  *)
(* it touches no shared state but the external system.                     *)
(***************************************************************************)
EXTENDS RunState

CONSTANTS
  MayCrash    \* jobs whose worker process may die while they are active

ASSUME EngineAssumption == MayCrash \subseteq Jobs

VARIABLES
  pc,      \* next step of the job's executeRun
  fresh,   \* the run was PENDING when the job read it
  todo, budget, rest, claim, exec,
  forced,  \* outcome of a sentinel row ("no" for a real execution)
  result,  \* outcome of advance, to be written by the finalization
  stalls   \* times BullMQ has found the job stalled

advVars == <<todo, budget, rest, claim, exec, forced>>
engVars == <<pc, fresh, advVars, result, stalls>>

MaxStalls == 1  \* BullMQ's default maxStalledCount

EngineTypeOK ==
  /\ pc \in [Jobs -> {"idle", "clean", "mark", "nodes", "reload", "final", "dead"}]
  /\ fresh \in [Jobs -> BOOLEAN]
  /\ todo \in [Jobs -> SUBSET Nodes]
  /\ budget \in [Jobs -> Nat]
  /\ rest \in [Jobs -> SUBSET Instances]
  /\ claim \in [Jobs -> SUBSET Instances]
  /\ exec \in [Jobs -> SUBSET Instances]
  /\ forced \in [Jobs -> Resolved \union {"no"}]
  /\ result \in [Jobs -> Resolved \union {"none"}]
  /\ stalls \in [Jobs -> 0 .. MaxStalls]

EngineInit ==
  /\ pc = [j \in Jobs |-> "idle"]
  /\ fresh = [j \in Jobs |-> FALSE]
  /\ todo = [j \in Jobs |-> {}]
  /\ budget = [j \in Jobs |-> 0]
  /\ rest = [j \in Jobs |-> {}]
  /\ claim = [j \in Jobs |-> {}]
  /\ exec = [j \in Jobs |-> {}]
  /\ forced = [j \in Jobs |-> "no"]
  /\ result = [j \in Jobs |-> "none"]
  /\ stalls = [j \in Jobs |-> 0]

Goto(j, l) == pc' = [pc EXCEPT ![j] = l]

\* executeRun returned or threw: the job leaves the worker.
EndJob(j, state) ==
  /\ Goto(j, "idle")
  /\ queue' = [queue EXCEPT ![j] = state]

-----------------------------------------------------------------------------
(* executeRun before the engine advances *)

\* The step after reading the run: only the initial job cleans up.
AfterRead(j) ==
  IF j = RunJob THEN "clean" ELSE IF runStatus = "PENDING" THEN "mark" ELSE "nodes"

\* The worker takes the job and reads the run; a terminal run is left alone.
ReadRun(j) ==
  /\ queue[j] = "waiting"
  /\ \/ /\ runStatus \in Terminal
        /\ queue' = [queue EXCEPT ![j] = "completed"]
        /\ UNCHANGED <<pc, fresh>>
     \/ /\ runStatus \notin Terminal
        /\ queue' = [queue EXCEPT ![j] = "active"]
        /\ fresh' = [fresh EXCEPT ![j] = runStatus = "PENDING"]
        /\ Goto(j, AfterRead(j))
  /\ UNCHANGED <<runStatus, rowVars, finished, advVars, result, stalls>>

\* Mutants: a dead attempt's rows are kept; its results are dropped too.
InFlightKept == {}
InFlightAndResults == {x \in Instances : row[x] # "WAITING_CALLBACK"}

InFlight == {x \in Instances : row[x] = "RUNNING"}

\* Delete the RUNNING rows a dead attempt left; their tokens are void.
DeleteInFlight(j) ==
  /\ pc[j] = "clean"
  /\ LET gone == InFlight IN
     /\ row'   = [x \in Instances |-> IF x \in gone THEN "none" ELSE row[x]]
     /\ owner' = [x \in Instances |-> IF x \in gone THEN NoJob ELSE owner[x]]
     /\ ext'   = [x \in Instances |-> IF x \in gone THEN "idle" ELSE ext[x]]
  /\ Goto(j, IF fresh[j] THEN "mark" ELSE "nodes")
  /\ UNCHANGED <<runStatus, late, queue, finished, fresh, advVars, result, stalls>>

\* PENDING -> RUNNING, written whatever the status is by now.
MarkRunning(j) ==
  /\ pc[j] = "mark"
  /\ runStatus' = "RUNNING"
  /\ Goto(j, "nodes")
  /\ UNCHANGED <<rowVars, queue, finished, fresh, advVars, result, stalls>>

-----------------------------------------------------------------------------
(* ExecutionEngine.advance: the frontier loop *)

\* The previous node of the batch has been run to its end.
NodeDone(j) == rest[j] = {} /\ claim[j] = {} /\ exec[j] = {}

OverBudget(n, j) == MaxNodeRuns # 0 /\ n > budget[j]

\* Load the rows: guardrail, ready frontier, or end of the loop.
LoadStates(j) ==
  /\ pc[j] = "nodes" /\ todo[j] = {} /\ NodeDone(j)
  /\ LET count == Cardinality(Rows(row)) IN
     \/ /\ MaxNodeRuns # 0 /\ count >= MaxNodeRuns
        /\ result' = [result EXCEPT ![j] = "FAILED"]
        /\ Goto(j, "final")
        /\ UNCHANGED advVars
     \/ /\ MaxNodeRuns = 0 \/ count < MaxNodeRuns
        /\ Ready(row) = {}
        /\ Goto(j, "reload")
        /\ UNCHANGED <<advVars, result>>
     \/ /\ MaxNodeRuns = 0 \/ count < MaxNodeRuns
        /\ Ready(row) # {}
        /\ todo' = [todo EXCEPT ![j] = Ready(row)]
        /\ budget' = [budget EXCEPT ![j] = IF MaxNodeRuns = 0 THEN 0 ELSE MaxNodeRuns - count]
        /\ UNCHANGED <<pc, rest, claim, exec, forced, result>>
  /\ UNCHANGED <<runVars, fresh, stalls>>

\* Node n is the next of the ready nodes, in definition order.
NextNode(j, n) ==
  /\ pc[j] = "nodes" /\ NodeDone(j)
  /\ n \in todo[j] /\ \A m \in todo[j] : Pos[n] <= Pos[m]
  /\ todo' = [todo EXCEPT ![j] = @ \ {n}]
  /\ UNCHANGED <<runVars, pc, fresh, budget, exec, result, stalls>>

\* A node without forEach is one instance at mapIndex 0.
RunPlain(j, n) ==
  /\ NextNode(j, n)
  /\ n \notin ForEach
  /\ claim' = [claim EXCEPT ![j] = {<<n, 0>>}]
  /\ forced' = [forced EXCEPT ![j] = "no"]
  /\ UNCHANGED rest

\* A node done without running items: one row with a given outcome.
RecordSentinel(j, n, status) ==
  /\ claim' = [claim EXCEPT ![j] = {<<n, 0>>}]
  /\ forced' = [forced EXCEPT ![j] = status]
  /\ UNCHANGED rest

\* forEach evaluated to an array of len items.
RunForEach(j, n, len) ==
  /\ NextNode(j, n)
  /\ n \in ForEach
  /\ \/ len = 0 /\ RecordSentinel(j, n, "SUCCESS")
     \/ len > 0 /\ OverBudget(len, j) /\ RecordSentinel(j, n, "FAILED")
     \/ /\ len > 0 /\ ~OverBudget(len, j)
        /\ rest' = [rest EXCEPT ![j] = {n} \X (0 .. len - 1)]
        /\ forced' = [forced EXCEPT ![j] = "no"]
        /\ UNCHANGED claim

\* forEach threw or timed out.
ForEachFailed(j, n) ==
  /\ NextNode(j, n)
  /\ n \in ForEach
  /\ RecordSentinel(j, n, "FAILED")

\* The next `limit` items of the fan-out, once the previous batch is settled.
NextBatch(j) ==
  /\ claim[j] = {} /\ exec[j] = {}
  /\ \E first \in rest[j] :
       /\ \A x \in rest[j] : first[2] <= x[2]
       /\ LET batch == {x \in rest[j] : x[2] < first[2] + BatchLimit[first[1]]} IN
          /\ claim' = [claim EXCEPT ![j] = batch]
          /\ rest' = [rest EXCEPT ![j] = @ \ batch]
  /\ UNCHANGED <<runVars, pc, fresh, todo, budget, exec, forced, result, stalls>>

-----------------------------------------------------------------------------
(* One node instance *)

\* Mutant: the insert is an upsert, so a claimed instance is claimed again.
UpsertNodeRun(j, x) ==
  /\ x \in claim[j]
  /\ claim' = [claim EXCEPT ![j] = @ \ {x}]
  /\ row' = [row EXCEPT ![x] = "RUNNING"]
  /\ owner' = [owner EXCEPT ![x] = j]
  /\ ext' = [ext EXCEPT ![x] = "idle"]
  /\ late' = [late EXCEPT ![x] = FALSE]
  /\ exec' = [exec EXCEPT ![j] = @ \union {x}]
  /\ UNCHANGED <<runStatus, queue, finished, pc, fresh, todo, budget, rest,
                 forced, result, stalls>>

\* Insert the row; a unique-key conflict means another advance has it.
ClaimNodeRun(j, x) ==
  /\ x \in claim[j]
  /\ claim' = [claim EXCEPT ![j] = @ \ {x}]
  /\ \/ /\ row[x] = "none"
        /\ row' = [row EXCEPT ![x] = "RUNNING"]
        /\ owner' = [owner EXCEPT ![x] = j]
        /\ ext' = [ext EXCEPT ![x] = "idle"]
        /\ late' = [late EXCEPT ![x] = FALSE]
        /\ exec' = [exec EXCEPT ![j] = @ \union {x}]
     \/ /\ row[x] # "none"
        /\ UNCHANGED <<rowVars, exec>>
  /\ UNCHANGED <<runStatus, queue, finished, pc, fresh, todo, budget, rest,
                 forced, result, stalls>>

\* A callback node's executor reaches the external system with the token;
\* the attempt may still fail or time out afterwards.
Trigger(j, x) ==
  /\ x \in exec[j] /\ x[1] \in Callback /\ forced[j] = "no"
  /\ owner[x] = j /\ ext[x] = "idle"
  /\ ext' = [ext EXCEPT ![x] = "running"]
  /\ UNCHANGED <<runStatus, row, owner, late, queue, finished, engVars>>

\* What the execution may end in: a sentinel's outcome, a failure, or what
\* success means for the node.
Outcomes(j, x) ==
  IF forced[j] # "no" THEN {forced[j]}
  ELSE {"FAILED"} \union
       IF x[1] \notin Callback THEN {"SUCCESS"}
       ELSE IF ext[x] = "idle" THEN {} ELSE {"WAITING_CALLBACK"}

\* The row of x is still the one this job inserted.
OwnsRow(j, x) == row[x] # "none" /\ owner[x] = j

\* Write the outcome to the claimed row, by its id.
UpdateNodeRun(j, x) ==
  /\ x \in exec[j] /\ OwnsRow(j, x)
  /\ \E status \in Outcomes(j, x) : row' = [row EXCEPT ![x] = status]
  /\ exec' = [exec EXCEPT ![j] = @ \ {x}]
  /\ UNCHANGED <<runStatus, owner, ext, late, queue, finished, pc, fresh, todo,
                 budget, rest, claim, forced, result, stalls>>

\* The row was deleted meanwhile: the update throws out of executeRun and the
\* job fails for good.  Sibling instances of the batch go on in the background.
RowVanished(j, x) ==
  /\ x \in exec[j] /\ ~OwnsRow(j, x)
  /\ exec' = [exec EXCEPT ![j] = @ \ {x}]
  /\ todo' = [todo EXCEPT ![j] = {}]
  /\ rest' = [rest EXCEPT ![j] = {}]
  /\ EndJob(j, "failed")
  /\ UNCHANGED <<runStatus, rowVars, finished, fresh, budget, claim, forced,
                 result, stalls>>

-----------------------------------------------------------------------------
(* The end of advance and of executeRun *)

\* Nothing was ready: read the rows again to decide the outcome.
ReloadStates(j) ==
  /\ pc[j] = "reload"
  /\ \/ /\ \E x \in Instances : row[x] = "WAITING_CALLBACK"
        /\ EndJob(j, "completed")
        /\ UNCHANGED result
     \/ /\ \A x \in Instances : row[x] # "WAITING_CALLBACK"
        /\ result' = [result EXCEPT ![j] = IF AnyFailed(row) THEN "FAILED" ELSE "SUCCESS"]
        /\ Goto(j, "final")
        /\ UNCHANGED queue
  /\ UNCHANGED <<runStatus, rowVars, finished, fresh, advVars, stalls>>

\* Mutant: the final status is written whatever the run's status is.
FinalizeAlways(j) ==
  /\ pc[j] = "final"
  /\ runStatus' = result[j]
  /\ EmitFinished
  /\ result' = [result EXCEPT ![j] = "none"]
  /\ EndJob(j, "completed")
  /\ UNCHANGED <<rowVars, fresh, advVars, stalls>>

\* Conditional on the run still being RUNNING.
Finalize(j) ==
  /\ pc[j] = "final"
  /\ \/ runStatus = "RUNNING" /\ runStatus' = result[j] /\ EmitFinished
     \/ runStatus # "RUNNING" /\ UNCHANGED <<runStatus, finished>>
  /\ result' = [result EXCEPT ![j] = "none"]
  /\ EndJob(j, "completed")
  /\ UNCHANGED <<rowVars, fresh, advVars, stalls>>

-----------------------------------------------------------------------------
(* The death of a worker *)

\* The process dies: its memory is gone, its job is still "active" in Redis.
Crash(j) ==
  /\ j \in MayCrash /\ pc[j] \notin {"idle", "dead"}
  /\ Goto(j, "dead")
  /\ fresh' = [fresh EXCEPT ![j] = FALSE]
  /\ todo' = [todo EXCEPT ![j] = {}]
  /\ rest' = [rest EXCEPT ![j] = {}]
  /\ claim' = [claim EXCEPT ![j] = {}]
  /\ exec' = [exec EXCEPT ![j] = {}]
  /\ forced' = [forced EXCEPT ![j] = "no"]
  /\ result' = [result EXCEPT ![j] = "none"]
  /\ UNCHANGED <<runVars, budget, stalls>>

\* BullMQ notices the lost lock: the job is queued again once, then failed.
StalledCheck(j) ==
  /\ pc[j] = "dead"
  /\ \/ /\ stalls[j] < MaxStalls
        /\ stalls' = [stalls EXCEPT ![j] = @ + 1]
        /\ EndJob(j, "waiting")
     \/ /\ stalls[j] = MaxStalls
        /\ EndJob(j, "failed")
        /\ UNCHANGED stalls
  /\ UNCHANGED <<runStatus, rowVars, finished, fresh, advVars, result>>

-----------------------------------------------------------------------------
\* What a live worker does next for job j.
EngineStep(j) ==
  \/ ReadRun(j) \/ DeleteInFlight(j) \/ MarkRunning(j)
  \/ LoadStates(j) \/ NextBatch(j) \/ ReloadStates(j) \/ Finalize(j)
  \/ \E n \in Nodes :
       RunPlain(j, n) \/ ForEachFailed(j, n) \/ \E len \in Lengths[n] : RunForEach(j, n, len)
  \/ \E x \in Instances :
       ClaimNodeRun(j, x) \/ Trigger(j, x) \/ UpdateNodeRun(j, x) \/ RowVanished(j, x)

EngineNext == \E j \in Jobs : EngineStep(j) \/ Crash(j) \/ StalledCheck(j)
=============================================================================
