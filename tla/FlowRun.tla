------------------------------ MODULE FlowRun -------------------------------
(***************************************************************************)
(* One flow run and everything that acts on it: its BullMQ jobs (Engine),  *)
(* the callback endpoints (Callback), the SLA watchdog (Watchdog) and the  *)
(* users who cancel it (RunService.cancel).  The components share the      *)
(* database rows and the job queue of RunState and nothing else.           *)
(***************************************************************************)
EXTENDS Engine, Callback, Watchdog

CONSTANT Users  \* requests to cancel the run that may be in progress

VARIABLE canceling  \* users whose cancel has read the run as not terminal

vars == <<runVars, engVars, cbVars, wdVars, canceling>>

TypeOK ==
  /\ RunStateTypeOK /\ EngineTypeOK /\ CallbackTypeOK /\ WatchdogTypeOK
  /\ canceling \subseteq Users

Init ==
  /\ RunStateInit /\ EngineInit /\ CallbackInit /\ WatchdogInit
  /\ canceling = {}

CancelRead(u) ==
  /\ u \notin canceling /\ runStatus \notin Terminal
  /\ canceling' = canceling \union {u}
  /\ UNCHANGED runVars

\* The status is written whatever it is by now; rows and jobs are left alone.
CancelWrite(u) ==
  /\ u \in canceling
  /\ runStatus' = "CANCELED"
  /\ canceling' = canceling \ {u}
  /\ UNCHANGED <<rowVars, queue, finished>>

Engines   == EngineNext /\ UNCHANGED <<cbVars, wdVars, canceling>>
Callbacks == CallbackNext /\ UNCHANGED <<engVars, wdVars, canceling>>
Watchdogs == WatchdogNext /\ UNCHANGED <<engVars, cbVars, canceling>>
Cancels   == /\ \E u \in Users : CancelRead(u) \/ CancelWrite(u)
             /\ UNCHANGED <<engVars, cbVars, wdVars>>

Next == Engines \/ Callbacks \/ Watchdogs \/ Cancels

Spec == Init /\ [][Next]_vars

\* Workers take jobs and executors settle, handlers finish, sweeps recur and
\* time passes.  Neither users nor external jobs are obliged to do anything.
Fairness ==
  /\ \A j \in Jobs :
       WF_vars((EngineStep(j) \/ StalledCheck(j)) /\ UNCHANGED <<cbVars, wdVars, canceling>>)
  /\ \A h \in Requests : WF_vars(CallbackStep(h) /\ UNCHANGED <<engVars, wdVars, canceling>>)
  /\ \A s \in Sweepers : WF_vars(SweepStep(s) /\ UNCHANGED <<engVars, cbVars, canceling>>)
  /\ \A x \in Instances :
       WF_vars(DeadlinePasses(x) /\ UNCHANGED <<engVars, cbVars, canceling>>)
  /\ WF_vars(GracePasses /\ UNCHANGED <<engVars, cbVars, canceling>>)

FairSpec == Spec /\ Fairness

-----------------------------------------------------------------------------
(* Safety *)

\* A node result is final: once a row is SUCCESS or FAILED, no late worker
\* write, duplicate callback, watchdog sweep or crash clean-up changes it.
RowResultStable ==
  [][\A x \in Instances : row[x] \in Resolved => row'[x] = row[x]]_vars

\* No node instance is being executed by two jobs at once, although any
\* number of advances of the run overlap (the claim in claimNodeRun).
NoDoubleExecution ==
  \A j, k \in Jobs : j # k => exec[j] \intersect exec[k] = {}

\* A node other than an entry node has a row only after some predecessor has
\* a resolved row, whichever advance scheduled it and whatever crashed since.
StartedAfterSource ==
  \A n \in Nodes :
    RowsOf(n, row) # {} /\ Incoming(n) # {} =>
      \E e \in Incoming(n) : \E x \in RowsOf(e.source, row) : row[x] \in Resolved

\* A row that exists was let in by the definition: its node is an entry node
\* or has an edge whose condition the joined result of its source meets.
GatedByCondition == \A n \in Nodes : RowsOf(n, row) # {} => MayStart(n, row)

\* A job that BullMQ holds, or that a handler or a sweep is about to add.
ResumeComing ==
  \/ \E j \in Jobs : queue[j] \in LiveJob
  \/ \E h \in Requests : req[h] # NoRequest /\ req[h].op = "resume"
  \/ \E s \in Sweepers : timedOut[s] # {}

\* No wake-up is lost: an unfinished run always has a job, one about to be
\* enqueued, or a waiting row whose callback or deadline will enqueue it.
NoLostWakeup ==
  runStatus \notin Terminal =>
    ResumeComing \/ \E x \in Instances : row[x] = "WAITING_CALLBACK"

\* FLOW_RUN_FINISHED is emitted at most once, although several advances and
\* sweeps may all decide that the run has ended.
FinishedOnce == finished <= 1 /\ (finished = 1 => runStatus \in Terminal)

\* A run recorded as SUCCESS has nothing in progress, nothing left to start
\* and no failed node.
SuccessMeansDone ==
  runStatus = "SUCCESS" =>
    /\ \A x \in Instances : row[x] \notin InProgress
    /\ Ready(row) = {}
    /\ ~AnyFailed(row)

\* A run recorded as SUCCESS has run every item of each fan-out it began: the
\* rows of a forEach node are those of one of its arrays, or one sentinel row.
FanOutComplete ==
  runStatus = "SUCCESS" =>
    \A n \in ForEach : RowsOf(n, row) # {} =>
      \E len \in Lengths[n] :
        RowsOf(n, row) = {x \in Instances : x[1] = n /\ (x[2] < len \/ x[2] = 0)}

\* A canceled run stays canceled.
CancelSticks == [][runStatus = "CANCELED" => runStatus' = "CANCELED"]_vars

\* A report that was acknowledged has been recorded: its row is resolved.
AckedMeansResolved ==
  \A x \in Instances : ext[x] = "reported" => row[x] \in Resolved

\* The watchdog declares the worker lost only when no job of the run is live.
OrphanHasNoWorker ==
  [][\A s \in Sweepers :
       wd[s] = "orphan" /\ wd'[s] = "fail" =>
         \A j \in Jobs : queue[j] \notin LiveJob]_vars

\* The refinement mapping keeps the status and the rows and drops all else.
Promise == INSTANCE FlowPromise WITH runStatus <- runStatus, row <- row

\* The jobs, crashes and sweeps together implement the promise of FlowPromise.
ImplementsPromise == Promise!Spec

-----------------------------------------------------------------------------
(* Liveness *)

\* A started run ends, whatever its external jobs do and whoever crashes.
RunEnds == runStatus = "RUNNING" ~> runStatus \in Terminal
=============================================================================
