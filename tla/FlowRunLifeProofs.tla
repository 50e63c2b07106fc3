-------------------------- MODULE FlowRunLifeProofs --------------------------
(***************************************************************************)
(* From the launch of a flow run to its end, for every flow and any number *)
(* of jobs, handlers, sweepers and users: the end is announced once, no    *)
(* instance is executed twice while the initial job's worker lives, and no *)
(* wake-up is lost as long as nobody dies; and the run implements the      *)
(* promise of FlowPromise.                                                 *)
(*                                                                         *)
(* All of them rest on the run's beginning (Untouched): until the initial  *)
(* job marks the run RUNNING there is nothing for anybody else to work on, *)
(* so the unconditional write of MarkRunning disturbs nobody.              *)
(***************************************************************************)
EXTENDS FlowRunProofs

-----------------------------------------------------------------------------
(* The beginning of a run *)

\* The initial job has yet to mark the run RUNNING.
Early == runStatus = "PENDING" \/ (fresh[RunJob] /\ pc[RunJob] \in {"clean", "mark"})

\* What has not happened by then; a user may have canceled the run.
Untouched ==
  /\ runStatus \in {"PENDING", "CANCELED"} /\ finished = 0
  /\ pc[RunJob] \in {"idle", "clean", "mark", "dead"}
  /\ pc[RunJob] \in {"clean", "mark"} => fresh[RunJob]
  /\ \A j \in Jobs : todo[j] = {} /\ rest[j] = {} /\ claim[j] = {} /\ exec[j] = {}
  /\ \A x \in Instances : row[x] = "none" /\ ext[x] = "idle" /\ queue[x] = "absent" /\ pc[x] = "idle"
  /\ \A h \in Requests : req[h] = NoRequest
  /\ \A s \in Sweepers : wd[s] = "idle" /\ timedOut[s] = {}

OnlyRunJobStarts ==
  /\ \A j \in Jobs : pc[j] \in {"clean", "mark"} => j = RunJob
  /\ pc[RunJob] = "mark" => fresh[RunJob]

EarlyInv == OnlyRunJobStarts /\ (Early => Untouched)

LEMMA InitEarlyInv == Init => EarlyInv
<1>. SUFFICES ASSUME Init PROVE OnlyRunJobStarts /\ Untouched
  BY DEF EarlyInv
<1>. USE RunAssumption DEF Init, RunStateInit, EngineInit, Jobs
<1>1. OnlyRunJobStarts
  BY DEF OnlyRunJobStarts
<1>2. /\ \A h \in Requests : req[h] = NoRequest
      /\ \A s \in Sweepers : wd[s] = "idle" /\ timedOut[s] = {}
  BY DEF CallbackInit, WatchdogInit
<1>. QED BY <1>1, <1>2 DEF Untouched

\* The job that finds the run PENDING is the initial one, and it cleans up first.
LEMMA ReadKeepsEarly ==
  ASSUME TypeOK, EarlyInv, NEW j \in Jobs, ReadRun(j), UNCHANGED <<cbVars, wdVars>>
  PROVE  EarlyInv'
<1>1. RunJob \in Jobs /\ pc \in [Jobs -> {"idle", "clean", "mark", "nodes", "reload", "final", "dead"}]
      /\ fresh \in [Jobs -> BOOLEAN] /\ queue \in [Jobs -> LiveJob \union {"absent", "completed", "failed"}]
  BY DEF TypeOK, RunStateTypeOK, EngineTypeOK, Jobs
<1>2. UNCHANGED <<runStatus, rowVars, finished, advVars, cbVars, wdVars>>
  BY DEF ReadRun
<1>3. CASE runStatus \in Terminal
  <2>1. UNCHANGED <<pc, fresh>> /\ queue' = [queue EXCEPT ![j] = "completed"]
    BY <1>3 DEF ReadRun
  <2>2. Early => queue'[j] # "absent" /\ j = RunJob
    BY <1>1, <2>1 DEF ReadRun, EarlyInv, Untouched, Jobs
  <2>. QED
    BY <1>1, <1>2, <2>1, <2>2, RunAssumption
    DEF EarlyInv, OnlyRunJobStarts, Early, Untouched, rowVars, advVars, cbVars, wdVars, Jobs
<1>4. CASE runStatus \notin Terminal
  <2>1. /\ pc' = [pc EXCEPT ![j] = AfterRead(j)]
        /\ fresh' = [fresh EXCEPT ![j] = (runStatus = "PENDING")]
        /\ queue' = [queue EXCEPT ![j] = "active"]
    BY <1>4 DEF ReadRun, Goto
  <2>2. CASE j = RunJob
    <3>1. /\ pc'[RunJob] = "clean"
          /\ \A k \in Jobs \ {RunJob} : pc'[k] = pc[k] /\ queue'[k] = queue[k]
      <4>1. AfterRead(j) = "clean"
        BY <2>2 DEF AfterRead
      <4>. QED BY <1>1, <2>1, <2>2, <4>1
    <3>0. fresh'[RunJob] <=> runStatus = "PENDING"
      BY <1>1, <2>1, <2>2, Zenon
    <3>2. OnlyRunJobStarts'
      BY <3>1 DEF EarlyInv, OnlyRunJobStarts
    <3>3. ASSUME Early' PROVE Untouched'
      <4>1. runStatus = "PENDING"
        BY <1>2, <3>0, <3>1, <3>3 DEF Early
      <4>2. Untouched
        BY <4>1 DEF EarlyInv, Early
      <4>3. UNCHANGED <<finished, todo, rest, claim, exec, row, ext, req, wd, timedOut>>
        BY <1>2 DEF rowVars, advVars, cbVars, wdVars
      <4>4. \A x \in Instances : queue'[x] = "absent" /\ pc'[x] = "idle"
        BY <3>1, <4>2, RunAssumption DEF Untouched, Jobs
      <4>. QED BY <1>2, <3>0, <3>1, <4>1, <4>2, <4>3, <4>4 DEF Untouched
    <3>. QED BY <3>2, <3>3 DEF EarlyInv
  <2>3. CASE j # RunJob
    <3>1. ~Early
      BY <2>3 DEF ReadRun, EarlyInv, Untouched, Jobs
    <3>2. /\ pc'[j] = "nodes"
          /\ \A k \in Jobs \ {j} : pc'[k] = pc[k] /\ fresh'[k] = fresh[k]
      BY <1>1, <2>1, <2>3, <3>1 DEF AfterRead, Early
    <3>. QED
      BY <1>1, <1>2, <2>3, <3>1, <3>2 DEF EarlyInv, OnlyRunJobStarts, Early
  <2>. QED BY <2>2, <2>3
<1>. QED BY <1>3, <1>4

LEMMA EngineKeepsEarly ==
  ASSUME TypeOK, ResultKnown, EarlyInv, NEW j \in Jobs, EngineStep(j) \/ Crash(j) \/ StalledCheck(j),
         UNCHANGED <<cbVars, wdVars>>
  PROVE  EarlyInv'
<1>. USE RunAssumption
     DEF TypeOK, RunStateTypeOK, EngineTypeOK, EarlyInv, OnlyRunJobStarts, Early, Untouched, Goto,
         EndJob, Jobs, cbVars, wdVars
<1>1. CASE ReadRun(j)
  BY <1>1, ReadKeepsEarly DEF cbVars, wdVars
<1>2. CASE DeleteInFlight(j)
  BY <1>2 DEF DeleteInFlight, InFlight, advVars
<1>3. CASE MarkRunning(j)
  BY <1>3 DEF MarkRunning, rowVars, advVars
<1>4. CASE LoadStates(j)
  BY <1>4 DEF LoadStates, runVars, rowVars, advVars
<1>5. CASE NextBatch(j)
  BY <1>5 DEF NextBatch, runVars, rowVars
<1>6. CASE ReloadStates(j)
  BY <1>6 DEF ReloadStates, rowVars, advVars
<1>7. CASE Finalize(j)
  <2>1. ~Early
    BY <1>7 DEF Finalize
  <2>2. result[j] # "PENDING" /\ runStatus # "PENDING"
    BY <1>7, <2>1 DEF Finalize, ResultKnown, Resolved
  <2>3. runStatus' # "PENDING" /\ pc' = [pc EXCEPT ![j] = "idle"] /\ UNCHANGED fresh
    BY <1>7, <2>2 DEF Finalize
  <2>. QED BY <2>1, <2>3
<1>8. ASSUME NEW n \in Nodes, NextNode(j, n)
      PROVE  ~Early /\ UNCHANGED <<runVars, pc, fresh>>
  BY <1>8 DEF NextNode
<1>9. ASSUME NEW n \in Nodes,
             RunPlain(j, n) \/ ForEachFailed(j, n)
               \/ \E len \in Lengths[n] : RunForEach(j, n, len)
      PROVE  EarlyInv'
  <2>1. NextNode(j, n)
    BY <1>9 DEF RunPlain, ForEachFailed, RunForEach
  <2>. QED BY <1>8, <2>1 DEF runVars
<1>10. ASSUME NEW x \in Instances,
              ClaimNodeRun(j, x) \/ Trigger(j, x) \/ UpdateNodeRun(j, x) \/ RowVanished(j, x)
       PROVE  EarlyInv'
  <2>1. ~Early
    BY <1>10 DEF ClaimNodeRun, Trigger, UpdateNodeRun, RowVanished
  <2>2. UNCHANGED <<runStatus, fresh>>
    BY <1>10 DEF ClaimNodeRun, Trigger, UpdateNodeRun, RowVanished, engVars
  <2>3. pc' = pc \/ pc' = [pc EXCEPT ![j] = "idle"]
    BY <1>10 DEF ClaimNodeRun, Trigger, UpdateNodeRun, RowVanished, engVars
  <2>. QED BY <2>1, <2>2, <2>3
<1>11. CASE Crash(j)
  BY <1>11 DEF Crash, runVars, rowVars
<1>12. CASE StalledCheck(j)
  BY <1>12 DEF StalledCheck, rowVars, advVars
<1>. QED
  BY <1>1, <1>2, <1>3, <1>4, <1>5, <1>6, <1>7, <1>9, <1>10, <1>11, <1>12 DEF EngineStep

LEMMA OthersKeepEarly ==
  ASSUME TypeOK, EarlyInv, Callbacks \/ Watchdogs \/ Cancels \/ UNCHANGED vars
  PROVE  EarlyInv'
<1>. USE DEF TypeOK, EarlyInv, OnlyRunJobStarts, Early, Untouched
<1>1. UNCHANGED <<pc, fresh, todo, rest, claim, exec>>
  BY DEF Callbacks, Watchdogs, Cancels, vars, engVars, advVars
<1>2. CASE Callbacks
  <2>1. PICK h \in Requests :
          \/ CallbackStep(h) \/ RequestLost(h)
          \/ \E x \in Instances : ReportIgnored(h, x) \/ ReportRead(h, x) \/ HeartbeatRead(h, x)
    BY <1>2 DEF Callbacks, CallbackNext
  <2>2. ~Early
    BY <2>1 DEF CallbackStep, ReportWrite, ReportResume, HeartbeatWrite, RequestLost,
                ReportIgnored, ReportRead, HeartbeatRead
  <2>3. UNCHANGED runStatus
    BY <2>1 DEF CallbackStep, ReportWrite, ReportResume, HeartbeatWrite, RequestLost,
                ReportIgnored, ReportRead, HeartbeatRead, runVars
  <2>. QED BY <1>1, <2>2, <2>3
<1>3. CASE Watchdogs
  <2>1. ~Early
    BY <1>3 DEF Watchdogs, WatchdogNext, TimePasses, GracePasses, DeadlinePasses, SweepStep, Sweep,
                ExpiryDone, CountWaiting, OrphanCheck, FailRun, ExpireCallback, SweepLost
  <2>2. runStatus' # "PENDING"
    BY <1>3, <2>1
    DEF Watchdogs, WatchdogNext, TimePasses, GracePasses, DeadlinePasses, SweepStep, Sweep,
        ExpiryDone, CountWaiting, OrphanCheck, FailRun, ExpireCallback, SweepLost, runVars
  <2>. QED BY <1>1, <2>1, <2>2
<1>4. CASE Cancels
  BY <1>1, <1>4
  DEF Cancels, CancelRead, CancelWrite, runVars, rowVars, cbVars, wdVars
<1>5. CASE UNCHANGED vars
  BY <1>1, <1>5 DEF vars, runVars, rowVars, cbVars, wdVars
<1>. QED BY <1>2, <1>3, <1>4, <1>5

LEMMA EarlyKept ==
  ASSUME TypeInv, EarlyInv, [Next]_vars
  PROVE  EarlyInv'
<1>1. CASE Engines
  BY <1>1, EngineKeepsEarly DEF Engines, EngineNext, TypeInv
<1>. QED BY <1>1, OthersKeepEarly DEF Next, TypeInv

\* What is known of every state: the types, and how a run begins.
BaseInv == TypeInv /\ ClaimedRunning /\ EarlyInv

LEMMA BaseAlways == Spec => []BaseInv
<1>1. Init => BaseInv
  <2>1. Init => TypeInv
    BY InitTypeOK DEF Init, EngineInit, ResultKnown, TypeInv
  <2>2. Init => ClaimedRunning
    BY DEF Init, EngineInit, ClaimedRunning
  <2>. QED BY <2>1, <2>2, InitEarlyInv DEF BaseInv
<1>2. BaseInv /\ [Next]_vars => BaseInv'
  BY NextTypeInv, ClaimedStaysRunning, EarlyKept DEF BaseInv, TypeInv
<1>. QED BY <1>1, <1>2, PTL DEF Spec

-----------------------------------------------------------------------------
(* The end is announced once *)

\* Only a RUNNING run is ended with an event, and it is RUNNING once.
LEMMA FinishedKept ==
  ASSUME BaseInv, FinishedOnce, [Next]_vars
  PROVE  FinishedOnce'
<1>. USE DEF FinishedOnce, EmitFinished, MaxFinished
<1>1. finished \in Nat /\ (finished = 0 \/ (finished = 1 /\ runStatus \in Terminal))
  BY DEF BaseInv, TypeInv, TypeOK, RunStateTypeOK
<1>2. CASE UNCHANGED <<runStatus, finished>>
  BY <1>1, <1>2
<1>3. ASSUME NEW j \in Jobs, MarkRunning(j)
      PROVE  FinishedOnce'
  <2>1. finished = 0
    BY <1>3 DEF MarkRunning, BaseInv, EarlyInv, OnlyRunJobStarts, Early, Untouched
  <2>. QED BY <1>3, <2>1 DEF MarkRunning
<1>4. ASSUME NEW j \in Jobs, Finalize(j)
      PROVE  FinishedOnce'
  <2>1. CASE runStatus = "RUNNING"
    <3>1. finished = 0
      BY <1>1, <2>1 DEF Terminal
    <3>2. result[j] \in Terminal
      BY <1>4 DEF Finalize, BaseInv, TypeInv, ResultKnown, Resolved, Terminal
    <3>. QED BY <1>4, <2>1, <3>1, <3>2 DEF Finalize
  <2>. QED BY <1>2, <1>4, <2>1 DEF Finalize
<1>5. ASSUME NEW s \in Sweepers, FailRun(s)
      PROVE  FinishedOnce'
  <2>1. CASE runStatus = "RUNNING"
    <3>1. finished = 0
      BY <1>1, <2>1 DEF Terminal
    <3>. QED BY <1>5, <2>1, <3>1 DEF FailRun, Terminal
  <2>. QED BY <1>2, <1>5, <2>1 DEF FailRun
<1>6. CASE Engines
  <2>1. PICK j \in Jobs : EngineStep(j) \/ Crash(j) \/ StalledCheck(j)
    BY <1>6 DEF Engines, EngineNext
  <2>2. ASSUME ReadRun(j) \/ DeleteInFlight(j) \/ LoadStates(j) \/ NextBatch(j)
                 \/ ReloadStates(j) \/ Crash(j) \/ StalledCheck(j)
        PROVE  UNCHANGED <<runStatus, finished>>
    BY <2>2 DEF ReadRun, DeleteInFlight, LoadStates, NextBatch, ReloadStates, Crash, StalledCheck,
                runVars
  <2>3. ASSUME NEW n \in Nodes,
               RunPlain(j, n) \/ ForEachFailed(j, n)
                 \/ \E len \in Lengths[n] : RunForEach(j, n, len)
        PROVE  UNCHANGED <<runStatus, finished>>
    BY <2>3 DEF RunPlain, ForEachFailed, RunForEach, NextNode, runVars
  <2>4. ASSUME NEW x \in Instances,
               ClaimNodeRun(j, x) \/ Trigger(j, x) \/ UpdateNodeRun(j, x) \/ RowVanished(j, x)
        PROVE  UNCHANGED <<runStatus, finished>>
    BY <2>4 DEF ClaimNodeRun, Trigger, UpdateNodeRun, RowVanished
  <2>. QED BY <1>2, <1>3, <1>4, <2>1, <2>2, <2>3, <2>4 DEF EngineStep
<1>7. CASE Callbacks
  BY <1>2, <1>7
  DEF Callbacks, CallbackNext, CallbackStep, ReportWrite, ReportResume, HeartbeatWrite,
      RequestLost, ReportIgnored, ReportRead, HeartbeatRead, runVars
<1>8. CASE Watchdogs
  BY <1>2, <1>5, <1>8
  DEF Watchdogs, WatchdogNext, TimePasses, GracePasses, DeadlinePasses, SweepStep, Sweep,
      ExpiryDone, CountWaiting, OrphanCheck, ExpireCallback, SweepLost, runVars
<1>9. CASE Cancels
  BY <1>1, <1>2, <1>9 DEF Cancels, CancelRead, CancelWrite, runVars, Terminal
<1>10. CASE UNCHANGED vars
  BY <1>2, <1>10 DEF vars, runVars
<1>. QED BY <1>6, <1>7, <1>8, <1>9, <1>10 DEF Next

\* Whoever ends the run, several advances, the watchdog of any instance or a
\* user, FLOW_RUN_FINISHED is emitted at most once, for a run that stays ended.
THEOREM EndIsAnnouncedOnce == Spec => []FinishedOnce
<1>1. Init => FinishedOnce
  BY DEF Init, RunStateInit, FinishedOnce
<1>2. BaseInv /\ FinishedOnce /\ [Next]_vars => FinishedOnce'
  BY FinishedKept
<1>. QED BY <1>1, <1>2, BaseAlways, PTL DEF Spec

-----------------------------------------------------------------------------
(* An instance is executed by one job *)

\* While the initial job is on its first attempt, who executes an instance
\* still has the row it inserted; and a row has one owner.
ExecOwned == \A j \in Jobs : \A x \in exec[j] : OwnsRow(j, x)

\* The initial job, if its worker cannot die, runs once: it finds the run
\* PENDING or ended, so its clean-up finds no rows.
FirstAttempt ==
  /\ pc[RunJob] # "dead"
  /\ queue[RunJob] = "waiting" => pc[RunJob] = "idle" /\ runStatus # "RUNNING"
  /\ pc[RunJob] = "clean" => fresh[RunJob]

LEMMA FirstAttemptKept ==
  ASSUME RunJob \notin MayCrash, BaseInv, FirstAttempt, [Next]_vars
  PROVE  FirstAttempt'
<1>1. /\ RunJob \in Jobs /\ RunJob \notin Instances
      /\ pc \in [Jobs -> {"idle", "clean", "mark", "nodes", "reload", "final", "dead"}]
      /\ fresh \in [Jobs -> BOOLEAN] /\ queue \in [Jobs -> LiveJob \union {"absent", "completed", "failed"}]
  BY RunAssumption DEF BaseInv, TypeInv, TypeOK, RunStateTypeOK, EngineTypeOK, Jobs
<1>2. /\ \A j \in Jobs : pc[j] \in {"clean", "mark"} => j = RunJob
      /\ Early => Untouched
  BY DEF BaseInv, EarlyInv, OnlyRunJobStarts
<1>. USE DEF FirstAttempt, Goto, EndJob
<1>3. ASSUME NEW j \in Jobs, EngineStep(j) \/ Crash(j) \/ StalledCheck(j)
      PROVE  FirstAttempt'
  <2>1. CASE ReadRun(j)
    <3>1. CASE runStatus \in Terminal
      BY <1>1, <2>1, <3>1 DEF ReadRun
    <3>2. CASE runStatus \notin Terminal
      <4>1. /\ pc' = [pc EXCEPT ![j] = AfterRead(j)]
            /\ fresh' = [fresh EXCEPT ![j] = (runStatus = "PENDING")]
            /\ queue' = [queue EXCEPT ![j] = "active"]
            /\ UNCHANGED runStatus
        BY <2>1, <3>2 DEF ReadRun
      <4>2. CASE j = RunJob
        <5>1. runStatus = "PENDING"
          BY <1>1, <2>1, <3>2, <4>2 DEF ReadRun, BaseInv, TypeInv, TypeOK, RunStateTypeOK
        <5>2. fresh'[RunJob]
          BY <1>1, <4>1, <4>2, <5>1, Zenon
        <5>. QED BY <1>1, <4>1, <4>2, <5>2 DEF AfterRead
      <4>3. CASE j # RunJob
        BY <1>1, <4>1, <4>3
      <4>. QED BY <4>2, <4>3
    <3>. QED BY <3>1, <3>2
  <2>2. CASE DeleteInFlight(j)
    BY <1>1, <2>2 DEF DeleteInFlight
  <2>3. CASE MarkRunning(j)
    BY <1>1, <1>2, <2>3 DEF MarkRunning
  <2>4. CASE LoadStates(j) \/ NextBatch(j)
    BY <1>1, <2>4 DEF LoadStates, NextBatch, runVars
  <2>5. CASE ReloadStates(j)
    BY <1>1, <2>5 DEF ReloadStates
  <2>6. CASE Finalize(j)
    BY <1>1, <2>6 DEF Finalize, BaseInv, TypeInv, ResultKnown, Resolved
  <2>7. CASE Crash(j) \/ StalledCheck(j)
    BY <1>1, <2>7 DEF Crash, StalledCheck, runVars
  <2>8. ASSUME NEW n \in Nodes,
               RunPlain(j, n) \/ ForEachFailed(j, n)
                 \/ \E len \in Lengths[n] : RunForEach(j, n, len)
        PROVE  UNCHANGED <<runStatus, queue, pc, fresh>>
    BY <2>8 DEF RunPlain, ForEachFailed, RunForEach, NextNode, runVars
  <2>9. ASSUME NEW x \in Instances, ClaimNodeRun(j, x) \/ Trigger(j, x) \/ UpdateNodeRun(j, x)
        PROVE  UNCHANGED <<runStatus, queue, pc, fresh>>
    BY <2>9 DEF ClaimNodeRun, Trigger, UpdateNodeRun, engVars
  <2>10. ASSUME NEW x \in Instances, RowVanished(j, x)
         PROVE  FirstAttempt'
    BY <1>1, <2>10 DEF RowVanished
  <2>. QED
    BY <1>3, <2>1, <2>2, <2>3, <2>4, <2>5, <2>6, <2>7, <2>8, <2>9, <2>10 DEF EngineStep
<1>4. CASE Engines
  BY <1>3, <1>4 DEF Engines, EngineNext
<1>5. CASE Callbacks \/ Watchdogs \/ Cancels \/ UNCHANGED vars
  <2>1. UNCHANGED <<pc, fresh>>
    BY <1>5 DEF Callbacks, Watchdogs, Cancels, vars, engVars
  <2>2. queue'[RunJob] = queue[RunJob]
    <3>1. \/ UNCHANGED queue
          \/ \E x : queue' = [queue EXCEPT ![x] = "waiting"] /\ x # RunJob
      <4>1. CASE Callbacks
        BY <1>1, <4>1
        DEF Callbacks, CallbackNext, CallbackStep, ReportWrite, ReportResume, HeartbeatWrite,
            RequestLost, ReportIgnored, ReportRead, HeartbeatRead, EnqueueResume, runVars,
            BaseInv, TypeInv, TypeOK, CallbackTypeOK
      <4>2. CASE Watchdogs
        BY <1>1, <4>2
        DEF Watchdogs, WatchdogNext, TimePasses, GracePasses, DeadlinePasses, SweepStep, Sweep,
            ExpiryDone, CountWaiting, OrphanCheck, FailRun, ExpireCallback, SweepLost,
            EnqueueResume, runVars, BaseInv, TypeInv, TypeOK, WatchdogTypeOK
      <4>. QED BY <1>5, <4>1, <4>2 DEF Cancels, CancelRead, CancelWrite, runVars, vars
    <3>. QED BY <1>1, <3>1
  <2>3. runStatus' = "RUNNING" => runStatus = "RUNNING"
    BY <1>5
    DEF Callbacks, CallbackNext, CallbackStep, ReportWrite, ReportResume, HeartbeatWrite,
        RequestLost, ReportIgnored, ReportRead, HeartbeatRead, Watchdogs, WatchdogNext, TimePasses,
        GracePasses, DeadlinePasses, SweepStep, Sweep, ExpiryDone, CountWaiting, OrphanCheck,
        FailRun, ExpireCallback, SweepLost, Cancels, CancelRead, CancelWrite, runVars, vars
  <2>. QED BY <2>1, <2>2, <2>3
<1>. QED BY <1>4, <1>5 DEF Next

LEMMA ExecStaysOwned ==
  ASSUME BaseInv, FirstAttempt, ExecOwned, [Next]_vars
  PROVE  ExecOwned'
<1>. USE DEF ExecOwned, OwnsRow
<1>1. /\ RunJob \in Jobs
      /\ row \in [Instances -> RowStatus \union {"none"}] /\ owner \in [Instances -> Jobs \union {NoJob}]
      /\ exec \in [Jobs -> SUBSET Instances]
  BY DEF BaseInv, TypeInv, TypeOK, RunStateTypeOK, EngineTypeOK, Jobs
<1>2. ASSUME NEW j \in Jobs, EngineStep(j) \/ Crash(j) \/ StalledCheck(j)
      PROVE  ExecOwned'
  <2>1. CASE DeleteInFlight(j)
    <3>1. Untouched
      BY <2>1 DEF DeleteInFlight, FirstAttempt, BaseInv, EarlyInv, OnlyRunJobStarts, Early
    <3>2. \A k \in Jobs : exec'[k] = {}
      BY <2>1, <3>1 DEF DeleteInFlight, advVars, Untouched
    <3>. QED BY <3>2
  <2>2. ASSUME NEW x \in Instances, ClaimNodeRun(j, x)
        PROVE  ExecOwned'
    BY <1>1, <2>2 DEF ClaimNodeRun, rowVars
  <2>3. ASSUME NEW x \in Instances, UpdateNodeRun(j, x)
        PROVE  ExecOwned'
    <3>1. Outcomes(j, x) \subseteq RowStatus /\ "none" \notin RowStatus
      BY DEF Outcomes, RowStatus, InProgress, Resolved, BaseInv, TypeInv, TypeOK, EngineTypeOK
    <3>. QED BY <1>1, <2>3, <3>1 DEF UpdateNodeRun
  <2>4. ASSUME NEW x \in Instances, RowVanished(j, x)
        PROVE  ExecOwned'
    BY <1>1, <2>4 DEF RowVanished
  <2>5. CASE Crash(j)
    BY <1>1, <2>5 DEF Crash, runVars, rowVars
  <2>6. CASE UNCHANGED <<row, owner, exec>>
    BY <2>6
  <2>7. ASSUME ReadRun(j) \/ MarkRunning(j) \/ LoadStates(j) \/ NextBatch(j)
                 \/ ReloadStates(j) \/ Finalize(j) \/ StalledCheck(j)
        PROVE  UNCHANGED <<row, owner, exec>>
    BY <2>7 DEF ReadRun, MarkRunning, LoadStates, NextBatch, ReloadStates, Finalize,
                StalledCheck, runVars, rowVars, advVars
  <2>8. ASSUME NEW n \in Nodes,
               RunPlain(j, n) \/ ForEachFailed(j, n)
                 \/ \E len \in Lengths[n] : RunForEach(j, n, len)
        PROVE  UNCHANGED <<row, owner, exec>>
    BY <2>8 DEF RunPlain, ForEachFailed, RunForEach, NextNode, runVars, rowVars
  <2>9. ASSUME NEW x \in Instances, Trigger(j, x)
        PROVE  UNCHANGED <<row, owner, exec>>
    BY <2>9 DEF Trigger, engVars, advVars
  <2>. QED
    BY <1>2, <2>1, <2>2, <2>3, <2>4, <2>5, <2>6, <2>7, <2>8, <2>9 DEF EngineStep
<1>3. CASE Engines
  BY <1>2, <1>3 DEF Engines, EngineNext
<1>4. CASE Callbacks \/ Watchdogs \/ Cancels \/ UNCHANGED vars
  <2>1. OnlyWaitingWritten /\ UNCHANGED owner /\ UNCHANGED exec
    BY <1>4, OthersWriteWaiting DEF BaseInv, TypeInv
  <2>. QED BY <1>1, <2>1 DEF OnlyWaitingWritten, Resolved
<1>. QED BY <1>3, <1>4 DEF Next

\* Two executions of one instance would have two owners of its row.
LEMMA OneExecution == TypeOK /\ ExecOwned => NoDoubleExecution
BY DEF ExecOwned, OwnsRow, NoDoubleExecution

LEMMA FirstAttemptAlways ==
  ASSUME RunJob \notin MayCrash
  PROVE  Spec => [](BaseInv /\ FirstAttempt /\ ExecOwned)
<1>1. Init => FirstAttempt /\ ExecOwned
  BY DEF Init, RunStateInit, EngineInit, FirstAttempt, ExecOwned, Jobs
<1>2. BaseInv /\ FirstAttempt /\ ExecOwned /\ [Next]_vars => FirstAttempt' /\ ExecOwned'
  BY FirstAttemptKept, ExecStaysOwned
<1>. QED BY <1>1, <1>2, BaseAlways, PTL DEF Spec

\* Any number of overlapping advances, resume jobs that crash included, never
\* execute one node instance twice at a time: the claim of the row keeps them
\* apart as long as the worker of the initial job does not die. (When it
\* does, its clean-up deletes the rows of live resume jobs: MCStepsTwice.)
THEOREM InstancesRunOnce ==
  ASSUME RunJob \notin MayCrash
  PROVE  Spec => []NoDoubleExecution
<1>1. BaseInv /\ ExecOwned => NoDoubleExecution
  BY OneExecution DEF BaseInv, TypeInv
<1>. QED BY <1>1, FirstAttemptAlways, PTL

-----------------------------------------------------------------------------
(* No wake-up is lost *)

\* Nobody dies: no worker, no API process and no sweep.
NobodyDies == MayCrash = {} /\ ApiMayCrash = FALSE /\ MaxLost = 0

\* A job in progress is one that BullMQ holds; only a resume job of an ended
\* run may have been taken a second time.
JobHeld ==
  \A j \in Jobs :
    pc[j] # "idle" =>
      pc[j] # "dead" /\ (queue[j] \in LiveJob \/ (j # RunJob /\ runStatus \in Terminal))

WakeInv == BaseInv /\ FirstAttempt /\ ExecOwned /\ JobHeld /\ NoLostWakeup

\* A run is only taken back to RUNNING by its initial job, which is then held.
LEMMA JobStaysHeld ==
  ASSUME NobodyDies, WakeInv, [Next]_vars
  PROVE  JobHeld'
<1>1. /\ RunJob \in Jobs /\ RunJob \notin Instances
      /\ pc \in [Jobs -> {"idle", "clean", "mark", "nodes", "reload", "final", "dead"}]
      /\ queue \in [Jobs -> LiveJob \union {"absent", "completed", "failed"}]
  BY RunAssumption DEF WakeInv, BaseInv, TypeInv, TypeOK, RunStateTypeOK, EngineTypeOK, Jobs
<1>2. /\ \A j \in Jobs : pc[j] \in {"clean", "mark"} => j = RunJob
      /\ Early => Untouched
      /\ pc[RunJob] = "mark" => fresh[RunJob]
      /\ \A j \in Jobs : pc[j] = "final" => result[j] \in Resolved
  BY DEF WakeInv, BaseInv, TypeInv, ResultKnown, EarlyInv, OnlyRunJobStarts
<1>3. JobHeld
  BY DEF WakeInv
<1>. USE DEF JobHeld, Goto, EndJob, LiveJob
<1>4. ASSUME NEW j \in Jobs, EngineStep(j) \/ Crash(j) \/ StalledCheck(j)
      PROVE  JobHeld'
  <2>1. CASE ReadRun(j)
    <3>1. CASE runStatus \in Terminal
      <4>1. j = RunJob => pc[j] = "idle"
        BY <2>1 DEF ReadRun, WakeInv, FirstAttempt
      <4>. QED BY <1>1, <1>3, <2>1, <3>1, <4>1 DEF ReadRun
    <3>2. CASE runStatus \notin Terminal
      BY <1>1, <1>3, <2>1, <3>2 DEF ReadRun, AfterRead
    <3>. QED BY <3>1, <3>2
  <2>2. CASE DeleteInFlight(j)
    BY <1>1, <1>3, <2>2 DEF DeleteInFlight
  <2>3. CASE MarkRunning(j)
    <3>1. j = RunJob /\ \A x \in Instances : pc[x] = "idle"
      BY <1>2, <2>3 DEF MarkRunning, Early, Untouched
    <3>. QED BY <1>1, <1>3, <2>3, <3>1 DEF MarkRunning, Jobs
  <2>4. CASE LoadStates(j) \/ NextBatch(j)
    BY <1>1, <1>3, <2>4 DEF LoadStates, NextBatch, runVars
  <2>5. CASE ReloadStates(j)
    BY <1>1, <1>3, <2>5 DEF ReloadStates
  <2>6. CASE Finalize(j)
    BY <1>1, <1>2, <1>3, <2>6 DEF Finalize, Resolved, Terminal
  <2>7. ~Crash(j) /\ ~StalledCheck(j)
    BY <1>3 DEF Crash, StalledCheck, NobodyDies
  <2>8. ASSUME NEW n \in Nodes,
               RunPlain(j, n) \/ ForEachFailed(j, n)
                 \/ \E len \in Lengths[n] : RunForEach(j, n, len)
        PROVE  UNCHANGED <<runStatus, queue, pc>>
    BY <2>8 DEF RunPlain, ForEachFailed, RunForEach, NextNode, runVars
  <2>9. ASSUME NEW x \in Instances, ClaimNodeRun(j, x) \/ Trigger(j, x) \/ UpdateNodeRun(j, x)
        PROVE  UNCHANGED <<runStatus, queue, pc>>
    BY <2>9 DEF ClaimNodeRun, Trigger, UpdateNodeRun, engVars
  <2>10. \A x \in Instances : ~RowVanished(j, x)
    BY DEF RowVanished, WakeInv, ExecOwned
  <2>. QED
    BY <1>3, <1>4, <2>1, <2>2, <2>3, <2>4, <2>5, <2>6, <2>7, <2>8, <2>9, <2>10 DEF EngineStep
<1>5. CASE Engines
  BY <1>4, <1>5 DEF Engines, EngineNext
<1>6. CASE Callbacks \/ Watchdogs \/ Cancels \/ UNCHANGED vars
  <2>1. UNCHANGED pc
    BY <1>6 DEF Callbacks, Watchdogs, Cancels, vars, engVars
  <2>2. UNCHANGED queue \/ \E x : queue' = [queue EXCEPT ![x] = "waiting"]
    BY <1>6
    DEF Callbacks, CallbackNext, CallbackStep, ReportWrite, ReportResume, HeartbeatWrite,
        RequestLost, ReportIgnored, ReportRead, HeartbeatRead, EnqueueResume, runVars,
        Watchdogs, WatchdogNext, TimePasses, GracePasses, DeadlinePasses, SweepStep, Sweep,
        ExpiryDone, CountWaiting, OrphanCheck, FailRun, ExpireCallback, SweepLost,
        Cancels, CancelRead, CancelWrite, vars
  <2>3. runStatus \in Terminal => runStatus' \in Terminal
    BY <1>6
    DEF Callbacks, CallbackNext, CallbackStep, ReportWrite, ReportResume, HeartbeatWrite,
        RequestLost, ReportIgnored, ReportRead, HeartbeatRead, Watchdogs, WatchdogNext, TimePasses,
        GracePasses, DeadlinePasses, SweepStep, Sweep, ExpiryDone, CountWaiting, OrphanCheck,
        FailRun, ExpireCallback, SweepLost, Cancels, CancelRead, CancelWrite, runVars, vars, Terminal
  <2>. QED BY <1>1, <1>3, <2>1, <2>2, <2>3
<1>. QED BY <1>5, <1>6 DEF Next

Waiting == \E x \in Instances : row[x] = "WAITING_CALLBACK"

LEMMA EngineKeepsWaiting ==
  ASSUME BaseInv, NEW j \in Jobs, EngineStep(j) \/ Crash(j) \/ StalledCheck(j), Waiting
  PROVE  Waiting'
<1>1. row \in [Instances -> RowStatus \union {"none"}]
  BY DEF BaseInv, TypeInv, TypeOK, RunStateTypeOK
<1>2. PICK x \in Instances : row[x] = "WAITING_CALLBACK"
  BY DEF Waiting
<1>. SUFFICES row'[x] = row[x]
  BY <1>2 DEF Waiting
<1>3. CASE DeleteInFlight(j)
  BY <1>1, <1>2, <1>3 DEF DeleteInFlight, InFlight
<1>4. ASSUME NEW y \in Instances, ClaimNodeRun(j, y)
      PROVE  row'[x] = row[x]
  BY <1>1, <1>2, <1>4 DEF ClaimNodeRun, rowVars
<1>5. ASSUME NEW y \in Instances, UpdateNodeRun(j, y)
      PROVE  row'[x] = row[x]
  <2>1. row[y] = "RUNNING"
    BY <1>5 DEF UpdateNodeRun, BaseInv, ClaimedRunning
  <2>. QED BY <1>1, <1>2, <1>5, <2>1 DEF UpdateNodeRun
<1>6. ASSUME NEW n \in Nodes,
             RunPlain(j, n) \/ ForEachFailed(j, n)
               \/ \E len \in Lengths[n] : RunForEach(j, n, len)
      PROVE  UNCHANGED row
  BY <1>6 DEF RunPlain, ForEachFailed, RunForEach, NextNode, runVars, rowVars
<1>7. ASSUME ReadRun(j) \/ MarkRunning(j) \/ LoadStates(j) \/ NextBatch(j)
               \/ ReloadStates(j) \/ Finalize(j) \/ Crash(j) \/ StalledCheck(j)
      PROVE  UNCHANGED row
  BY <1>7 DEF ReadRun, MarkRunning, LoadStates, NextBatch, ReloadStates, Finalize, Crash,
              StalledCheck, runVars, rowVars
<1>8. ASSUME NEW y \in Instances, Trigger(j, y) \/ RowVanished(j, y)
      PROVE  UNCHANGED row
  BY <1>8 DEF Trigger, RowVanished, rowVars
<1>. QED BY <1>3, <1>4, <1>5, <1>6, <1>7, <1>8 DEF EngineStep

\* A job leaves its worker only when a row waits or the run has ended.
LEMMA EngineKeepsWakeup ==
  ASSUME NobodyDies, WakeInv, NEW j \in Jobs, EngineStep(j) \/ Crash(j) \/ StalledCheck(j),
         UNCHANGED <<cbVars, wdVars>>
  PROVE  NoLostWakeup'
<1>1. /\ RunJob \in Jobs
      /\ queue \in [Jobs -> LiveJob \union {"absent", "completed", "failed"}]
  BY DEF WakeInv, BaseInv, TypeInv, TypeOK, RunStateTypeOK, Jobs
<1>2. UNCHANGED <<req, timedOut>> /\ (Waiting => Waiting')
  BY EngineKeepsWaiting DEF cbVars, wdVars, WakeInv
<1>3. runStatus \notin Terminal => ResumeComing \/ Waiting
  BY DEF WakeInv, NoLostWakeup, Waiting
<1>4. SUFFICES ASSUME runStatus' \notin Terminal PROVE ResumeComing' \/ Waiting'
  BY DEF NoLostWakeup, Waiting
<1>5. CASE UNCHANGED <<runStatus, queue>>
  BY <1>2, <1>3, <1>4, <1>5 DEF ResumeComing
<1>. USE DEF Goto, EndJob
<1>6. CASE ReadRun(j)
  <2>1. CASE runStatus \in Terminal
    BY <1>4, <1>6, <2>1 DEF ReadRun
  <2>2. CASE runStatus \notin Terminal
    <3>1. queue'[j] = "active"
      BY <1>1, <1>6, <2>2 DEF ReadRun
    <3>. QED BY <3>1 DEF ResumeComing, LiveJob
  <2>. QED BY <2>1, <2>2
<1>7. CASE MarkRunning(j)
  <2>1. j = RunJob /\ queue[j] \in LiveJob
    BY <1>7 DEF MarkRunning, WakeInv, JobHeld, BaseInv, EarlyInv, OnlyRunJobStarts
  <2>2. UNCHANGED queue
    BY <1>7 DEF MarkRunning
  <2>. QED BY <2>1, <2>2 DEF ResumeComing
<1>8. CASE ReloadStates(j)
  <2>1. CASE Waiting
    BY <1>2, <2>1
  <2>2. CASE ~Waiting
    BY <1>5, <1>8, <2>2 DEF ReloadStates, Waiting
  <2>. QED BY <2>1, <2>2
<1>9. CASE Finalize(j)
  <2>1. runStatus # "PENDING"
    BY <1>9 DEF Finalize, WakeInv, BaseInv, EarlyInv, Early, Untouched, Jobs
  <2>2. runStatus' \in Terminal
    BY <1>9, <2>1
    DEF Finalize, WakeInv, BaseInv, TypeInv, ResultKnown, TypeOK, RunStateTypeOK, Resolved, Terminal
  <2>. QED BY <1>4, <2>2
<1>10. ~Crash(j) /\ ~StalledCheck(j)
  BY DEF Crash, StalledCheck, NobodyDies, WakeInv, JobHeld
<1>11. \A x \in Instances : ~RowVanished(j, x)
  BY DEF RowVanished, WakeInv, ExecOwned
<1>12. ASSUME DeleteInFlight(j) \/ LoadStates(j) \/ NextBatch(j)
       PROVE  UNCHANGED <<runStatus, queue>>
  BY <1>12 DEF DeleteInFlight, LoadStates, NextBatch, runVars
<1>13. ASSUME NEW n \in Nodes,
              RunPlain(j, n) \/ ForEachFailed(j, n)
                \/ \E len \in Lengths[n] : RunForEach(j, n, len)
       PROVE  UNCHANGED <<runStatus, queue>>
  BY <1>13 DEF RunPlain, ForEachFailed, RunForEach, NextNode, runVars
<1>14. ASSUME NEW x \in Instances, ClaimNodeRun(j, x) \/ Trigger(j, x) \/ UpdateNodeRun(j, x)
       PROVE  UNCHANGED <<runStatus, queue>>
  BY <1>14 DEF ClaimNodeRun, Trigger, UpdateNodeRun
<1>. QED
  BY <1>5, <1>6, <1>7, <1>8, <1>9, <1>10, <1>11, <1>12, <1>13, <1>14 DEF EngineStep

\* Who resolves a waiting row owes the run a resume, and pays it.
LEMMA CallbacksKeepWakeup ==
  ASSUME NobodyDies, WakeInv, Callbacks
  PROVE  NoLostWakeup'
<1>1. /\ row \in [Instances -> RowStatus \union {"none"}]
      /\ queue \in [Jobs -> LiveJob \union {"absent", "completed", "failed"}]
      /\ req \in [Requests -> [op : {"report", "resume", "beat"}, at : Instances] \union {NoRequest}]
  BY DEF WakeInv, BaseInv, TypeInv, TypeOK, RunStateTypeOK, CallbackTypeOK
<1>2. PICK h \in Requests :
        \/ CallbackStep(h) \/ RequestLost(h)
        \/ \E x \in Instances : ReportIgnored(h, x) \/ ReportRead(h, x) \/ HeartbeatRead(h, x)
  BY DEF Callbacks, CallbackNext
<1>3. UNCHANGED <<runStatus, timedOut>>
  BY <1>2 DEF Callbacks, wdVars, CallbackStep, ReportWrite, ReportResume, HeartbeatWrite,
              RequestLost, ReportIgnored, ReportRead, HeartbeatRead, runVars
<1>4. SUFFICES ASSUME runStatus \notin Terminal, ResumeComing \/ Waiting
               PROVE  ResumeComing' \/ Waiting'
  BY <1>3 DEF NoLostWakeup, WakeInv, Waiting
<1>. USE CallbackAssumption DEF Handling, Reply
\* Another handler's resume is still to come.
<1>5. ASSUME UNCHANGED <<row, queue>>,
             req[h] # NoRequest => req[h].op # "resume",
             \E r : req' = [req EXCEPT ![h] = r]
      PROVE  ResumeComing' \/ Waiting'
  <2>1. ASSUME NEW g \in Requests, req[g] # NoRequest /\ req[g].op = "resume"
        PROVE  req'[g] = req[g]
    BY <1>1, <1>5, <2>1
  <2>. QED BY <1>3, <1>4, <1>5, <2>1 DEF ResumeComing, Waiting
<1>6. CASE ReportWrite(h)
  <2>1. CASE row[req[h].at] = "WAITING_CALLBACK"
    <3>1. req' = [req EXCEPT ![h] = [op |-> "resume", at |-> req[h].at]]
      BY <1>6, <2>1 DEF ReportWrite
    <3>2. req[h].at \in Instances
      BY <1>1, <1>6 DEF ReportWrite
    <3>3. [op |-> "resume", at |-> req[h].at] \in [op : {"report", "resume", "beat"}, at : Instances]
      BY <3>2
    <3>4. req'[h] # NoRequest /\ req'[h].op = "resume"
      BY <1>1, <3>1, <3>3
    <3>. QED BY <3>4 DEF ResumeComing
  <2>2. CASE row[req[h].at] # "WAITING_CALLBACK"
    BY <1>5, <1>6, <2>2 DEF ReportWrite
  <2>. QED BY <2>1, <2>2
<1>7. CASE ReportResume(h)
  <2>1. req[h].at \in Instances
    BY <1>1, <1>7 DEF ReportResume
  <2>2. queue'[req[h].at] = "waiting"
    BY <1>1, <1>7, <2>1 DEF ReportResume, EnqueueResume, Jobs
  <2>. QED BY <2>1, <2>2 DEF ResumeComing, Jobs, LiveJob
<1>8. CASE HeartbeatWrite(h)
  BY <1>5, <1>8 DEF HeartbeatWrite
<1>9. ~RequestLost(h)
  BY DEF RequestLost, NobodyDies
<1>10. ASSUME NEW x \in Instances, ReportIgnored(h, x)
       PROVE  ResumeComing' \/ Waiting'
  BY <1>3, <1>4, <1>10 DEF ReportIgnored, cbVars, ResumeComing, Waiting
<1>11. ASSUME NEW x \in Instances, ReportRead(h, x) \/ HeartbeatRead(h, x)
       PROVE  ResumeComing' \/ Waiting'
  BY <1>5, <1>11 DEF ReportRead, HeartbeatRead, runVars, rowVars
<1>. QED BY <1>2, <1>6, <1>7, <1>8, <1>9, <1>10, <1>11 DEF CallbackStep

LEMMA WatchdogsKeepWakeup ==
  ASSUME NobodyDies, WakeInv, Watchdogs
  PROVE  NoLostWakeup'
<1>1. /\ row \in [Instances -> RowStatus \union {"none"}]
      /\ queue \in [Jobs -> LiveJob \union {"absent", "completed", "failed"}]
      /\ timedOut \in [Sweepers -> SUBSET Instances]
      /\ lost \in 0 .. MaxLost
  BY DEF WakeInv, BaseInv, TypeInv, TypeOK, RunStateTypeOK, WatchdogTypeOK
<1>2. UNCHANGED req
  BY DEF Watchdogs, cbVars
<1>3. runStatus' = runStatus \/ runStatus' \in Terminal
  BY DEF Watchdogs, WatchdogNext, TimePasses, GracePasses, DeadlinePasses, SweepStep, Sweep,
         ExpiryDone, CountWaiting, OrphanCheck, FailRun, ExpireCallback, SweepLost, runVars, Terminal
<1>4. SUFFICES ASSUME runStatus \notin Terminal, ResumeComing \/ Waiting
               PROVE  ResumeComing' \/ Waiting'
  BY <1>3 DEF NoLostWakeup, WakeInv, Waiting
<1>5. CASE UNCHANGED <<row, queue, timedOut>>
  BY <1>2, <1>4, <1>5 DEF ResumeComing, Waiting
<1>6. ASSUME NEW s \in Sweepers, NEW x \in Instances, ExpireCallback(s, x)
      PROVE  ResumeComing' \/ Waiting'
  <2>1. CASE row[x] = "WAITING_CALLBACK"
    <3>1. timedOut' = [timedOut EXCEPT ![s] = @ \union {x}]
      BY <1>6, <2>1 DEF ExpireCallback
    <3>2. x \in timedOut'[s]
      BY <1>1, <3>1
    <3>. QED BY <3>2 DEF ResumeComing
  <2>2. CASE row[x] # "WAITING_CALLBACK"
    BY <1>5, <1>6, <2>2 DEF ExpireCallback
  <2>. QED BY <2>1, <2>2
<1>7. ASSUME NEW s \in Sweepers, ExpiryDone(s)
      PROVE  ResumeComing' \/ Waiting'
  <2>1. CASE timedOut[s] = {}
    <3>1. timedOut' = timedOut /\ UNCHANGED <<row, queue>>
      BY <1>1, <1>7, <2>1 DEF ExpiryDone, rowVars
    <3>. QED BY <1>5, <3>1
  <2>2. CASE timedOut[s] # {}
    <3>1. PICK x \in timedOut[s] : queue' = [queue EXCEPT ![x] = "waiting"]
      BY <1>7, <2>2 DEF ExpiryDone, EnqueueResume
    <3>2. x \in Jobs /\ queue'[x] = "waiting"
      BY <1>1, <3>1 DEF Jobs
    <3>. QED BY <3>2 DEF ResumeComing, LiveJob
  <2>. QED BY <2>1, <2>2
<1>8. \A s \in Sweepers : ~SweepLost(s)
  BY <1>1 DEF SweepLost, NobodyDies
<1>9. ASSUME TimePasses \/ \E s \in Sweepers :
               Sweep(s) \/ CountWaiting(s) \/ OrphanCheck(s) \/ FailRun(s)
      PROVE  UNCHANGED <<row, queue, timedOut>>
  BY <1>9 DEF TimePasses, GracePasses, DeadlinePasses, Sweep, CountWaiting, OrphanCheck, FailRun,
              runVars, rowVars, wdVars
<1>. QED BY <1>5, <1>6, <1>7, <1>8, <1>9 DEF Watchdogs, WatchdogNext, SweepStep

\* While nobody dies, an unfinished run has a job, somebody about to enqueue
\* one, or a row that waits for its callback: resolving the last waiting row
\* and ending the last job never cross each other.
THEOREM WakeupsAreNotLost ==
  ASSUME NobodyDies
  PROVE  Spec => []NoLostWakeup
<1>1. RunJob \notin MayCrash
  BY DEF NobodyDies
<1>2. Init => JobHeld /\ NoLostWakeup
  BY DEF Init, RunStateInit, EngineInit, JobHeld, NoLostWakeup, ResumeComing, LiveJob, Jobs
<1>3. WakeInv /\ [Next]_vars => JobHeld' /\ NoLostWakeup'
  <2>. SUFFICES ASSUME WakeInv, [Next]_vars PROVE NoLostWakeup'
    BY JobStaysHeld
  <2>1. CASE Engines
    BY <2>1, EngineKeepsWakeup DEF Engines, EngineNext
  <2>2. CASE Cancels
    BY <2>2
    DEF Cancels, CancelRead, CancelWrite, runVars, rowVars, cbVars, wdVars, WakeInv, NoLostWakeup,
        ResumeComing, Terminal
  <2>3. CASE UNCHANGED vars
    BY <2>3 DEF vars, runVars, rowVars, cbVars, wdVars, WakeInv, NoLostWakeup, ResumeComing
  <2>. QED BY <2>1, <2>2, <2>3, CallbacksKeepWakeup, WatchdogsKeepWakeup DEF Next
<1>. QED BY <1>1, <1>2, <1>3, FirstAttemptAlways, PTL DEF Spec, WakeInv

-----------------------------------------------------------------------------
(* The run implements its promise *)

\* The runs the promise speaks of: without callback nodes, deadline and users
\* who cancel. Fan-outs, guardrails, crashes of any worker and orphan sweeps
\* are all in it.
Promised == Callback = {} /\ HasSla = FALSE /\ Users = {}

\* The initial job is alone: nobody else has anything to do with the run, but
\* for sweeps, which fail it only when the job is no more.
Alone ==
  /\ \A x \in Instances :
       /\ row[x] # "WAITING_CALLBACK" /\ ext[x] = "idle"
       /\ queue[x] = "absent" /\ pc[x] = "idle"
       /\ todo[x] = {} /\ rest[x] = {} /\ claim[x] = {} /\ exec[x] = {}
  /\ \A h \in Requests : req[h] = NoRequest
  /\ \A s \in Sweepers :
       expired[s] = {} /\ timedOut[s] = {} /\ (wd[s] = "fail" => queue[RunJob] \notin LiveJob)
  /\ canceling = {}

\* What the step of the initial job says of the run.
Phase ==
  /\ pc[RunJob] # "idle" <=> queue[RunJob] = "active"
  /\ queue[RunJob] \in LiveJob => runStatus \in {"PENDING", "RUNNING"}
  /\ pc[RunJob] = "clean" => (fresh[RunJob] <=> runStatus = "PENDING")
  /\ pc[RunJob] = "mark" => runStatus = "PENDING"
  /\ pc[RunJob] \in {"nodes", "reload", "final"} => runStatus = "RUNNING"
  /\ pc[RunJob] # "nodes" =>
       todo[RunJob] = {} /\ rest[RunJob] = {} /\ claim[RunJob] = {} /\ exec[RunJob] = {}

\* What it executes is its own, and all there is in progress once it has
\* cleaned up.
Executing ==
  /\ \A x \in exec[RunJob] : OwnsRow(RunJob, x)
  /\ pc[RunJob] \in {"mark", "nodes", "reload", "final"} =>
       \A x \in Instances : row[x] = "RUNNING" => x \in exec[RunJob]

\* A node with a result and no instance left to run.
Settled(n) ==
  /\ \A x \in RowsOf(n, row) : row[x] \in Resolved
  /\ n \notin todo[RunJob]
  /\ \A x \in rest[RunJob] \union claim[RunJob] \union exec[RunJob] : x[1] # n

\* A node let in by an edge whose outcome can no longer change.
SettledStart(n) ==
  Incoming(n) = {} \/ \E e \in Incoming(n) : Fires(e, row) /\ Settled(e.source)

WorkSettled ==
  /\ \A n \in todo[RunJob] : RowsOf(n, row) = {} /\ SettledStart(n)
  /\ \A x \in rest[RunJob] \union claim[RunJob] : SettledStart(x[1])
  /\ \A x \in rest[RunJob] \union claim[RunJob] \union exec[RunJob] : x[1] \notin todo[RunJob]

\* The job ends the run as a success when there is nothing left to do.
EndsRight ==
  /\ pc[RunJob] = "reload" => Ready(row) = {}
  /\ pc[RunJob] = "final" /\ result[RunJob] = "SUCCESS" => Ready(row) = {} /\ ~AnyFailed(row)

PromiseInv == BaseInv /\ Alone /\ Phase /\ Executing /\ WorkSettled /\ EndsRight

LEMMA Typed ==
  ASSUME BaseInv
  PROVE  /\ RunJob \in Jobs /\ RunJob \notin Instances
         /\ Jobs = Instances \union {RunJob}
         /\ row \in [Instances -> RowStatus \union {"none"}]
         /\ owner \in [Instances -> Jobs \union {NoJob}]
         /\ ext \in [Instances -> {"idle", "running", "reported"}]
         /\ queue \in [Jobs -> LiveJob \union {"absent", "completed", "failed"}]
         /\ pc \in [Jobs -> {"idle", "clean", "mark", "nodes", "reload", "final", "dead"}]
         /\ fresh \in [Jobs -> BOOLEAN]
         /\ todo \in [Jobs -> SUBSET Nodes]
         /\ rest \in [Jobs -> SUBSET Instances]
         /\ claim \in [Jobs -> SUBSET Instances]
         /\ exec \in [Jobs -> SUBSET Instances]
         /\ forced \in [Jobs -> Resolved \union {"no"}]
         /\ result \in [Jobs -> Resolved \union {"none"}]
         /\ runStatus \in {"PENDING", "RUNNING"} \union Terminal
BY RunAssumption DEF BaseInv, TypeInv, TypeOK, RunStateTypeOK, EngineTypeOK, Jobs

\* Without callback nodes only the initial job acts, and it is then live.
LEMMA RunJobActs ==
  ASSUME Promised, PromiseInv, NEW j \in Jobs, EngineStep(j) \/ Crash(j) \/ StalledCheck(j)
  PROVE  /\ j = RunJob /\ queue[RunJob] \in LiveJob
         /\ \A s \in Sweepers : wd[s] # "fail"
         /\ \A x \in Instances : ~RowVanished(RunJob, x) /\ ~Trigger(RunJob, x)
<1>1. \/ queue[j] = "waiting" \/ pc[j] # "idle" \/ rest[j] # {} \/ claim[j] # {} \/ exec[j] # {}
  BY DEF EngineStep, ReadRun, DeleteInFlight, MarkRunning, LoadStates, NextBatch, ReloadStates,
         Finalize, RunPlain, ForEachFailed, RunForEach, NextNode, ClaimNodeRun, Trigger,
         UpdateNodeRun, RowVanished, Crash, StalledCheck
<1>2. j = RunJob
  BY <1>1, Typed DEF PromiseInv, Alone
<1>3. queue[RunJob] \in LiveJob
  BY <1>1, <1>2 DEF PromiseInv, Phase, LiveJob
<1>. QED BY <1>2, <1>3 DEF PromiseInv, Alone, Executing, RowVanished, Trigger, Promised

LEMMA NoCallbacks ==
  ASSUME Promised, PromiseInv
  PROVE  ~Callbacks /\ ~Cancels
<1>1. ~Callbacks
  BY DEF Callbacks, CallbackNext, CallbackStep, ReportWrite, ReportResume, HeartbeatWrite,
         RequestLost, ReportIgnored, ReportRead, HeartbeatRead, PromiseInv, Alone
<1>2. ~Cancels
  BY DEF Cancels, Promised
<1>. QED BY <1>1, <1>2

\* The step of the initial job: what it does to the run and the rows.
LEMMA PhaseStep ==
  ASSUME Promised, PromiseInv, EngineStep(RunJob) \/ Crash(RunJob) \/ StalledCheck(RunJob)
  PROVE  Phase' /\ Executing'
<1>1. Phase /\ Executing /\ BaseInv
  BY DEF PromiseInv
<1>2. queue[RunJob] \in LiveJob
  BY RunJobActs, Typed DEF PromiseInv
<1>3. runStatus \in {"PENDING", "RUNNING"} /\ runStatus \notin Terminal
  BY <1>1, <1>2 DEF Phase, Terminal
<1>. USE <1>1, <1>3, Typed DEF Phase, Executing, Goto, EndJob, OwnsRow, LiveJob
<1>4. CASE ReadRun(RunJob)
  <2>1. pc' = [pc EXCEPT ![RunJob] = "clean"] /\ queue' = [queue EXCEPT ![RunJob] = "active"]
        /\ UNCHANGED <<runStatus, todo, rest, claim, exec>>
    BY <1>4 DEF ReadRun, AfterRead, advVars
  <2>2. pc[RunJob] = "idle"
    BY <1>4 DEF ReadRun
  <2>3. fresh'[RunJob] <=> runStatus = "PENDING"
    <3>1. fresh' = [fresh EXCEPT ![RunJob] = (runStatus = "PENDING")]
      BY <1>4 DEF ReadRun
    <3>2. RunJob \in Jobs /\ fresh \in [Jobs -> BOOLEAN]
      OBVIOUS
    <3>. QED BY <3>1, <3>2, Zenon
  <2>4. Phase'
    BY <2>1, <2>2, <2>3
  <2>5. exec'[RunJob] = {}
    BY <2>1, <2>2
  <2>. QED BY <2>1, <2>4, <2>5
<1>5. CASE DeleteInFlight(RunJob)
  BY <1>5 DEF DeleteInFlight, InFlight, advVars
<1>6. CASE MarkRunning(RunJob)
  BY <1>6 DEF MarkRunning, rowVars, advVars
<1>7. CASE LoadStates(RunJob)
  <2>1. UNCHANGED <<runStatus, row, owner, queue, fresh, rest, claim, exec>> /\ exec[RunJob] = {}
        /\ rest[RunJob] = {} /\ claim[RunJob] = {} /\ todo[RunJob] = {} /\ pc[RunJob] = "nodes"
    BY <1>7 DEF LoadStates, NodeDone, runVars, rowVars, advVars
  <2>2. \/ \E l \in {"reload", "final"} : pc' = [pc EXCEPT ![RunJob] = l] /\ UNCHANGED todo
        \/ UNCHANGED pc
    BY <1>7 DEF LoadStates, advVars
  <2>. QED BY <2>1, <2>2
<1>8. CASE NextBatch(RunJob)
  <2>1. pc[RunJob] = "nodes" /\ UNCHANGED <<runStatus, row, owner, queue, fresh, pc, todo, exec>>
    BY <1>8 DEF NextBatch, runVars, rowVars
  <2>. QED BY <2>1
<1>9. CASE ReloadStates(RunJob)
  <2>1. UNCHANGED <<runStatus, row, owner, fresh, todo, rest, claim, exec>> /\ pc[RunJob] = "reload"
    BY <1>9 DEF ReloadStates, rowVars, advVars
  <2>2. \/ pc' = [pc EXCEPT ![RunJob] = "idle"] /\ queue' = [queue EXCEPT ![RunJob] = "completed"]
        \/ pc' = [pc EXCEPT ![RunJob] = "final"] /\ UNCHANGED queue
    BY <1>9 DEF ReloadStates
  <2>. QED BY <2>1, <2>2
<1>10. CASE Finalize(RunJob)
  BY <1>10 DEF Finalize, rowVars, advVars
<1>11. ASSUME NEW n \in Nodes,
              RunPlain(RunJob, n) \/ ForEachFailed(RunJob, n)
                \/ \E len \in Lengths[n] : RunForEach(RunJob, n, len)
       PROVE  Phase' /\ Executing'
  <2>1. pc[RunJob] = "nodes" /\ UNCHANGED <<runStatus, row, owner, queue, fresh, pc, exec>>
    BY <1>11 DEF RunPlain, ForEachFailed, RunForEach, NextNode, runVars, rowVars
  <2>. QED BY <2>1
<1>12. ASSUME NEW x \in Instances, ClaimNodeRun(RunJob, x)
       PROVE  Phase' /\ Executing'
  <2>1. pc[RunJob] = "nodes" /\ UNCHANGED <<runStatus, queue, fresh, pc>>
    BY <1>12 DEF ClaimNodeRun
  <2>2. CASE row[x] = "none"
    <3>1. /\ row' = [row EXCEPT ![x] = "RUNNING"] /\ owner' = [owner EXCEPT ![x] = RunJob]
          /\ exec' = [exec EXCEPT ![RunJob] = @ \union {x}]
      BY <1>12, <2>2 DEF ClaimNodeRun
    <3>. QED BY <2>1, <3>1
  <2>3. CASE row[x] # "none"
    <3>1. UNCHANGED <<row, owner, exec>>
      BY <1>12, <2>3 DEF ClaimNodeRun, rowVars
    <3>. QED BY <2>1, <3>1
  <2>. QED BY <2>2, <2>3
<1>13. ASSUME NEW x \in Instances, UpdateNodeRun(RunJob, x)
       PROVE  Phase' /\ Executing'
  <2>1. pc[RunJob] = "nodes" /\ UNCHANGED <<runStatus, queue, fresh, pc, owner>>
        /\ exec' = [exec EXCEPT ![RunJob] = @ \ {x}]
    BY <1>13 DEF UpdateNodeRun
  <2>2. Outcomes(RunJob, x) \subseteq Resolved
    BY DEF Outcomes, Promised, Resolved
  <2>3. \E status \in Resolved : row' = [row EXCEPT ![x] = status]
    BY <1>13, <2>2 DEF UpdateNodeRun
  <2>. QED BY <2>1, <2>3 DEF Resolved
<1>14. CASE Crash(RunJob)
  <2>1. UNCHANGED <<runStatus, row, owner, queue>> /\ pc[RunJob] # "idle"
    BY <1>14 DEF Crash, runVars, rowVars
  <2>. QED BY <1>14, <2>1 DEF Crash
<1>15. CASE StalledCheck(RunJob)
  <2>1. UNCHANGED <<runStatus, row, owner, fresh, todo, rest, claim, exec>> /\ pc[RunJob] = "dead"
    BY <1>15 DEF StalledCheck, rowVars, advVars
  <2>2. pc' = [pc EXCEPT ![RunJob] = "idle"]
        /\ \E state \in {"waiting", "failed"} : queue' = [queue EXCEPT ![RunJob] = state]
    BY <1>15 DEF StalledCheck
  <2>. QED BY <2>1, <2>2
<1>. QED
  BY <1>4, <1>5, <1>6, <1>7, <1>8, <1>9, <1>10, <1>11, <1>12, <1>13, <1>14, <1>15, RunJobActs
  DEF EngineStep

LEMMA AloneStep ==
  ASSUME Promised, PromiseInv, EngineStep(RunJob) \/ Crash(RunJob) \/ StalledCheck(RunJob),
         UNCHANGED <<cbVars, wdVars, canceling>>
  PROVE  Alone'
<1>1. Alone /\ BaseInv
  BY DEF PromiseInv
<1>. USE <1>1, Typed DEF Alone
<1> DEFINE NoneWaits == \A x \in Instances : row'[x] # "WAITING_CALLBACK" /\ ext'[x] = "idle"
           OthersRest == \A x \in Instances :
             /\ queue'[x] = queue[x] /\ pc'[x] = pc[x] /\ todo'[x] = todo[x]
             /\ rest'[x] = rest[x] /\ claim'[x] = claim[x] /\ exec'[x] = exec[x]
<1>2. NoneWaits
  <2>1. CASE DeleteInFlight(RunJob)
    BY <2>1 DEF DeleteInFlight
  <2>2. ASSUME NEW x \in Instances, ClaimNodeRun(RunJob, x)
        PROVE  NoneWaits
    BY <2>2 DEF ClaimNodeRun, rowVars
  <2>3. ASSUME NEW x \in Instances, UpdateNodeRun(RunJob, x)
        PROVE  NoneWaits
    <3>1. Outcomes(RunJob, x) \subseteq Resolved
      BY DEF Outcomes, Promised, Resolved
    <3>2. \E status \in Resolved : row' = [row EXCEPT ![x] = status]
      BY <2>3, <3>1 DEF UpdateNodeRun
    <3>. QED BY <2>3, <3>2 DEF UpdateNodeRun, Resolved
  <2>4. CASE UNCHANGED <<row, ext>>
    BY <2>4
  <2>5. ASSUME NEW n \in Nodes,
               RunPlain(RunJob, n) \/ ForEachFailed(RunJob, n)
                 \/ \E len \in Lengths[n] : RunForEach(RunJob, n, len)
        PROVE  UNCHANGED <<row, ext>>
    BY <2>5 DEF RunPlain, ForEachFailed, RunForEach, NextNode, runVars, rowVars
  <2>6. ASSUME ReadRun(RunJob) \/ MarkRunning(RunJob) \/ LoadStates(RunJob) \/ NextBatch(RunJob)
                 \/ ReloadStates(RunJob) \/ Finalize(RunJob) \/ Crash(RunJob) \/ StalledCheck(RunJob)
        PROVE  UNCHANGED <<row, ext>>
    BY <2>6 DEF ReadRun, MarkRunning, LoadStates, NextBatch, ReloadStates, Finalize, Crash,
                StalledCheck, runVars, rowVars
  <2>. QED BY <2>1, <2>2, <2>3, <2>4, <2>5, <2>6, RunJobActs DEF EngineStep
<1>3. OthersRest
  <2>. USE DEF Goto, EndJob
  <2>1. CASE ReadRun(RunJob)
    BY <2>1 DEF ReadRun, advVars
  <2>2. CASE DeleteInFlight(RunJob) \/ MarkRunning(RunJob)
    BY <2>2 DEF DeleteInFlight, MarkRunning, advVars
  <2>3. CASE LoadStates(RunJob)
    BY <2>3 DEF LoadStates, advVars, runVars
  <2>4. CASE NextBatch(RunJob)
    BY <2>4 DEF NextBatch, runVars
  <2>5. CASE ReloadStates(RunJob) \/ Finalize(RunJob) \/ StalledCheck(RunJob)
    BY <2>5 DEF ReloadStates, Finalize, StalledCheck, advVars
  <2>6. CASE Crash(RunJob)
    BY <2>6 DEF Crash, runVars
  <2>7. ASSUME NEW n \in Nodes, RunPlain(RunJob, n) \/ ForEachFailed(RunJob, n)
        PROVE  OthersRest
    BY <2>7 DEF RunPlain, ForEachFailed, RecordSentinel, NextNode, runVars
  <2>8. ASSUME NEW n \in Nodes, NEW len \in Lengths[n], RunForEach(RunJob, n, len)
        PROVE  OthersRest
    <3>1. todo' = [todo EXCEPT ![RunJob] = @ \ {n}] /\ UNCHANGED <<queue, pc, exec>>
      BY <2>8 DEF RunForEach, NextNode, runVars
    <3>2. \/ claim' = [claim EXCEPT ![RunJob] = {<<n, 0>>}] /\ UNCHANGED rest
          \/ rest' = [rest EXCEPT ![RunJob] = {n} \X (0 .. len - 1)] /\ UNCHANGED claim
      BY <2>8 DEF RunForEach, RecordSentinel
    <3>. QED BY <3>1, <3>2
  <2>9. ASSUME NEW x \in Instances, ClaimNodeRun(RunJob, x) \/ UpdateNodeRun(RunJob, x)
        PROVE  OthersRest
    BY <2>9 DEF ClaimNodeRun, UpdateNodeRun
  <2>. QED BY <2>1, <2>2, <2>3, <2>4, <2>5, <2>6, <2>7, <2>8, <2>9, RunJobActs DEF EngineStep
<1>4. UNCHANGED <<req, expired, timedOut, wd, canceling>> /\ \A s \in Sweepers : wd[s] # "fail"
  BY RunJobActs DEF cbVars, wdVars
<1>. QED BY <1>2, <1>3, <1>4

\* An edge fires or not by the rows of its source.
LEMMA FiresBySource ==
  ASSUME NEW e, NEW st, NEW st1, \A x \in Instances : x[1] = e.source => st1[x] = st[x], Fires(e, st)
  PROVE  Fires(e, st1)
<1> DEFINE n == e.source
<1>1. RowsOf(n, st1) = RowsOf(n, st) /\ \A x \in RowsOf(n, st) : st1[x] = st[x]
  BY DEF RowsOf, Rows
<1>2. {x \in RowsOf(n, st1) : st1[x] = "SUCCESS"} = {x \in RowsOf(n, st) : st[x] = "SUCCESS"}
  BY <1>1
<1>3. JoinHolds(n, st1) <=> JoinHolds(n, st)
  BY <1>1, <1>2 DEF JoinHolds
<1>4. AggregateStatus(n, st1) = AggregateStatus(n, st)
  BY <1>1, <1>3 DEF AggregateStatus
<1>. QED BY <1>4 DEF Fires

\* A step may shrink the work and touch the rows of nodes that are not settled.
LEMMA SettledStays ==
  ASSUME NEW n, SettledStart(n), Incoming(n)' = Incoming(n),
         todo'[RunJob] \subseteq todo[RunJob],
         \A x \in rest'[RunJob] \union claim'[RunJob] \union exec'[RunJob] :
           \/ x \in rest[RunJob] \union claim[RunJob] \union exec[RunJob]
           \/ x[1] \in todo[RunJob],
         \A x \in Instances : Settled(x[1]) => row'[x] = row[x]
  PROVE  SettledStart(n)'
<1>1. ASSUME NEW e \in Incoming(n), Fires(e, row), Settled(e.source)
      PROVE  Fires(e, row') /\ Settled(e.source)'
  <2>1. \A x \in Instances : x[1] = e.source => row'[x] = row[x]
    BY <1>1
  <2>2. Fires(e, row')
    BY <1>1, <2>1, FiresBySource
  <2>. QED BY <1>1, <2>1, <2>2 DEF Settled, RowsOf, Rows
<1>. QED BY <1>1 DEF SettledStart, Incoming

LEMMA WorkSettledStep ==
  ASSUME Promised, PromiseInv, EngineStep(RunJob) \/ Crash(RunJob) \/ StalledCheck(RunJob)
  PROVE  WorkSettled'
<1>1. WorkSettled /\ Phase /\ Executing /\ BaseInv /\ Phase'
  BY PhaseStep DEF PromiseInv
<1>2. \A n : Incoming(n)' = Incoming(n)
  BY DEF Incoming
<1>. USE Typed, <1>1
<1>3. CASE pc'[RunJob] # "nodes"
  BY <1>3 DEF Phase, WorkSettled
<1>4. CASE UNCHANGED <<row, todo, rest, claim, exec>>
  BY <1>4 DEF WorkSettled, SettledStart, Settled, Incoming
<1>5. CASE LoadStates(RunJob) /\ ~UNCHANGED todo
  <2>1. /\ todo'[RunJob] = Ready(row) /\ UNCHANGED <<row, rest, claim, exec>>
        /\ rest[RunJob] = {} /\ claim[RunJob] = {} /\ exec[RunJob] = {}
    BY <1>5 DEF LoadStates, NodeDone, runVars, rowVars, advVars
  <2>2. ASSUME NEW n \in Ready(row), NEW e \in Incoming(n), Fires(e, row)
        PROVE  Settled(e.source)'
    <3>1. RowsOf(e.source, row) # {} /\ \A x \in RowsOf(e.source, row) : row[x] \notin InProgress
      BY <2>2 DEF Fires, AggregateStatus
    <3>2. \A x \in RowsOf(e.source, row) : row[x] \in Resolved
      BY <3>1 DEF RowsOf, Rows, RowStatus
    <3>3. e.source \notin Ready(row)
      BY <3>1 DEF Ready
    <3>. QED BY <2>1, <3>2, <3>3 DEF Settled, RowsOf, Rows
  <2>3. ASSUME NEW n \in Ready(row)
        PROVE  SettledStart(n)'
    BY <2>1, <2>2, <2>3 DEF Ready, MayStart, SettledStart, Incoming
  <2>4. \A n \in Ready(row) : RowsOf(n, row') = {}
    BY <2>1 DEF Ready
  <2>. QED BY <2>1, <2>3, <2>4 DEF WorkSettled
<1>6. ASSUME NEW n \in Nodes,
             RunPlain(RunJob, n) \/ ForEachFailed(RunJob, n)
               \/ \E len \in Lengths[n] : RunForEach(RunJob, n, len)
      PROVE  WorkSettled'
  <2>1. /\ n \in todo[RunJob] /\ todo'[RunJob] = todo[RunJob] \ {n} /\ UNCHANGED <<row, exec>>
        /\ rest[RunJob] = {} /\ claim[RunJob] = {} /\ exec[RunJob] = {}
    BY <1>6 DEF RunPlain, ForEachFailed, RunForEach, NextNode, NodeDone, runVars, rowVars
  <2>2. \A x \in rest'[RunJob] \union claim'[RunJob] : x[1] = n
    <3>1. CASE RunPlain(RunJob, n) \/ ForEachFailed(RunJob, n)
      BY <2>1, <3>1 DEF RunPlain, ForEachFailed, RecordSentinel
    <3>2. ASSUME NEW len \in Lengths[n], RunForEach(RunJob, n, len)
          PROVE  <2>2
      <4>1. \/ claim' = [claim EXCEPT ![RunJob] = {<<n, 0>>}] /\ UNCHANGED rest
            \/ rest' = [rest EXCEPT ![RunJob] = {n} \X (0 .. len - 1)] /\ UNCHANGED claim
        BY <3>2 DEF RunForEach, RecordSentinel
      <4>. QED BY <2>1, <4>1
    <3>. QED BY <1>6, <3>1, <3>2
  <2>3. ASSUME NEW m, SettledStart(m)
        PROVE  SettledStart(m)'
    BY <1>2, <2>1, <2>2, <2>3, SettledStays
  <2>. QED BY <2>1, <2>2, <2>3 DEF WorkSettled
<1>7. CASE NextBatch(RunJob)
  <2>1. /\ rest'[RunJob] \union claim'[RunJob] \subseteq rest[RunJob] \union claim[RunJob]
        /\ UNCHANGED <<row, todo, exec>>
    BY <1>7 DEF NextBatch, runVars, rowVars
  <2>2. ASSUME NEW m, SettledStart(m)
        PROVE  SettledStart(m)'
    BY <1>2, <2>1, <2>2, SettledStays
  <2>. QED BY <2>1, <2>2 DEF WorkSettled
<1>8. ASSUME NEW x \in Instances, ClaimNodeRun(RunJob, x)
      PROVE  WorkSettled'
  <2>1. /\ claim'[RunJob] = claim[RunJob] \ {x} /\ x \in claim[RunJob]
        /\ exec'[RunJob] \subseteq exec[RunJob] \union {x} /\ UNCHANGED <<todo, rest>>
    BY <1>8 DEF ClaimNodeRun
  <2>2. \A y \in Instances : y # x => row'[y] = row[y]
    BY <1>8 DEF ClaimNodeRun, rowVars
  <2>3. ASSUME NEW m, SettledStart(m)
        PROVE  SettledStart(m)'
    <3>1. \A y \in Instances : Settled(y[1]) => row'[y] = row[y]
      BY <2>1, <2>2 DEF Settled
    <3>. QED BY <1>2, <2>1, <2>3, <3>1, SettledStays
  <2>4. \A n \in todo[RunJob] : RowsOf(n, row') = {}
    BY <2>1, <2>2 DEF WorkSettled, RowsOf, Rows
  <2>. QED BY <2>1, <2>3, <2>4 DEF WorkSettled
<1>9. ASSUME NEW x \in Instances, UpdateNodeRun(RunJob, x)
      PROVE  WorkSettled'
  <2>1. /\ x \in exec[RunJob] /\ exec'[RunJob] = exec[RunJob] \ {x} /\ UNCHANGED <<todo, rest, claim>>
    BY <1>9 DEF UpdateNodeRun
  <2>2. \A y \in Instances : y # x => row'[y] = row[y]
    BY <1>9 DEF UpdateNodeRun
  <2>3. ASSUME NEW m, SettledStart(m)
        PROVE  SettledStart(m)'
    <3>1. \A y \in Instances : Settled(y[1]) => row'[y] = row[y]
      BY <2>1, <2>2 DEF Settled
    <3>. QED BY <1>2, <2>1, <2>3, <3>1, SettledStays
  <2>4. \A n \in todo[RunJob] : RowsOf(n, row') = {}
    BY <2>1, <2>2 DEF WorkSettled, RowsOf, Rows
  <2>. QED BY <2>1, <2>3, <2>4 DEF WorkSettled
<1>10. CASE ReadRun(RunJob) \/ MarkRunning(RunJob) \/ ReloadStates(RunJob) \/ Finalize(RunJob)
              \/ StalledCheck(RunJob)
  <2>1. UNCHANGED <<row, todo, rest, claim, exec>>
    BY <1>10 DEF ReadRun, MarkRunning, ReloadStates, Finalize, StalledCheck, rowVars, advVars
  <2>. QED BY <1>4, <2>1
<1>11. CASE LoadStates(RunJob)
  <2>1. CASE UNCHANGED todo
    BY <1>4, <1>11, <2>1 DEF LoadStates, runVars, rowVars, advVars
  <2>. QED BY <1>5, <1>11, <2>1
<1>12. CASE DeleteInFlight(RunJob) \/ Crash(RunJob)
  <2>1. todo'[RunJob] = {} /\ rest'[RunJob] = {} /\ claim'[RunJob] = {} /\ exec'[RunJob] = {}
    BY <1>12 DEF DeleteInFlight, Crash, Phase, advVars
  <2>. QED BY <2>1 DEF WorkSettled
<1>. QED
  BY <1>6, <1>7, <1>8, <1>9, <1>10, <1>11, <1>12, RunJobActs DEF EngineStep

LEMMA EndsRightStep ==
  ASSUME Promised, PromiseInv, EngineStep(RunJob) \/ Crash(RunJob) \/ StalledCheck(RunJob)
  PROVE  EndsRight'
<1>1. EndsRight /\ Phase /\ BaseInv
  BY DEF PromiseInv
<1>. USE Typed, <1>1 DEF Goto, EndJob
<1>2. CASE LoadStates(RunJob)
  <2>1. UNCHANGED row /\ pc[RunJob] = "nodes"
    BY <1>2 DEF LoadStates, runVars, rowVars
  <2>2. \/ pc'[RunJob] = "final" /\ result'[RunJob] = "FAILED"
        \/ pc'[RunJob] = "reload" /\ Ready(row) = {}
        \/ UNCHANGED pc
    BY <1>2 DEF LoadStates
  <2>. QED BY <2>1, <2>2 DEF EndsRight, Ready, MayStart, Incoming
<1>3. CASE ReloadStates(RunJob)
  <2>1. UNCHANGED row /\ pc[RunJob] = "reload"
    BY <1>3 DEF ReloadStates, rowVars
  <2>2. \/ pc'[RunJob] = "idle"
        \/ /\ pc'[RunJob] = "final"
           /\ result'[RunJob] = IF AnyFailed(row) THEN "FAILED" ELSE "SUCCESS"
    BY <1>3 DEF ReloadStates
  <2>. QED BY <2>1, <2>2 DEF EndsRight
<1>4. CASE ReadRun(RunJob) \/ DeleteInFlight(RunJob) \/ MarkRunning(RunJob) \/ Finalize(RunJob)
             \/ Crash(RunJob) \/ StalledCheck(RunJob)
  <2>1. pc'[RunJob] \notin {"reload", "final"}
    <3>1. CASE ReadRun(RunJob)
      BY <1>4, <3>1 DEF ReadRun, AfterRead, Phase, LiveJob
    <3>2. CASE DeleteInFlight(RunJob) \/ MarkRunning(RunJob)
      BY <3>2 DEF DeleteInFlight, MarkRunning
    <3>3. CASE Finalize(RunJob) \/ Crash(RunJob) \/ StalledCheck(RunJob)
      BY <3>3 DEF Finalize, Crash, StalledCheck
    <3>. QED BY <1>4, <3>1, <3>2, <3>3
  <2>. QED BY <2>1 DEF EndsRight
<1>5. ASSUME pc[RunJob] = "nodes", UNCHANGED pc
      PROVE  EndsRight'
  BY <1>5 DEF EndsRight
<1>6. CASE NextBatch(RunJob)
  BY <1>5, <1>6 DEF NextBatch, Phase
<1>7. ASSUME NEW n \in Nodes,
             RunPlain(RunJob, n) \/ ForEachFailed(RunJob, n)
               \/ \E len \in Lengths[n] : RunForEach(RunJob, n, len)
      PROVE  EndsRight'
  BY <1>5, <1>7 DEF RunPlain, ForEachFailed, RunForEach, NextNode
<1>8. ASSUME NEW x \in Instances, ClaimNodeRun(RunJob, x) \/ UpdateNodeRun(RunJob, x)
      PROVE  EndsRight'
  BY <1>5, <1>8 DEF ClaimNodeRun, UpdateNodeRun, Phase
<1>. QED
  BY <1>2, <1>3, <1>4, <1>6, <1>7, <1>8, RunJobActs DEF EngineStep

\* A sweep finds nothing to expire; it fails the run only when the initial job
\* is no more.
LEMMA SweepsLeaveTheRun ==
  ASSUME Promised, PromiseInv, Watchdogs
  PROVE  /\ UNCHANGED <<row, owner, ext, queue, engVars, cbVars, canceling>>
         /\ \/ UNCHANGED runStatus
            \/ runStatus = "RUNNING" /\ runStatus' = "FAILED" /\ queue[RunJob] \notin LiveJob
         /\ Alone'
<1>1. Alone /\ BaseInv
  BY DEF PromiseInv
<1>2. UNCHANGED <<engVars, cbVars, canceling>>
  BY DEF Watchdogs
<1>3. ASSUME NEW x \in Instances, DeadlinePasses(x)
      PROVE  FALSE
  BY <1>1, <1>3 DEF DeadlinePasses, Alone
<1>4. wd \in [Sweepers -> {"idle", "expire", "count", "orphan", "fail"}]
      /\ expired \in [Sweepers -> SUBSET Instances] /\ timedOut \in [Sweepers -> SUBSET Instances]
  BY <1>1 DEF BaseInv, TypeInv, TypeOK, WatchdogTypeOK
<1> DEFINE Quiet == \A t \in Sweepers :
                      /\ expired'[t] = {} /\ timedOut'[t] = {}
                      /\ wd'[t] = "fail" => queue[RunJob] \notin LiveJob
           Mild == \/ UNCHANGED runStatus
                   \/ runStatus = "RUNNING" /\ runStatus' = "FAILED" /\ queue[RunJob] \notin LiveJob
<1>5. CASE GracePasses
  BY <1>1, <1>2, <1>5 DEF GracePasses, runVars, rowVars, Alone, engVars, cbVars, advVars
<1>6. ASSUME NEW s \in Sweepers, SweepStep(s) \/ SweepLost(s)
      PROVE  UNCHANGED <<row, owner, ext, queue>> /\ Mild /\ Quiet
  <2>. USE <1>1, <1>4 DEF SweepTo, Alone, runVars, rowVars
  <2>1. CASE Sweep(s)
    <3>1. {x \in Instances : row[x] = "WAITING_CALLBACK" /\ late[x]} = {}
      OBVIOUS
    <3>2. expired' = [expired EXCEPT ![s] = {}] /\ wd' = [wd EXCEPT ![s] = "expire"]
          /\ UNCHANGED <<timedOut, row, owner, ext, queue, runStatus>>
      BY <2>1, <3>1 DEF Sweep
    <3>. QED BY <3>2
  <2>2. CASE ExpiryDone(s)
    <3>1. timedOut' = [timedOut EXCEPT ![s] = {}] /\ wd' = [wd EXCEPT ![s] = "count"]
          /\ UNCHANGED <<expired, row, owner, ext, queue, runStatus>>
      BY <2>2 DEF ExpiryDone, Promised
    <3>. QED BY <3>1
  <2>3. CASE CountWaiting(s)
    <3>1. wd' = [wd EXCEPT ![s] = "idle"] \/ wd' = [wd EXCEPT ![s] = "orphan"]
      BY <2>3 DEF CountWaiting
    <3>. QED BY <2>3, <3>1 DEF CountWaiting
  <2>4. CASE OrphanCheck(s)
    <3>1. \/ wd' = [wd EXCEPT ![s] = "idle"]
          \/ wd' = [wd EXCEPT ![s] = "fail"] /\ queue[RunJob] \notin LiveJob
      BY <2>4 DEF OrphanCheck, IsOrphaned
    <3>. QED BY <2>4, <3>1 DEF OrphanCheck
  <2>5. CASE FailRun(s)
    BY <2>5 DEF FailRun
  <2>6. CASE SweepLost(s)
    BY <2>6 DEF SweepLost
  <2>7. ASSUME NEW x \in Instances, ExpireCallback(s, x)
        PROVE  FALSE
    BY <2>7 DEF ExpireCallback
  <2>. QED BY <1>6, <2>1, <2>2, <2>3, <2>4, <2>5, <2>6, <2>7 DEF SweepStep
<1>7. ASSUME UNCHANGED <<row, owner, ext, queue>>, Quiet
      PROVE  Alone'
  BY <1>1, <1>2, <1>7 DEF Alone, engVars, advVars, cbVars
<1>. QED BY <1>2, <1>3, <1>5, <1>6, <1>7 DEF Watchdogs, WatchdogNext, TimePasses

LEMMA PromiseKept ==
  ASSUME Promised, PromiseInv, BaseInv', [Next]_vars
  PROVE  PromiseInv'
<1>. USE DEF PromiseInv
<1>1. CASE Engines
  <2>1. PICK j \in Jobs : EngineStep(j) \/ Crash(j) \/ StalledCheck(j)
    BY <1>1 DEF Engines, EngineNext
  <2>2. EngineStep(RunJob) \/ Crash(RunJob) \/ StalledCheck(RunJob)
    BY <2>1, RunJobActs
  <2>3. UNCHANGED <<cbVars, wdVars, canceling>>
    BY <1>1 DEF Engines
  <2>. QED BY <2>2, <2>3, PhaseStep, AloneStep, WorkSettledStep, EndsRightStep
<1>2. CASE Watchdogs
  <2>1. /\ UNCHANGED <<row, owner, queue, pc, fresh, todo, rest, claim, exec, result>> /\ Alone'
        /\ \/ UNCHANGED runStatus
           \/ queue[RunJob] \notin LiveJob
    BY <1>2, SweepsLeaveTheRun DEF engVars, advVars
  <2>2. Phase'
    BY <2>1, Typed DEF Phase, LiveJob
  <2>3. Executing'
    BY <2>1 DEF Executing, OwnsRow
  <2>4. WorkSettled' /\ EndsRight'
    BY <2>1 DEF WorkSettled, SettledStart, Settled, Incoming, EndsRight, Ready, MayStart
  <2>. QED BY <2>1, <2>2, <2>3, <2>4
<1>3. CASE UNCHANGED vars
  <2>1. UNCHANGED <<runStatus, row, owner, ext, queue, pc, fresh, todo, rest, claim, exec, result,
                    req, expired, timedOut, wd, canceling>>
    BY <1>3 DEF vars, runVars, rowVars, engVars, advVars, cbVars, wdVars
  <2>2. Alone'
    BY <2>1 DEF Alone
  <2>3. Phase' /\ Executing'
    BY <2>1 DEF Phase, Executing, OwnsRow
  <2>4. WorkSettled' /\ EndsRight'
    BY <2>1 DEF WorkSettled, SettledStart, Settled, Incoming, EndsRight, Ready, MayStart
  <2>. QED BY <2>2, <2>3, <2>4
<1>. QED BY <1>1, <1>2, <1>3, NoCallbacks DEF Next

LEMMA PromiseAlways ==
  ASSUME Promised
  PROVE  Spec => []PromiseInv
<1>1. Init /\ BaseInv => PromiseInv
  <2>. SUFFICES ASSUME Init, BaseInv PROVE Alone /\ Phase /\ Executing /\ WorkSettled /\ EndsRight
    BY DEF PromiseInv
  <2>. USE Typed DEF Init
  <2>1. Alone
    BY DEF RunStateInit, EngineInit, CallbackInit, WatchdogInit, Alone
  <2>2. Phase /\ Executing
    BY DEF RunStateInit, EngineInit, Phase, Executing
  <2>3. WorkSettled /\ EndsRight
    BY DEF EngineInit, WorkSettled, EndsRight
  <2>. QED BY <2>1, <2>2, <2>3
<1>2. PromiseInv /\ BaseInv' /\ [Next]_vars => PromiseInv'
  BY PromiseKept
<1>. QED BY <1>1, <1>2, BaseAlways, PTL DEF Spec

\* The promise reads the definition as the engine does.
LEMMA SameDag ==
  /\ Promise!Instances = Instances /\ Promise!Resolved = Resolved
  /\ Promise!InProgress = InProgress
  /\ \A n, st : Promise!MayStart(n, st) <=> MayStart(n, st)
  /\ \A st : Promise!Ready(st) = Ready(st) /\ (Promise!AnyFailed(st) <=> AnyFailed(st))
<1>1. Promise!Instances = Instances /\ Promise!Resolved = Resolved /\ Promise!InProgress = InProgress
  BY DEF Promise!Instances, Instances, Promise!Resolved, Resolved, Promise!InProgress, InProgress
<1>2. ASSUME NEW n, NEW st
      PROVE  Promise!RowsOf(n, st) = RowsOf(n, st)
  BY <1>1 DEF Promise!RowsOf, RowsOf, Promise!Rows, Rows
<1>3. ASSUME NEW n, NEW st
      PROVE  Promise!AggregateStatus(n, st) = AggregateStatus(n, st)
  <2>1. Promise!JoinHolds(n, st) <=> JoinHolds(n, st)
    <3> DEFINE rows == RowsOf(n, st)
               succ == {x \in rows : st[x] = "SUCCESS"}
    <3>1. Promise!RowsOf(n, st) = rows
      BY <1>2
    <3>2. CASE Join[n] = "any"
      BY <3>1, <3>2 DEF Promise!JoinHolds, JoinHolds
    <3>3. CASE Join[n] = "ratio"
      BY <3>1, <3>3 DEF Promise!JoinHolds, JoinHolds
    <3>4. CASE Join[n] \notin {"any", "ratio"}
      BY <3>1, <3>4 DEF Promise!JoinHolds, JoinHolds
    <3>. QED BY <3>2, <3>3, <3>4
  <2>. QED BY <1>1, <1>2, <2>1 DEF Promise!AggregateStatus, AggregateStatus
<1>4. ASSUME NEW n, NEW st
      PROVE  Promise!MayStart(n, st) <=> MayStart(n, st)
  BY <1>3 DEF Promise!MayStart, MayStart, Promise!Incoming, Incoming, Promise!Fires, Fires
<1>. QED BY <1>1, <1>2, <1>3, <1>4 DEF Promise!Ready, Ready, Promise!AnyFailed, AnyFailed

\* Every step of the run is a step of its promise, or none.
LEMMA PromiseSimulated ==
  ASSUME Promised, PromiseInv, [Next]_vars
  PROVE  [Promise!Next]_<<runStatus, row>>
<1>1. Phase /\ Executing /\ WorkSettled /\ EndsRight /\ Alone /\ BaseInv
  BY DEF PromiseInv
<1>. USE <1>1, Typed
<1>2. CASE Engines
  <2>1. PICK j \in Jobs : EngineStep(j) \/ Crash(j) \/ StalledCheck(j)
    BY <1>2 DEF Engines, EngineNext
  <2>2. j = RunJob /\ queue[RunJob] \in LiveJob
        /\ \A x \in Instances : ~RowVanished(RunJob, x) /\ ~Trigger(RunJob, x)
    BY <2>1, RunJobActs
  <2>3. CASE DeleteInFlight(RunJob)
    <3>1. runStatus \in {"PENDING", "RUNNING"}
      BY <2>2 DEF Phase
    <3>2. row' = [x \in Instances |-> IF row[x] = "RUNNING" THEN "none" ELSE row[x]]
          /\ UNCHANGED runStatus
      BY <2>3 DEF DeleteInFlight, InFlight
    <3>. QED BY <3>1, <3>2, SameDag DEF Promise!Next, Promise!Interrupt
  <2>4. CASE MarkRunning(RunJob)
    BY <2>4 DEF MarkRunning, rowVars, Phase, Promise!Next, Promise!Start
  <2>5. ASSUME NEW x \in Instances, ClaimNodeRun(RunJob, x)
        PROVE  Promise!Next \/ UNCHANGED <<runStatus, row>>
    <3>1. CASE row[x] = "none"
      <4>1. runStatus = "RUNNING" /\ UNCHANGED runStatus /\ row' = [row EXCEPT ![x] = "RUNNING"]
        BY <2>5, <3>1 DEF ClaimNodeRun, Phase
      <4>2. MayStart(x[1], row)
        BY <2>5 DEF ClaimNodeRun, WorkSettled, SettledStart, MayStart
      <4>. QED BY <3>1, <4>1, <4>2, SameDag DEF Promise!Next, Promise!Begin
    <3>2. CASE row[x] # "none"
      BY <2>5, <3>2 DEF ClaimNodeRun, rowVars
    <3>. QED BY <3>1, <3>2
  <2>6. ASSUME NEW x \in Instances, UpdateNodeRun(RunJob, x)
        PROVE  Promise!Next
    <3>1. row[x] = "RUNNING" /\ UNCHANGED runStatus
      BY <2>6 DEF UpdateNodeRun, BaseInv, ClaimedRunning
    <3>2. Outcomes(RunJob, x) \subseteq Resolved
      BY DEF Outcomes, Promised, Resolved
    <3>3. \E status \in Resolved : row' = [row EXCEPT ![x] = status]
      BY <2>6, <3>2 DEF UpdateNodeRun
    <3>. QED BY <3>1, <3>3, SameDag DEF Promise!Next, Promise!End
  <2>7. CASE Finalize(RunJob)
    <3>1. runStatus = "RUNNING" /\ runStatus' = result[RunJob] /\ UNCHANGED row
          /\ pc[RunJob] = "final" /\ result[RunJob] \in {"SUCCESS", "FAILED"}
      BY <2>7 DEF Finalize, Phase, rowVars, BaseInv, TypeInv, ResultKnown, Resolved
    <3>2. CASE result[RunJob] = "SUCCESS"
      <4>1. Ready(row) = {} /\ ~AnyFailed(row)
        BY <3>1, <3>2 DEF EndsRight
      <4>2. \A x \in Instances : row[x] \notin InProgress
        BY <3>1 DEF Phase, Executing, Alone, InProgress
      <4>. QED BY <3>1, <3>2, <4>1, <4>2, SameDag DEF Promise!Next, Promise!Succeed
    <3>. QED BY <3>1, <3>2 DEF Promise!Next, Promise!Fail
  <2>8. CASE ReadRun(RunJob) \/ LoadStates(RunJob) \/ NextBatch(RunJob) \/ ReloadStates(RunJob)
               \/ Crash(RunJob) \/ StalledCheck(RunJob)
    BY <2>8 DEF ReadRun, LoadStates, NextBatch, ReloadStates, Crash, StalledCheck, runVars, rowVars
  <2>9. ASSUME NEW n \in Nodes,
               RunPlain(RunJob, n) \/ ForEachFailed(RunJob, n)
                 \/ \E len \in Lengths[n] : RunForEach(RunJob, n, len)
        PROVE  UNCHANGED <<runStatus, row>>
    BY <2>9 DEF RunPlain, ForEachFailed, RunForEach, NextNode, runVars, rowVars
  <2>. QED BY <2>1, <2>2, <2>3, <2>4, <2>5, <2>6, <2>7, <2>8, <2>9 DEF EngineStep
<1>3. CASE Watchdogs
  BY <1>3, SweepsLeaveTheRun DEF Promise!Next, Promise!Fail
<1>4. CASE UNCHANGED vars
  BY <1>4 DEF vars, runVars, rowVars
<1>. QED BY <1>2, <1>3, <1>4, NoCallbacks DEF Next

\* Without callback nodes, deadline and cancellation, a run with any fan-outs,
\* guardrails, crashes, redeliveries and orphan sweeps does what FlowPromise
\* says: nodes run under the conditions of the definition, only what a dead
\* worker left is run again, a result is final, and the run succeeds only at
\* the end of the flow.
THEOREM RunImplementsPromise ==
  ASSUME Promised
  PROVE  Spec => ImplementsPromise
<1>1. Init => Promise!Init
  BY SameDag DEF Init, RunStateInit, Promise!Init
<1>2. PromiseInv /\ [Next]_vars => [Promise!Next]_<<runStatus, row>>
  BY PromiseSimulated
<1>. QED BY <1>1, <1>2, PromiseAlways, PTL DEF Spec, ImplementsPromise, Promise!Spec
=============================================================================
