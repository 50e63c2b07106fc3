------------------------------ MODULE Launcher ------------------------------
(***************************************************************************)
(* The life of flow runs as rows: RunLauncherService creates, approves and *)
(* rejects them, QueueService queues them under their own id, users cancel *)
(* them, and a worker takes, marks and finishes them (FlowRun has what the *)
(* worker does in between).  Every service reads a row, decides, and later *)
(* writes it by id, one action per awaited call.                           *)
(***************************************************************************)
EXTENDS Naturals, FiniteSets

CONSTANTS
  Runs,      \* run ids
  Origins,   \* trigger sources other than the schedule that create runs
  Deciders,  \* approve / reject requests that may be in progress
  MayDie     \* API processes may die between two calls

ASSUME LauncherAssumption ==
  /\ MayDie \in BOOLEAN
  /\ Origins \subseteq {"manual", "webhook", "event", "backfill", "subflow", "agent-tool"}

VARIABLES
  status,     \* FlowRun.status, "none" before the row exists
  source,     \* FlowRun.trigger
  approval,   \* ApprovalRequest.status, "none" for a run that is not gated
  launching,  \* runs created whose launcher has yet to enqueue them
  job,        \* the BullMQ job with the run's id
  step,       \* next step of the worker that holds the job
  takes,      \* times a worker started the run
  decision,   \* the approve or reject in progress of each request handler
  canceling,  \* runs a cancel request has read as not terminal
  accepted,   \* decisions that passed the check of the run, a history
  canceled,   \* runs that were ever canceled, a history
  stranded    \* runs whose launcher or approver died, a history

histVars   == <<accepted, canceled, stranded>>
launchVars == <<status, source, approval, launching, job, step, takes, decision, canceling, histVars>>

Interactive == {"manual", "webhook", "event"}
Sources     == Interactive \union {"schedule", "backfill", "subflow", "agent-tool"}
Active      == {"PENDING", "RUNNING"}
Ended       == {"SUCCESS", "FAILED", "CANCELED"}
Verdicts    == {"approve", "reject"}
NoDecision  == [run |-> "none", verdict |-> "none", step |-> "idle"]
Decisions   == [run : Runs, verdict : Verdicts, step : {"request", "status", "enqueue"}]
MaxTakes    == 2  \* bound of the history of starts

LauncherTypeOK ==
  /\ status \in [Runs -> {"none", "PENDING_APPROVAL"} \union Active \union Ended]
  /\ source \in [Runs -> Sources \union {"none"}]
  /\ approval \in [Runs -> {"none", "PENDING", "APPROVED", "REJECTED"}]
  /\ launching \subseteq Runs
  /\ job \in [Runs -> {"absent", "waiting", "active", "completed"}]
  /\ step \in [Runs -> {"idle", "mark", "work"}]
  /\ takes \in [Runs -> 0 .. MaxTakes]
  /\ decision \in [Deciders -> Decisions \union {NoDecision}]
  /\ canceling \subseteq Runs
  /\ accepted \in [Runs -> SUBSET (Deciders \X Verdicts)]
  /\ canceled \subseteq Runs /\ stranded \subseteq Runs

LauncherInit ==
  /\ status = [r \in Runs |-> "none"]
  /\ source = [r \in Runs |-> "none"]
  /\ approval = [r \in Runs |-> "none"]
  /\ launching = {}
  /\ job = [r \in Runs |-> "absent"]
  /\ step = [r \in Runs |-> "idle"]
  /\ takes = [r \in Runs |-> 0]
  /\ decision = [d \in Deciders |-> NoDecision]
  /\ canceling = {}
  /\ accepted = [r \in Runs |-> {}]
  /\ canceled = {} /\ stranded = {}

-----------------------------------------------------------------------------
(* RunLauncherService.launch *)

\* One-off triggers of a flow that requires approval wait for an approver.
Gated(src, requiresApproval) == src \in Interactive /\ requiresApproval

\* Mutant: a gated run is enqueued too.
CreateEnqueues(r, src, requiresApproval) ==
  /\ status[r] = "none"
  /\ LET gated == Gated(src, requiresApproval) IN
     /\ status' = [status EXCEPT ![r] = IF gated THEN "PENDING_APPROVAL" ELSE "PENDING"]
     /\ approval' = [approval EXCEPT ![r] = IF gated THEN "PENDING" ELSE "none"]
     /\ launching' = launching \union {r}
  /\ source' = [source EXCEPT ![r] = src]
  /\ UNCHANGED <<job, step, takes, decision, canceling, histVars>>

Create(r, src, requiresApproval) ==
  /\ status[r] = "none"
  /\ LET gated == Gated(src, requiresApproval) IN
     /\ status' = [status EXCEPT ![r] = IF gated THEN "PENDING_APPROVAL" ELSE "PENDING"]
     /\ approval' = [approval EXCEPT ![r] = IF gated THEN "PENDING" ELSE "none"]
     /\ launching' = IF gated THEN launching ELSE launching \union {r}
  /\ source' = [source EXCEPT ![r] = src]
  /\ UNCHANGED <<job, step, takes, decision, canceling, histVars>>

\* Mutant: every enqueue adds a job, as if its id were fresh.
AddFresh(r) == job' = [job EXCEPT ![r] = "waiting"]

\* The job's id is the run's, so a second add is dropped, also after the first
\* job has completed: BullMQ keeps the last completed jobs.
AddJob(r) == job' = [job EXCEPT ![r] = IF @ = "absent" THEN "waiting" ELSE @]

Enqueue(r) ==
  /\ r \in launching
  /\ launching' = launching \ {r}
  /\ AddJob(r)
  /\ UNCHANGED <<status, source, approval, step, takes, decision, canceling, histVars>>

LauncherDies(r) ==
  /\ MayDie /\ r \in launching
  /\ launching' = launching \ {r}
  /\ stranded' = stranded \union {r}
  /\ UNCHANGED <<status, source, approval, job, step, takes, decision, canceling, accepted, canceled>>

-----------------------------------------------------------------------------
(* RunLauncherService.approve and reject *)

\* Anything but a run that awaits approval is refused.
DecideRead(d, r, verdict) ==
  /\ decision[d] = NoDecision
  /\ status[r] = "PENDING_APPROVAL"
  /\ decision' = [decision EXCEPT ![d] = [run |-> r, verdict |-> verdict, step |-> "request"]]
  /\ accepted' = [accepted EXCEPT ![r] = @ \union {<<d, verdict>>}]
  /\ UNCHANGED <<status, source, approval, launching, job, step, takes, canceling, canceled, stranded>>

\* The verdict is recorded on the request, whatever it says by now.
DecideRequest(d) ==
  /\ decision[d].step = "request"
  /\ approval' = [approval EXCEPT ![decision[d].run] =
                    IF decision[d].verdict = "approve" THEN "APPROVED" ELSE "REJECTED"]
  /\ decision' = [decision EXCEPT ![d].step = "status"]
  /\ UNCHANGED <<status, source, launching, job, step, takes, canceling, histVars>>

\* The status is written by id, whatever it is by now; a rejection ends here.
DecideStatus(d) ==
  /\ decision[d].step = "status"
  /\ LET r == decision[d].run IN
     \/ /\ decision[d].verdict = "approve"
        /\ status' = [status EXCEPT ![r] = "PENDING"]
        /\ decision' = [decision EXCEPT ![d].step = "enqueue"]
        /\ UNCHANGED canceled
     \/ /\ decision[d].verdict = "reject"
        /\ status' = [status EXCEPT ![r] = "CANCELED"]
        /\ decision' = [decision EXCEPT ![d] = NoDecision]
        /\ canceled' = canceled \union {r}
  /\ UNCHANGED <<source, approval, launching, job, step, takes, canceling, accepted, stranded>>

\* Mutant: an approved run is not enqueued.
ApproveOnly(d) ==
  /\ decision[d].step = "enqueue"
  /\ decision' = [decision EXCEPT ![d] = NoDecision]
  /\ UNCHANGED <<status, source, approval, launching, job, step, takes, canceling, histVars>>

DecideEnqueue(d) ==
  /\ decision[d].step = "enqueue"
  /\ AddJob(decision[d].run)
  /\ decision' = [decision EXCEPT ![d] = NoDecision]
  /\ UNCHANGED <<status, source, approval, launching, step, takes, canceling, histVars>>

DeciderDies(d) ==
  /\ MayDie /\ decision[d] # NoDecision
  /\ stranded' = stranded \union {decision[d].run}
  /\ decision' = [decision EXCEPT ![d] = NoDecision]
  /\ UNCHANGED <<status, source, approval, launching, job, step, takes, canceling, accepted, canceled>>

-----------------------------------------------------------------------------
(* RunService.cancel, and the worker's executeRun *)

CancelRead(r) ==
  /\ status[r] \notin Ended \union {"none"} /\ r \notin canceling
  /\ canceling' = canceling \union {r}
  /\ UNCHANGED <<status, source, approval, launching, job, step, takes, decision, histVars>>

CancelWrite(r) ==
  /\ r \in canceling
  /\ status' = [status EXCEPT ![r] = "CANCELED"]
  /\ canceling' = canceling \ {r}
  /\ canceled' = canceled \union {r}
  /\ UNCHANGED <<source, approval, launching, job, step, takes, decision, accepted, stranded>>

Take(r) ==
  /\ job[r] = "waiting"
  /\ \/ /\ status[r] \in Ended
        /\ job' = [job EXCEPT ![r] = "completed"]
        /\ UNCHANGED <<step, takes>>
     \/ /\ status[r] \notin Ended
        /\ job' = [job EXCEPT ![r] = "active"]
        /\ step' = [step EXCEPT ![r] = IF status[r] = "PENDING" THEN "mark" ELSE "work"]
        /\ takes' = [takes EXCEPT ![r] = IF @ < MaxTakes THEN @ + 1 ELSE @]
  /\ UNCHANGED <<status, source, approval, launching, decision, canceling, histVars>>

Mark(r) ==
  /\ step[r] = "mark"
  /\ status' = [status EXCEPT ![r] = "RUNNING"]
  /\ step' = [step EXCEPT ![r] = "work"]
  /\ UNCHANGED <<source, approval, launching, job, takes, decision, canceling, histVars>>

\* Mutant: the outcome is written whatever the status is by now.
FinishAlways(r) ==
  /\ step[r] = "work"
  /\ \E outcome \in {"SUCCESS", "FAILED"} : status' = [status EXCEPT ![r] = outcome]
  /\ step' = [step EXCEPT ![r] = "idle"]
  /\ job' = [job EXCEPT ![r] = "completed"]
  /\ UNCHANGED <<source, approval, launching, takes, decision, canceling, histVars>>

\* The outcome is written only to a run that is still RUNNING.
Finish(r) ==
  /\ step[r] = "work"
  /\ \E outcome \in {"SUCCESS", "FAILED"} :
       status' = [status EXCEPT ![r] = IF @ = "RUNNING" THEN outcome ELSE @]
  /\ step' = [step EXCEPT ![r] = "idle"]
  /\ job' = [job EXCEPT ![r] = "completed"]
  /\ UNCHANGED <<source, approval, launching, takes, decision, canceling, histVars>>

Work(r) == Take(r) \/ Mark(r) \/ Finish(r)

DecideStep(d) == DecideRequest(d) \/ DecideStatus(d) \/ DecideEnqueue(d)

LauncherNext ==
  \/ \E r \in Runs, src \in Origins, gate \in BOOLEAN : Create(r, src, gate)
  \/ \E r \in Runs :
       Enqueue(r) \/ LauncherDies(r) \/ CancelRead(r) \/ CancelWrite(r) \/ Work(r)
  \/ \E d \in Deciders, r \in Runs, verdict \in Verdicts : DecideRead(d, r, verdict)
  \/ \E d \in Deciders : DecideStep(d) \/ DeciderDies(d)

LauncherSpec == LauncherInit /\ [][LauncherNext]_launchVars

\* Servers carry on with the requests they have begun, workers take and finish
\* jobs. Nobody is obliged to trigger, decide or cancel.
LauncherFairness ==
  /\ \A r \in Runs : WF_launchVars(Enqueue(r)) /\ WF_launchVars(Work(r))
  /\ \A d \in Deciders : WF_launchVars(DecideStep(d))

-----------------------------------------------------------------------------
(* Properties *)

Approvals(r) == {a \in accepted[r] : a[2] = "approve"}

\* A run of a flow that requires approval is not executed before somebody
\* approved it, whatever rejections, cancels and crashes come in between.
ApprovedBeforeRun == \A r \in Runs : approval[r] # "none" /\ takes[r] > 0 => Approvals(r) # {}

\* A run is started by at most one job, however often it is enqueued: jobs are
\* deduplicated by the run's id, also when two approvals are both accepted.
StartedOnce == \A r \in Runs : takes[r] <= 1

Undisputed(r) == Cardinality(accepted[r]) <= 1

\* A cancel is not overwritten by the outcome of an execution: only a worker
\* or an approver that read the row before the cancel can revive the run.
CancelKept ==
  [][\A r \in Runs :
       status[r] = "CANCELED" /\ step[r] # "mark" /\ Approvals(r) = {} =>
         status'[r] = "CANCELED"]_launchVars

\* A rejected run is canceled without executing ("Reject a pending run: cancel
\* it without executing", run-launcher.service.ts). The code does not keep
\* this: an approval that was read at the same time goes on.
RejectedNeverRuns == \A r \in Runs : approval[r] = "REJECTED" => takes[r] = 0

\* No crash and no second decision has got in the way of the run.
Undisturbed(r) == r \notin stranded /\ Undisputed(r)

\* A run that is queued for execution ends, by its outcome or by a cancel.
PendingEnds ==
  \A r \in Runs : status[r] = "PENDING" ~> status[r] \in Ended \/ ~Undisturbed(r)
=============================================================================
