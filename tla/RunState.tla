------------------------------ MODULE RunState ------------------------------
(***************************************************************************)
(* What the components that handle one flow run share: the FlowRun row,    *)
(* its NodeRun rows, the BullMQ jobs of the run and the external jobs that *)
(* hold a callback token.                                                  *)
(*                                                                         *)
(* The initial job of a run has the run's id, so BullMQ never holds two of *)
(* it (RunJob).  A resume job has a fresh id; since it is enqueued when a  *)
(* WAITING_CALLBACK row is resolved, and a row is resolved once, the row's *)
(* instance serves as its id.                                              *)
(***************************************************************************)
EXTENDS FlowDag

CONSTANTS
  Callback,   \* nodes with completion = "callback"
  RunJob,     \* the id of the initial `run` job
  NoJob,      \* no job
  ApiMayCrash \* an API process may die inside a callback request

ASSUME RunAssumption ==
  /\ Callback \subseteq Nodes
  /\ RunJob \notin Instances
  /\ ApiMayCrash \in BOOLEAN
  /\ NoJob \notin Instances \union {RunJob}

VARIABLES
  runStatus,  \* FlowRun.status
  row,        \* NodeRun.status of each instance, "none" where there is no row
  owner,      \* the job whose claim created the row: stands for NodeRun.id
  ext,        \* the external job that was handed the row's callback token
  late,       \* NodeRun.callbackDeadline lies in the past
  queue,      \* state of each BullMQ job, "absent" before it is added
  finished    \* number of FLOW_RUN_FINISHED events emitted

rowVars == <<row, owner, ext, late>>
runVars == <<runStatus, rowVars, queue, finished>>

Jobs     == Instances \union {RunJob}
Terminal == {"SUCCESS", "FAILED", "CANCELED"}
LiveJob  == {"waiting", "active"}

MaxFinished == 2  \* bound of the event counter

RunStateTypeOK ==
  /\ runStatus \in {"PENDING", "RUNNING"} \union Terminal
  /\ row \in [Instances -> RowStatus \union {"none"}]
  /\ owner \in [Instances -> Jobs \union {NoJob}]
  /\ ext \in [Instances -> {"idle", "running", "reported"}]
  /\ late \in [Instances -> BOOLEAN]
  /\ queue \in [Jobs -> LiveJob \union {"absent", "completed", "failed"}]
  /\ finished \in 0 .. MaxFinished

\* RunLauncherService.launch created the run PENDING and enqueued its job.
RunStateInit ==
  /\ runStatus = "PENDING"
  /\ row = [x \in Instances |-> "none"]
  /\ owner = [x \in Instances |-> NoJob]
  /\ ext = [x \in Instances |-> "idle"]
  /\ late = [x \in Instances |-> FALSE]
  /\ queue = [j \in Jobs |-> IF j = RunJob THEN "waiting" ELSE "absent"]
  /\ finished = 0

\* QueueService.enqueueResume for the row of instance x.
EnqueueResume(x) == queue' = [queue EXCEPT ![x] = "waiting"]

EmitFinished == finished' = IF finished < MaxFinished THEN finished + 1 ELSE finished
=============================================================================
