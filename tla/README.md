# tempo-flow in TLA+

A verification project for tempo-flow, a self-hosted flow orchestrator: flows
are DAGs of HTTP calls, containers, scripts, LLM agents and sub-flows, started
by a user, a cron tick, a webhook or an event, and executed by BullMQ workers
from checkpoints in a database. The specifications are read off the code under
`src/`; `PROJECT.json` maps each definition to its lines.

Contents: [the system](#the-system), [the modules](#the-modules),
[what each run shows](#what-each-run-shows), [proofs](#what-is-proved),
[findings](#findings), [limits](#what-is-not-modelled), [plan](#plan).

## The system

One API process (or several) and any number of workers share a database
(`prisma/schema.prisma`) and Redis. Nothing else is shared: all coordination is
a conditional update, a unique key, a BullMQ job id or a Redis lock.

| Component | State it keeps | Operations | Talks to |
| --- | --- | --- | --- |
| Run launcher, approval (`run-launcher.service.ts`) | FlowRun, ApprovalRequest | launch, approve, reject | queue, run events |
| Run service (`run.service.ts`), worker (`flow.processor.ts`) | FlowRun.status, NodeRun rows, BullMQ jobs | executeRun (initial and resume), cancel, claim / update of a row | engine, agents, events |
| Execution engine (`execution.engine.ts`) | none of its own: the rows it reads | advance: frontier, fan-out, claim, execute, suspend | recorder (run service), executors |
| Callback service (`callback.service.ts`) | NodeRun.status, callbackDeadline | report, heartbeat, status | queue (resume) |
| SLA watchdog (`sla-watchdog.service.ts`) | FlowRun.status, NodeRun.status | a sweep every 15 s | queue (job state, resume), events |
| Agent loop (`llm-agent.service.ts`) | LlmAgentState | start, continue, onChildFinished | launcher (tool sub-flows), queue |
| Sub-flow executor (`subflow.executor.ts`, `subflow-cycle.ts`) | polls the child run | execute, guardrails | launcher |
| Job executors (`packages/executors`) | requests, Kubernetes jobs, containers | execute, with timeout and retry | external systems |
| Parameters (`params.ts`, `KeyValueEditor.tsx`) | one evaluation's object | resolve, evaluate, interpolate | engine, executors |
| Scheduler, lock (`scheduler.service.ts`, `lock.service.ts`) | cron jobs in memory, Redis lock | register, unregister, trigger | launcher |
| Event triggers (`event-trigger.service.ts`, `redis-stream.adapter.ts`) | EventTrigger, consumer group | create, remove, reload, handle | launcher |
| Webhooks (`webhook.service.ts`, `webhook-rate-limit.guard.ts`) | WebhookTrigger, Redis counter | create, remove, trigger | launcher |
| Flow service (`flow.service.ts`), validation (`flow-engine`) | Flow, FlowVersion | create, update, restore, import, remove | scheduler |
| Members, sign-on (`member.service.ts`, `oidc.service.ts`) | User, UserRole | create, update, remove, setRoles, provisionUser | - |
| Settings, notifications | Setting document | update; notify on the finish event | run service, watchdog (event) |
| Run events (`run-events.service.ts`) | listeners per run, a Redis subscription | publish, subscribe | browser streams |
| Flow editor, node form, cron builder, run pages (`apps/web`) | page state | edit, save, load, show | API |
| Secrets, login and tokens, other pages | their own tables | request handlers | - |

What makes them correct, and where it is hard:

- *Engine and run service.* A node starts when the definition lets it and never
  twice; a result is final; the run ends once, with the right status. Hard:
  resume jobs overlap with the initial job and each other, a job is retried
  after its worker died, rows change between two reads of one advance.
- *Callbacks and watchdog.* One of report, duplicate and timeout wins, and the
  run always wakes up. Hard: reports that are early, late or repeated; the
  process dies between the row's update and the resume; the sweep's several
  queries are not one transaction.
- *Launcher.* A run is executed only if it was approved, once, and a canceled
  run stays canceled. Hard: decisions that race, an enqueue that is lost.
- *Agent loop.* Every tool result is fed back once, and the loop goes on. Hard:
  children that finish together, a crash between claim and resume, a first turn
  that the node's timeout gives up and the retry begins again while it goes on.
- *Executors.* An instance succeeds on its own attempt's work, and ends. Hard:
  an attempt the timeout gave up goes on next to its retry.
- *Scheduler, events, webhooks.* One launch per second and flow, no run next to
  another; events are handled; tokens come free. Hard: locks and counters with a
  lifetime, a count that is out of date at the launch, processes that die in between.
- *Members, versions, settings.* Read-then-write on shared rows: the last
  administrator, the past of a flow, the secret behind the mask.
- *Web editor and pages.* What is edited can be saved and run, and what is shown
  is what is stored. Hard: long sessions, copies of one value, answers in any
  order.

`PROJECT.json` lists each hazard at its line with the property that covers it,
or the reason why none does. Where the code loses a race, the property says that
this race is the only way to lose what it promises, and the race is a finding.

## The modules

| Module | What it models | Source |
| --- | --- | --- |
| `FlowDag` | a definition and the pure functions over its rows: `AggregateStatus`, `Fires`, `Ready` | `aggregateStatus`, `computeReady` |
| `RunState` | the shared rows and jobs of one run | Prisma schema, `queue.service.ts` |
| `Engine` | `executeRun` and `advance`, one process per BullMQ job | `run.service.ts`, `execution.engine.ts` |
| `Callback` | the callback endpoints | `callback.service.ts` |
| `Watchdog` | the sweep, the passing of deadlines | `sla-watchdog.service.ts` |
| `FlowRun` | all of these on one run, and users who cancel it; the properties | - |
| `FlowPromise` | what a run promises, without jobs, workers or sweeps | - |
| `Launcher` | the life of runs as rows: launch, approve, reject, cancel, take, finish | `run-launcher.service.ts`, `run.service.ts` |
| `Subflows` | parents that poll their child in a worker slot; cycle and depth guards | `subflow.executor.ts`, `subflow-cycle.ts` |
| `EventTriggers` | triggers, reloads, the consumer loop of each instance | `event-trigger.service.ts`, `redis-stream.adapter.ts` |
| `Webhooks` | the rate limit's counter, lookup, launch | `webhook*.ts` |
| `Executors` | attempts, timers and the external work of one node | `executeWithRetry`, `packages/executors` |
| `AgentLoop` | one agent node: attempts at the first turn under the engine's timeout and retry, turns, tool calls, resume jobs | `llm-agent.service.ts`, `executeWithRetry` |
| `Scheduler` | timer callbacks of several instances, the clock they read, lock, overlap policy; extends `Launcher` | `scheduler.service.ts`, `lock.service.ts` |
| `FlowStore` | a flow's row with the columns versions hold and those they do not, versions and cron jobs under overlapping requests | `flow.service.ts`, `scheduler.service.ts` |
| `Accounts` | users and roles, the guard, single sign-on | `member.service.ts`, `oidc.service.ts`, `MembersPage.tsx` |
| `Settings` | the masked document in several tabs | `setting.service.ts`, `SettingsPage.tsx` |
| `Notifications` | from the finish event to the channels | `notification/` |
| `RunEvents`, `RunView` | live events in the API; the overlay and the sheet in the page against the rows of a run and of a node's instances | `run-events.service.ts`, `FlowPage.tsx`, `RunDetailSheet.tsx` |
| `FlowValidation`, `FlowEditor` | what the server accepts; editing, saving and reloading a definition | `validate.ts`, `features/flow-editor` |
| `NodeForm`, `CronBuilder` | a node's fields, URLs that are none among them, against the schema; the views of a cron expression | `NodeForm.tsx`, `CronBuilder.tsx` |
| `Params` | from typed rows to what an executor is given | `params.ts`, `KeyValueEditor.tsx` |
| `MCFlowRun` | three small flows for `FlowRun` | - |
| `MCServices`, `MCPlane` | the other components side by side | - |
| `FlowRunProofs`, `FlowRunLifeProofs` | theorems about `FlowRun`: rows and their order; ends, wake-ups, the promise | - |
| `LauncherProofs`, `SchedulerProofs`, `AgentLoopProofs` | theorems about the module of that name | - |
| `ControlPlaneProofs` | theorems about `FlowStore`, `RunEvents`, `Accounts`, `Settings`, `Notifications` | - |
| `ServicesProofs` | theorems about `Executors`, `EventTriggers`, `Subflows` | - |
| `WebProofs` | theorems about `CronBuilder`, `NodeForm`, `RunView`, `FlowEditor`, `Params` | - |

Three groups of modules, one per group of runs:

- `FlowRun` composes engine, callbacks, watchdog and cancels on one run: they
  share its rows and jobs and interleave freely.
- `MCServices` and `MCPlane` hold components that share no row. Interleaving
  them would only multiply their states, so a behaviour picks its `part` and
  the others stay at their initial state; the properties of all are checked in
  one run. Within a part every request, job and process interleaves. `Scheduler`
  extends `Launcher`: ticks, launches, workers and cancels share the runs.
- What one component needs of another is a step of its own where it matters:
  `AgentLoop` has the engine's claim of the agent's node, its timeout and retries,
  record and advance, the job's own retry, the watchdog and the children; `Launcher`
  has the worker; `RunView` the writers of the rows, the clean-up among them that
  deletes rows and tells nobody.

In `MCPlane` the agent loop is two parts: the agent of the configuration, with two
turns and two calls, and the instance `Bounded` of the module, whose node has a
timeout and a retry. TLC compares states by the variables of their part
(`PartOfState`, the configuration's VIEW), since those of the others never change.

**Grain.** In every module an action is the code between two awaited calls that touch shared
state: a database query, a queue operation, an external call. So `executeRun`
is ReadRun, DeleteInFlight, MarkRunning, then the loop LoadStates, (RunPlain or
RunForEach, NextBatch, ClaimNodeRun, Trigger, UpdateNodeRun)\*, ReloadStates,
Finalize; each of `report`, `heartbeat`, `sweep` and `cancel` is split the same
way. The instances of a fan-out batch run concurrently (`Promise.all`): they
sit together in `claim` and `exec`, which any of them may leave first.
In `AgentLoop` two calls are one step where what comes between them cannot tell:
a tick's status of the run, its look for suspended agents and its reading of their
children (`TickTake`: children only ever end, and another tick's claim is looked for
again by `TickClaim`), and an append to the conversation, which reads it just before
(`AppendResults`). An update and the read after it that only fetches what was written
are one step everywhere.

**State.** `row[x]` is the status of the NodeRun of instance
`x = <<node, mapIndex>>`, `"none"` where no row exists; `owner[x]` is the job
that inserted it and stands for the row's id, since a job inserts an instance
at most once per attempt. `ext[x]` is the external job that got the row's
token. A resume job is identified by the row whose resolution enqueued it: a
row is resolved once, so ids are fresh as in the code. `late` and `aged` are
all that is kept of time.

**Histories.** Some variables record what the code does not keep, only for the
properties to speak of: how often a run `finished`, `accepted` decisions, secrets
once `typed`, and flags of a race the code is known to lose (`stale`,
`abandoned`, `beside`, `unread`, `overlap`, `overlapped`, `saving`, `unguarded`,
`overtaken`, `misled`, `unlimited`, `stranded`). A property that leaves such a
history out names it, and the [list below](#what-the-properties-leave-out) says what
that takes from it.

**Abstractions.** In `FlowRun`, outputs, parameters, secrets, logs, run events and
spans are left out. An execution is one step with a nondeterministic outcome; its retries
and timeouts happen inside it, because they touch only the external system (a
callback node may have been triggered and still fail: `Trigger` then
`UpdateNodeRun` with FAILED). An agent's attempts touch more, the conversation it
saves and the children it schedules: they are steps of `AgentLoop`. A forEach expression evaluates to any length in
`Lengths`. The definition does not change during the run. What a query that
throws does is modelled for the vanished row (`RowVanished`), the sweep
(`SweepLost`) and the API (`RequestLost`). A worker that loses its lock but
goes on executing is not modelled: `Crash` kills the process with its memory.

In the other modules texts, messages and documents are model values or members
of small sets: an expression is a reference to another parameter or to the
item, a conversation a sequence of calls and results by turn, a cron field a
kind and a number, a secret one of a few texts. Each module's comment says what
its values stand for.

**Promise.** `FlowPromise` has no processes: nodes begin under the definition's
conditions, an interrupted one may begin again, results are final, the run
succeeds only when nothing is in progress, ready or failed. `FlowRun`
instantiates it with the mapping of its rows and status (`Promise`, `INSTANCE
FlowPromise WITH ...`) and implements it (`ImplementsPromise`) while a single
job executes the run; the violations below say why it does not with overlapping
jobs or in the middle of a cancel.

## What each run shows

Bounds are in the configurations; each is named in the module that uses it
(`MaxItems`, `MaxNodeRuns`, `MaxStalls`, `MaxFinished`, `MaxBeats`, `MaxLost`).
Deadlock is not checked: a run that has ended has nothing left to do.

| Run | Instance | Shows |
| --- | --- | --- |
| `MCCallbacks` | callback nodes a, b; c after a's success or b's failure; two API handlers | three jobs overlap: no instance is executed twice, no node starts against its edge's condition, a wake-up is never lost, results stay |
| `MCChain` | callback node a, then b; the initial job's worker may die, requests may die, heartbeats, SLA, watchdog, one canceling user | one finish event, whatever of it happens at once |
| `MCCrash` | s, a fan-out f of 0, 1, 3 or 5 items in batches of two with a 50 % ratio join, g and h on its success and failure; budget of 5 rows; worker death at any step, one lost sweep | the retried run implements `FlowPromise` |
| `MCLive` | as `MCChain`, worker death in any job, one lost sweep, an external job that may stay silent | a RUNNING run ends |
| `MCServices` | one run with two deciders and API processes that die; three runs of three flows on two worker slots; two triggers, two overlapping edits, one killed server; two webhook calls; four kinds of executor, a fan-out of two, one retry; an agent of one turn with two resume jobs, a timeout of its node and a crash | approval, one start, kept cancels; no recursion, no starvation; topics consumed, messages handled; tokens free again; an instance's success is its own and executions settle; turns have one owner, resumes are not lost, agents end |
| `MCPlane` | two timer callbacks and two runs over three seconds; an agent of two turns with two calls and two ticks, and one of a single turn whose first attempt may be given up and repeated, where one of them launches a child; two users, one request next to one sign-in; one flow with two overlapping edits; two tabs; three streams; a three-node flow in the editor; all node types; cron views; a run on the page with two instances of a node, two changes and two requests under way; two keys, two items; two finish events | the safety of the control plane and of the editor, 19 properties |
| `MCStepsTwice`, `MCCancel`, `MCSuccess`, `MCAcked`, `MCOrphan`, `MCFanOut` | the smallest that exhibits the case | the first six [findings](#findings) |

What each property of the two big runs says:

| Property | Of | Says |
| --- | --- | --- |
| `ApprovedBeforeRun`, `StartedOnce`, `CancelKept`, `PendingEnds` | `Launcher` | nothing gated starts unapproved; a run starts once; a cancel is revived only by who read the run before; a queued run ends |
| `NoRecursion`, `RunsDrain` | `Subflows` | no flow among its own ancestors as far as the guard walks; parents that hold all slots time out and give way |
| `TriggersConsumed`, `MessagesHandled` | `EventTriggers` | after reloads every enabled topic is consumed; a message is handled |
| `TokenUnblocked` | `Webhooks` | a refused token is admitted again |
| `SuccessIsOwn`, `ExecutionSettles` | `Executors` | success comes from the last attempt's own work; every instance gets a result |
| `TurnHasOneOwner`, `NoLostResume`, `AgentResultStable`, `AgentEnds`, `CallsThenResults` | `AgentLoop` | one process per turn; finished tools wake the agent; its result is final, also for attempts that were given up; it ends; calls and results alternate |
| `OneRunPerSecond`, `NoOverlap` | `Scheduler` | callbacks that read one second launch one run; two runs overlap only if one was created after the other's count |
| `AdminRemains`, `LocalRolesKept` | `Accounts` | someone can administer after any requests in a row; sign-on leaves local roles alone |
| `PastIsKept`, `JobsFollowFlow` | `FlowStore` | every name, definition, trigger and description is in the versions; the instance's cron job is that of the row |
| `MaskNotStored`, `SecretKept` | `Settings` | the mask is never the secret; only a typed secret replaces it, while saves do not overlap |
| `HeardByOpen`, `ViewSettles` | `RunEvents`, `RunView` | open streams hear every event; the settled sheet shows the rows, the overlay one of the instances |
| `NoDanglingEdge`, `NodesDistinct`, `StoredIsSortable` | `FlowEditor` | edges keep their nodes, nodes stay distinct, what is stored can be run |
| `RefusalExplained`, `ShownIsSaved` | `NodeForm`, `CronBuilder` | a refused node has an empty text, a malformed URL or a zero; the view is the expression |
| `GivenAsWritten` | `Params` | every expression is replaced by its value of the parameters as typed, equal ones each in their place |
| `ToldAsWanted` | `Notifications` | a channel is told at most once and only if wanted; one that all settings wanted is told or being tried, whatever the others do |

Why the bounds are enough: two callback nodes are what it takes for two resume
jobs to overlap with each other and with the initial job; two handlers for a
duplicate report; a chain of two for a successor to be early; one retry is what
BullMQ grants (`maxStalledCount` 1), so the second death is the last; the
fan-out's lengths hit the empty array, a single item, a full and a partial
batch and, with s recorded, one item more than the budget of 5 leaves. A run
that ends with exactly `maxNodeRuns` rows is FAILED by the `>=` of the
guardrail; MCCrash contains that case, and no property takes sides on it.

Elsewhere two of a kind are what a race takes: two deciders, two resume jobs,
two reloads, two edits, two tabs, two timer callbacks, two attempts at a first
turn, two instances of a node on the page, two changes to overtake each other.
On the page a run is selected while no other request is under way, so that its two
requests fit the bound; the theorem about it has no bound. Three runs on two slots make a chain of parents that starves its
youngest; a walk of 2 instead of 50 brings the guard's bound within reach; a
counter limit of 2 and a lock of 2 seconds with a clock of 3 bring the windows'
ends within reach; three node numbers let an id be freed and taken again. What
each bound cuts off is said where it is declared. A behaviour that reaches one
stops adding, and what it has goes on.

**Fairness** (`FairSpec`). Every step a live worker, an API handler or a sweep
can take is eventually taken (weak fairness per job, handler and sweeper): the
worker loop takes waiting jobs, executors have timeouts or end, `setInterval`
repeats the sweep, BullMQ's stalled check repeats. Deadlines and the grace
period pass. Nothing obliges an external job to report, a user to act or a
process to die. Sweeps are lost at most `MaxLost` times: if every sweep died
half-way no run could be cleaned up, in the code as in the model.

`MCServices` assumes the same of its parts: API processes carry on with the
requests they have begun unless they die, workers take and finish jobs, drivers
poll, timers fire, Redis lets a key expire. A model's reply or a container's
end is awaited only where the executor waits for it; nobody has to trigger,
decide, answer a request or cancel. Deaths are bounded, or end the obligation
(`Undisturbed`, `Silenced`): a launcher that dies before it enqueues leaves a
run PENDING for good, in the code as in the model. `MCPlane` has no fairness.

### What the properties leave out

Where the code does not keep a promise in every history, the property leaves those
out by name, so that it says how far the promise holds:

| Property | Leaves out | Which are |
| --- | --- | --- |
| `CancelKept` | revivals by who read the run before | a cancel between a worker's or approver's read and its write; `MCCancel` is the overwriting itself |
| `PendingEnds` | `stranded`, disputed runs | the API process died between the creation and the enqueue, or decisions raced; nothing ends such a run |
| `NoRecursion` | what is more than `WalkBound` (50) ancestors away | the guard stops there |
| `TriggersConsumed` | `overlapped` | two reloads of one instance at once, whose queries may be applied in either order |
| `TokenUnblocked` | `unlimited` | the guard died between INCR and EXPIRE |
| `TurnHasOneOwner`, `CallsThenResults`, `AgentEnds` | `abandoned` | an attempt at the first turn goes on next to the following one |
| `CallsThenResults` | `stale` | a tick claimed another turn than the one it had looked at |
| `NoLostResume`, `AgentEnds` | `Silenced`, some crashes | a child ended without its event; after an attempt was given up a worker died |
| `NoOverlap` | `beside`, canceled runs | a run created after the other's callback had counted; a canceled run that its worker revives |
| `AdminRemains` | `unguarded` | overlapping requests, sign-ins, an insertion that fails after the deletion |
| `LocalRolesKept` | `overtaken` | a user became local after the sign-in had looked |
| `PastIsKept` | `unread` | a request wrote over a state that it had not read |
| `JobsFollowFlow` | `overlap`, `unheard` | overlapping requests; instances that did not serve the change |
| `SecretKept` | `saving` | saves that overlap on the server |
| `ShownIsSaved` | expressions of five fields, lists that begin with a step | the builder shows them as something else |
| `NodesDistinct` | ids in use that are typed | nothing checks them in the editor |
| `ViewSettles` | `misled` | answers and events that were lost or came out of order; rows deleted without an event |
| `GivenAsWritten` | prompts that are not `Insertable` | a value reads like an expression of the prompt or holds a pattern of `String.replace` |
| `ToldAsWanted` | - | events lost with their process or with unreadable settings are told to nobody; a channel that only some settings wanted may be told or not |

**Mutants.** Definitions commented "Mutant" are plausible bugs in a mapped
definition (an insert that overwrites, an update that lost its condition, a
clean-up that deletes too much or nothing). Each property of each passing run
is violated by one of them; `PROJECT.json` pairs them.

## What is proved

With TLAPS, for every value of the constants. Assumptions: those on the
constants in the modules that declare them (finitely many nodes, edges between
nodes, ids that differ, a mask that is no secret), which TLC evaluates in every
run, and what a theorem states as its own hypothesis. None of the proofs
assumes fairness.

*One run* (`FlowRunProofs`): for every flow, every number of handlers, sweepers
and users, and every set of jobs whose worker may die.

- `TypeCorrect`: `Spec => []TypeOK`. TypeOK is not inductive: `Finalize`
  writes what `advance` returned, so the invariant also says that a job at its
  finalization has an outcome (`ResultKnown`).
- `ResultsAreStable`: `Spec => RowResultStable`. A worker writes a row by id
  with no condition on its status; what protects a result is that only the job
  that inserted a row takes it out of RUNNING (`ClaimedRunning`: a row that an
  executing job still owns is RUNNING), that all others write only to waiting
  rows, and that the clean-up deletes only RUNNING ones.
- `NodesStartAfterSources`: `Spec => []StartedAfterSource`. The inductive
  invariant (`OrderInv`) says that every node a job is yet to run, and every
  instance it is yet to claim, has a predecessor with a result. It enters
  through the ready frontier (`ReadyAfterSource`) and stays true because
  results are stable.
- `NodesFollowConditions`: `Spec => []GatedByCondition`, the same argument for
  the condition of the edge. It assumes that no edge leaves a fan-out
  (`NoFanOutSource`): the joined result of a fan-out can turn while batches are
  missing. For flows with such an edge neither the theorem nor the run decides
  the property.

*A run from launch to end* (`FlowRunLifeProofs`). All four rest on `EarlyInv`:
until the initial job has marked the run RUNNING there is nothing for anybody
else to work on, so its unconditional write disturbs nobody.

- `EndIsAnnouncedOnce`: `Spec => []FinishedOnce`, without hypotheses.
- `InstancesRunOnce`: `[]NoDoubleExecution`, if the initial job's worker does
  not die (`RunJob \notin MayCrash`; resume jobs may). Who executes an instance
  still has the row it inserted (`ExecOwned`), because the clean-up runs on the
  first attempt only, before there are rows (`FirstAttempt`). `MCStepsTwice` is
  what happens without the hypothesis.
- `WakeupsAreNotLost`: `[]NoLostWakeup`, while nobody dies (`NobodyDies`): a job
  in progress is one BullMQ holds (`JobHeld`), and every handler that resolves a
  row has a resume to enqueue until a job has seen it. That a death is made up
  for is liveness, which `MCLive` checks.
- `RunImplementsPromise`: `ImplementsPromise`, the refinement, for flows without
  callback nodes, deadline and users (`Promised`) and with any fan-outs,
  guardrails, crashes, redeliveries and orphan sweeps. There the initial job is
  alone (`Alone`), what is in progress is what it executes (`Executing`), and
  whatever it starts was let in by an edge whose outcome can no longer change
  (`SettledStart`). Each action is shown to be a step of the promise or a
  stutter. The findings `MCStepsTwice`, `MCCancel` and `MCSuccess` are the
  reason why it stops at `Promised`.

*The life of runs* (`LauncherProofs`): for every set of runs, origins and
deciders. `StartedAtMostOnce` holds because a start leaves a job that every
later enqueue finds (`StartsOnce`); `ApprovalComesFirst` because a gated run
has neither a job nor a launcher until an approval is accepted
(`QueuedIfApproved`), for which a decision in progress must have been accepted
(`DecisionAccepted`) and a worker must hold its job (`WorkerHoldsJob`);
`CancelsAreKept` follows from the same invariant.

*The scheduler* (`SchedulerProofs`). `OneRunForEachSecond`, when `LockTtl` is more
than `MaxLag`: who passed the lock, and every run launched, had the lock of the
second it read until at least `LockTtl` after that second (`LockWasTaken`); who still
asks for it read the clock at most `MaxLag` ago (`InTime`); so nobody asks after it
expired. The code's lock lasts 2 s (`scheduler.service.ts:78`), so the premise is
that a callback gets from the clock to the lock in less. It says nothing of callbacks
of one tick that read different seconds: those launch a run each, which is a finding.
`ScheduledRunsDoNotOverlap`, without any premise on the callbacks: what a callback has
counted still holds when it launches but for the runs that were created since
(`CountHolds`), because nothing but a launch makes a scheduled run active: none is
ever gated (`NeverGated`), and one that ended is not marked RUNNING again unless it
was canceled (`EndsForGood`).

*The agent loop* (`AgentLoopProofs`): for every number of attempts, resume jobs,
calls, turns and crashes. `TurnsHaveOneOwner`: the engine waits for an attempt only
while the node is RUNNING (`EngineFits`), and a resume job gets past the node's status
only when it is not (`LaterTurns`); until an attempt is abandoned, one that is at work
is the one the engine began last, the node is not suspended meanwhile, and among
themselves resume jobs are kept apart by the conditional claim (`Claimed`).
`AgentResultsAreStable` needs `EngineFits` only, and holds of abandoned attempts too.
`ResumesAreNotLost` is the deepest: `WakesUp` extends the property to the time between
the first turn's suspension and its record, when a resume finds the node RUNNING and
puts itself off, and `Waits` says that the calls the row names are nobody's to launch
again, also when attempts replace the calls others wait for. `CallsAreAnswered` needs
to know how long the conversation is at each step of a turn (`LengthFits`), since what
is appended is right only after what is there.

*The control plane* (`ControlPlaneProofs`).

- `FlowStore`: what a request that is about to write has read is in a version
  (`ReadsKept`), however requests overlap, and until a write over something else
  (`unread`) that is all that a write can lose: `PastIsInVersions`. While no two
  requests were in progress at once (`OneAtATime`), the jobs are those of the row but
  for the one request that has yet to tell the scheduler (`JobsSettled`):
  `JobsAreTheStored`.
- `RunEvents`: a stream sits in the set it remembers and in no other
  (`InItsSet`), and that is the set its run has now (`InRunsSet`):
  `EventsReachTheOpen`.
- `Accounts`: some administrator is active other than the user of any
  request that has passed the guard (`AdminSpared`), also between the deletion
  and the insertion of somebody's roles (`AdminReturns`): `SomeAdminRemains`.
  The induction failed at first at the insertion that meets a role a sign-in
  has granted meanwhile and throws: the roles that were deleted are then gone.
  TLC finds it with two roles; the model now counts it as `unguarded`.
  `LocalRolesAreKept`: a sign-in about to change roles has found no local user.
- `Settings`: whatever a tab has read or sends as a secret was typed or is
  the mask (`TypedOrMasked`): `MaskIsNeverStored`. Without overlapping saves,
  what a request has read is what is stored when it writes (`AloneReads`):
  `SecretIsKept`.
- `Notifications`: what is being sent has not been sent before and was wanted by
  the settings read, which are among those since the event; a channel all of them
  wanted is among those to send to (`NoticeKept`): `EventsAreToldAsWanted`.

*The services* (`ServicesProofs`).

- `SuccessIsItsOwnWork`: an executor answers ok only for work of its own that
  has succeeded (`AnswersAreTrue`); an executor of Kubernetes Jobs that waits,
  waits for its own, although its retries share the name (`WaitsForOwn`).
- `EveryTriggerIsConsumed`: for every enabled trigger some instance
  consumes its topic or is about to, its reload having found it or having yet
  to look (`Covers`).
- `FlowsDoNotRecur`: a run about to launch a flow has none of it among the
  ancestors the guard walks (`LaunchesAreChecked`). The ancestors are a
  recursive function; that they stay the same when a run is created is an
  induction, from the least number of a set of counterexamples (`WFMin`).

*The pages* (`WebProofs`).

- `BuilderShowsWhatIsSaved`: the view's state stands for the expression whenever
  the view is shown, in each of the views.
- `RefusalsAreExplained`: a field that may be left out is never empty and never
  malformed (`Fits`), for every type of executor, and the form's required fields are
  the schema's (`SchemaFitsForm`).
- `PageSettles`: for the sheet, and for each instance of the overlay (`WillSettle`), an event
  is on its way that will bring the row's value (`News`), or a request for
  another run is open or the last one is answered with the row as it is
  (`Coming`), or nothing is asked for and the row is shown. Events may be
  delayed and overtake each other, but tell of values the row has had
  (`EventsTrue`), and those grow. The overlay shows one instance, so the induction
  is about what it was last told of each (`latest`).
- `EditedEdgesJoin` and `EditedNodesDiffer`: every edit keeps a definition whose
  edges join its nodes and whose nodes with the same configuration have the same
  id (`Sound`), and apart from typing an id in use also ids that tell nodes apart
  (`IdsTellNodes`). The new node's number is free because there are no more ids
  than nodes (`CountedIds`), fewer than numbers to choose from (`NewIdIs`); what
  a removal keeps is an induction over the nodes (`KeptIs`).
- `StoredFlowsAreSortable`: what the server's validation lets through has no cycle.
  The black nodes of the search are nodes that lead to each other alone and that
  have no cycle (`DoneWith`); a call that finds nothing adds the nodes it is to do
  to them and leaves the gray ones as they are (`Advances`), by induction on the
  white nodes and those still to do (`Size`). The same induction shows that the
  recursive function is there at all (`VisitExists`).
- `ExecutorsAreGivenWhatIsWritten`: until a run the editor's map has, for each key,
  the text of its last row (`RowsMapped`), so that what an instance is given is
  what is written (`WrittenIs`); and each has what fits that (`InstanceFits`):
  the parameters not yet evaluated are the given ones, the prompt is filled in up
  to a place (`AtPrompt`). That a map folded from rows, or from dates, has the last
  value of each key is one induction for both (`FoldHolds`). In a prompt the next
  expression is the first text equal to it from that place on, since what was
  inserted is none of the prompt's expressions (`FillNext`).

**What the proofs changed.** Besides the case of `Accounts`: the proof of type
correctness found two cases of `AfterRead` that overlap, where TLC had taken the
first; the definition now says which one the code takes. And some proofs needed
what the code has and the modules had not said, now assumptions there: the value
for "no flow" is no body, that for "no row" is no run and no number, the global
listeners are no run's, there is a process, an API instance and a natural number
of things, there are two configurations for the two nodes a flow begins with, a
row without a key is none, a run starts with a map, and prompts and lists of
dates are sequences. Recursive operators, and filters of sequences that no prover
here can expand, became recursive functions (`Search`, `Kept`, `Expressions`), and
TLC's `@@`, of which they know nothing, operators of `Params` (`Put`, `OnTop`). The
search of `FlowValidation` was a fold inside a recursion, and is one recursion now.

**Only model-checked** is everything about liveness (`RunEnds`, `PendingEnds`,
`RunsDrain`, `MessagesHandled`, `TokenUnblocked`, `ExecutionSettles`, `AgentEnds`),
which is out of the prover's reach.

The type invariants of the modules are definitions for the reader and for
proofs; no run spends its time on them.

## Findings

What the code does and what its comments or docs say differ in these places,
with the source quoted in `PROJECT.json`. The first six are runs that TLC
refutes.

1. `MCStepsTwice` - the retry of the initial job deletes rows that a resume job
   is executing; the node runs twice.
2. `MCCancel` - a cancel between the read and the RUNNING write is lost.
3. `MCSuccess` - a callback between the last two reads of `advance` ends the
   run as SUCCESS before its successor ran.
4. `MCAcked` - a report that arrives before the row is marked waiting is
   acknowledged and dropped; the node times out.
5. `MCOrphan` - a run that a resume job is executing counts as orphaned.
6. `MCFanOut` - after a crash between two batches the rest of a fan-out is
   skipped and the run can succeed.

The others were met while the modules were written. Where a module states the
property the code does not keep, it is named; where a property leaves the
history out, that is named.

- An approval and a rejection at the same time are both applied
  (`RejectedNeverRuns`).
- Retries and the items of a fan-out share one Kubernetes Job name
  (`AttemptsRun`).
- Cron jobs of other API instances are not told of an edit (`JobsAgree`).
- A number set to zero blocks the save from a field that is no longer shown
  (`RefusalVisible`).
- A resume job that read one turn's calls may claim the next turn
  (`CallsThenResults` leaves out `stale`).
- A first turn that the node's timeout gives up goes on next to its retry and to the
  resume jobs, and all of them write the agent's row (`TurnHasOneOwner`,
  `CallsThenResults`, `AgentEnds` leave out `abandoned`).
- The tick lock is named after the second a callback runs in, not after the tick: the
  callbacks of one tick may launch a run each (`OneRunPerSecond` says what is kept).
- The overlap policy counts and launches later: what is created in between is not
  seen (`NoOverlap` leaves out `beside`).
- A tool's run that the watchdog fails does not resume its parent
  (`NoLostResume`, `AgentEnds` leave out `Silenced`).
- A prompt's value may be taken for a later expression, or for a pattern of
  `String.replace` (`GivenAsWritten` leaves out what is not `Insertable`).
- "Duplicate keys are ignored" - the later row wins.
- A webhook counter without expiry blocks its token (`TokenUnblocked` leaves out
  `unlimited`).
- The last-administrator guard keeps inactive administrators, and sign-on
  bypasses it (`AdminRemains` leaves out `unguarded`).
- A sign-in takes the roles of a user who became local after it looked
  (`LocalRolesKept` leaves out `overtaken`).
- Renaming or removing a node in the editor drops the flow's guardrails.
- Overlapping updates lose a state of the flow (`PastIsKept` leaves out `unread`),
  and versions hold four of its columns only.
- A version without a description does not restore that (`RestoreRestores`).
- A late answer of another run is shown in the sheet (`ViewSettles` leaves out
  `misled`).
- Rows that a retried job deletes stay on the page as RUNNING (also `misled`).
- The instances of a fan-out overwrite each other's status on the graph.
- The notification event `retry_exhausted` is offered and never emitted.

## What is not modelled

- Login by password, tokens and permission checks; encryption and masking of
  secrets; the lists, dashboards and dialogs of the web pages and the HTTP
  client: each decides on one request or one answer alone.
- Of `FlowRun`: database errors other than those named above, edits of the flow
  while a run is suspended, agent nodes (in `AgentLoop` instead, next to a
  one-node view of the engine), workers that outlive their lock.
- Of `Executors`: wire formats, TLS, log streaming, the backoff's length.
- Of `Params`: JSONata itself; an expression refers to a parameter or the item.
- Of `Settings`: one channel stands for all, which are merged the same way.
- Of the editor: layout, undo of text inputs, YAML import in the page.
- Output schemas, OpenAPI documents, seeds, migrations and deployment files.

## Plan

1. Proofs: `GatedByCondition` for flows where an edge leaves a fan-out, as far as it
   holds.
2. `AgentLoop` inside `FlowRun`: an agent node as one more kind of execution,
   with its resume jobs among the run's.
3. Larger instances of the parts of `MCServices` on their own: two runs next to
   each other, two messages, a retry with a fan-out for every executor.
