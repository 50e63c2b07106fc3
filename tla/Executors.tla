----------------------------- MODULE Executors ------------------------------
(***************************************************************************)
(* The execution of a node that the engine has claimed: executeWithRetry,  *)
(* its timer and the job executors it drives (HTTP, Kubernetes Jobs,       *)
(* scripts in containers, model calls), for all items of a fan-out.        *)
(* Retries, timers and the external work run side by side: nothing that    *)
(* the engine gives up is canceled by it.                                  *)
(***************************************************************************)
EXTENDS Naturals, FiniteSets

CONSTANTS
  Kinds,      \* executor types of the node: "http", "job" (k8s and spring-batch), "script", "llm"
  Items,      \* instances a node may have
  FanOut,     \* those that a node of each type has
  MaxRetries  \* retry.max

ASSUME ExecutorAssumption ==
  /\ Kinds \subseteq {"http", "job", "script", "llm"} /\ MaxRetries \in Nat
  /\ FanOut \in [Kinds -> SUBSET Items]

VARIABLES
  kind,     \* node.executor.type
  limited,  \* node.timeoutMs is set
  deferred, \* node.completion is "callback"
  tried,    \* the attempt of each instance
  stage,    \* where executeWithRetry is
  result,   \* the result of the last attempt
  rowStatus, \* NodeRun.status
  call,     \* the executor's promise, for each instance and attempt
  work,     \* the external work it has started
  named,    \* the attempt that created the Job of this node and run
  refused   \* attempts whose Job could not be created, a history

execVars == <<kind, limited, deferred, tried, stage, result, rowStatus, call, work, named, refused>>
world    == <<work, named, refused>>
fixed    == <<kind, limited, deferred>>

Attempts == Items \X (0 .. MaxRetries)
Current(i) == <<i, tried[i]>>
Answered  == {"ok", "failed"}
WorkEnded == {"succeeded", "failed", "killed"}

ExecTypeOK ==
  /\ kind \in Kinds /\ limited \in BOOLEAN /\ deferred \in BOOLEAN
  /\ tried \in [Items -> 0 .. MaxRetries]
  /\ stage \in [Items -> {"call", "sleep", "record", "over"}]
  /\ result \in [Items -> {"none"} \union Answered]
  /\ rowStatus \in [Items -> {"none", "RUNNING", "SUCCESS", "FAILED", "WAITING_CALLBACK"}]
  /\ call \in [Attempts -> {"none", "send", "wait"} \union Answered]
  /\ work \in [Attempts -> {"none", "starting", "running"} \union WorkEnded]
  /\ named \subseteq Attempts /\ Cardinality(named) <= 1
  /\ refused \subseteq Attempts

ExecInit ==
  /\ kind \in Kinds /\ limited \in BOOLEAN /\ deferred \in BOOLEAN
  /\ tried = [i \in Items |-> 0]
  /\ stage = [i \in Items |-> IF i \in FanOut[kind] THEN "call" ELSE "over"]
  /\ result = [i \in Items |-> "none"]
  /\ rowStatus = [i \in Items |-> IF i \in FanOut[kind] THEN "RUNNING" ELSE "none"]
  /\ call = [t \in Attempts |-> "none"]
  /\ work = [t \in Attempts |-> "none"]
  /\ named = {} /\ refused = {}

-----------------------------------------------------------------------------
(* ExecutionEngine.executeWithRetry *)

\* The attempt's result decides whether another one follows after a delay.
Conclude(i, r) ==
  /\ result' = [result EXCEPT ![i] = r]
  /\ stage' = [stage EXCEPT ![i] =
       IF r = "failed" /\ tried[i] < MaxRetries THEN "sleep" ELSE "record"]

\* The executor's promise settles while the engine waits for it.
Await(i) ==
  /\ stage[i] = "call" /\ call[Current(i)] \in Answered
  /\ Conclude(i, call[Current(i)])
  /\ UNCHANGED <<fixed, tried, rowStatus, call, world>>

\* withTimeout: the engine stops waiting, the executor goes on.
Expire(i) ==
  /\ limited
  /\ stage[i] = "call" /\ call[Current(i)] \in {"send", "wait"}
  /\ Conclude(i, "failed")
  /\ UNCHANGED <<fixed, tried, rowStatus, call, world>>

Retry(i) ==
  /\ stage[i] = "sleep"
  /\ tried' = [tried EXCEPT ![i] = @ + 1]
  /\ stage' = [stage EXCEPT ![i] = "call"]
  /\ UNCHANGED <<fixed, result, rowStatus, call, world>>

\* An accepted trigger of a callback node suspends it, whatever the work does.
Record(i) ==
  /\ stage[i] = "record"
  /\ rowStatus' = [rowStatus EXCEPT ![i] =
       IF result[i] = "failed" THEN "FAILED"
       ELSE IF deferred THEN "WAITING_CALLBACK" ELSE "SUCCESS"]
  /\ stage' = [stage EXCEPT ![i] = "over"]
  /\ UNCHANGED <<fixed, tried, result, call, world>>

-----------------------------------------------------------------------------
(* The executors *)

SetCall(t, c) == call' = [call EXCEPT ![t] = c]
SetWork(t, w) == work' = [work EXCEPT ![t] = w]

Prepare(i) ==
  /\ stage[i] = "call" /\ call[Current(i)] = "none"
  /\ \E c \in {"send", "failed"} : SetCall(Current(i), c)
  /\ UNCHANGED <<fixed, tried, stage, result, rowStatus, world>>

\* Params and headers are resolved; a failing expression ends the attempt.
Resolve(i) == kind # "llm" /\ Prepare(i)

\* The prompt is resolved and the provider's key looked up; without a client,
\* a key or the agent driver that tools need, nothing is sent.
ResolvePrompt(i) == kind = "llm" /\ Prepare(i)

\* The request is answered by an error, before or after it had an effect.
SendFails(t) ==
  /\ call[t] = "send"
  /\ SetCall(t, "failed")
  /\ \/ UNCHANGED <<work, named>>
     \/ kind \in {"http", "llm"} /\ SetWork(t, "running") /\ UNCHANGED named
     \/ kind = "job" /\ named = {} /\ SetWork(t, "running") /\ named' = {t}
  /\ UNCHANGED <<fixed, tried, stage, result, rowStatus, refused>>

\* Mutant: a name that is taken counts as created.
CreateOrAdopt(t) ==
  /\ call[t] = "send" /\ kind = "job"
  /\ IF named = {} THEN named' = {t} /\ SetWork(t, "running") ELSE UNCHANGED <<named, work>>
  /\ SetCall(t, "wait")
  /\ UNCHANGED <<fixed, tried, stage, result, rowStatus, refused>>

\* The Job's name is made of the node and the run alone, and is never freed.
CreateJob(t) ==
  /\ call[t] = "send" /\ kind = "job"
  /\ \/ /\ named = {}
        /\ named' = {t} /\ SetWork(t, "running") /\ SetCall(t, "wait")
        /\ UNCHANGED refused
     \/ /\ named # {}
        /\ SetCall(t, "failed")
        /\ refused' = refused \union {t}
        /\ UNCHANGED <<named, work>>
  /\ UNCHANGED <<fixed, tried, stage, result, rowStatus>>

Begin(t, w) ==
  /\ call[t] = "send"
  /\ SetWork(t, w) /\ SetCall(t, "wait")
  /\ UNCHANGED <<fixed, tried, stage, result, rowStatus, named, refused>>

SendRequest(t)    == kind = "http" /\ Begin(t, "running")
AskModel(t)       == kind = "llm" /\ Begin(t, "running")
StartContainer(t) == kind = "script" /\ Begin(t, "starting")

\* The executor settles by the end of the work it looks at.
SettleBy(t, w) ==
  /\ call[t] = "wait" /\ w \in WorkEnded
  /\ SetCall(t, IF w = "succeeded" THEN "ok" ELSE "failed")
  /\ UNCHANGED <<fixed, tried, stage, result, rowStatus, world>>

\* A Job is read by its name, whoever created it.
JobOver(t)         == kind = "job" /\ \E u \in named : SettleBy(t, work[u])
Respond(t)         == kind = "http" /\ SettleBy(t, work[t])
ModelReplies(t)    == kind = "llm" /\ SettleBy(t, work[t])
ContainerExits(t)  == kind = "script" /\ SettleBy(t, work[t])

\* The connection breaks or a poll is answered by an error.
Break(t) ==
  /\ call[t] = "wait" /\ kind # "script"
  /\ SetCall(t, "failed")
  /\ UNCHANGED <<fixed, tried, stage, result, rowStatus, world>>

Abandon(t) ==
  /\ call[t] = "wait"
  /\ SetCall(t, "failed")
  /\ UNCHANGED <<fixed, tried, stage, result, rowStatus, world>>

\* The request is aborted at its deadline; what it asked for goes on.
AbortRequest(t) == kind = "http" /\ Abandon(t)

\* Mutant: a Job is polled without a deadline.
PollJobForever(t) == FALSE /\ UNCHANGED execVars

\* The runner's own deadline ends the polling; the Job goes on.
PollJobEnds(t) == kind = "job" /\ Abandon(t)

\* The script's deadline: the container is killed by its name, which has no
\* effect on one that is still being started.
KillContainer(t) ==
  /\ call[t] = "wait" /\ kind = "script"
  /\ SetCall(t, "failed")
  /\ \/ work[t] \in {"starting", "running"} /\ SetWork(t, "killed")
     \/ work[t] # "running" /\ UNCHANGED work
  /\ UNCHANGED <<fixed, tried, stage, result, rowStatus, named, refused>>

\* The external work proceeds, or never does.
WorkProceeds(t) ==
  /\ \/ work[t] = "starting" /\ SetWork(t, "running")
     \/ work[t] = "running" /\ \E w \in {"succeeded", "failed"} : SetWork(t, w)
  /\ UNCHANGED <<fixed, tried, stage, result, rowStatus, call, named, refused>>

ExecStep(i) ==
  Await(i) \/ Expire(i) \/ Retry(i) \/ Record(i) \/ Resolve(i) \/ ResolvePrompt(i)

DriverStep(t) ==
  \/ SendRequest(t) \/ AskModel(t) \/ CreateJob(t) \/ StartContainer(t)
  \/ Respond(t) \/ ModelReplies(t) \/ JobOver(t) \/ ContainerExits(t)
  \/ AbortRequest(t) \/ PollJobEnds(t) \/ KillContainer(t)

ExecNext ==
  \/ \E i \in Items : ExecStep(i)
  \/ \E t \in Attempts : DriverStep(t) \/ SendFails(t) \/ Break(t) \/ WorkProceeds(t)

ExecSpec == ExecInit /\ [][ExecNext]_execVars

\* Timers fire and calls are carried through. Of the external work only a
\* model call ends by itself: its client has a deadline.
ExecFairness ==
  /\ \A i \in Items : WF_execVars(ExecStep(i))
  /\ \A t \in Attempts : WF_execVars(DriverStep(t))
  /\ \A t \in Attempts : WF_execVars(kind = "llm" /\ WorkProceeds(t))

-----------------------------------------------------------------------------
(* Properties *)

\* An instance is recorded as successful only on the work that its own last
\* attempt started: not on a late answer of an attempt given up before, nor
\* on the Job of another attempt or item, which has the same name.
SuccessIsOwn ==
  \A i \in Items : rowStatus[i] = "SUCCESS" => work[Current(i)] = "succeeded"

\* Once an executor was called, every instance of the node gets a result,
\* although the external work may hang: each executor has a deadline, also
\* where the node sets none.
ExecutionSettles ==
  (\E t \in Attempts : call[t] # "none") ~> (\A i \in Items : stage[i] = "over")

\* Each attempt of a Job node, the retries and the items of a fan-out
\* included, gets to run its own Job.
AttemptsRun == refused = {}
=============================================================================
