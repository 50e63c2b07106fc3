---------------------------- MODULE ServicesProofs ----------------------------
(***************************************************************************)
(* Proofs about the services around a run: the executors with their        *)
(* retries and timers, the consumers of event triggers and the launches of *)
(* sub-flows, for every number of items, retries, instances, triggers,     *)
(* flows and runs.                                                         *)
(***************************************************************************)
EXTENDS Subflows, EventTriggers, Executors, FiniteSetTheorems, WellFoundedInduction, TLAPS

-----------------------------------------------------------------------------
(* The executors *)

\* An executor answers "ok" only for work of its own that has succeeded.
AnswersAreTrue == \A t \in Attempts : call[t] = "ok" => work[t] = "succeeded"

\* An attempt that waits for a Job has created the one of that name.
WaitsForOwn == kind = "job" => \A t \in Attempts : call[t] = "wait" => named = {t}

\* What the engine has concluded, it has from its present attempt.
ResultIsLast ==
  \A i \in Items :
    /\ stage[i] = "record" => result[i] # "none"
    /\ stage[i] = "record" /\ result[i] = "ok" => call[Current(i)] = "ok"
    /\ rowStatus[i] = "SUCCESS" => stage[i] = "over" /\ call[Current(i)] = "ok"

\* An instance sleeps only before a retry it still has.
RetriesAreLeft == \A i \in Items : stage[i] = "sleep" => tried[i] < MaxRetries

ExecInv == ExecTypeOK /\ AnswersAreTrue /\ WaitsForOwn /\ ResultIsLast /\ RetriesAreLeft

LEMMA CurrentIs == ASSUME ExecTypeOK, NEW i \in Items PROVE Current(i) \in Attempts
BY DEF ExecTypeOK, Current, Attempts

LEMMA ExecInvInit == ExecInit => ExecInv
<1> SUFFICES ASSUME ExecInit PROVE ExecInv
  OBVIOUS
<1>1. ExecTypeOK
  <2>1. named = {} /\ Cardinality(named) <= 1  BY FS_EmptySet DEF ExecInit
  <2> QED  BY <2>1, ExecutorAssumption DEF ExecInit, ExecTypeOK, WorkEnded, Answered
<1>2. \A t \in Attempts : call[t] = "none"  BY DEF ExecInit
<1>3. \A i \in Items : rowStatus[i] # "SUCCESS" /\ stage[i] \notin {"record", "sleep"}
  BY DEF ExecInit
<1> QED  BY <1>1, <1>2, <1>3 DEF ExecInv, AnswersAreTrue, WaitsForOwn, ResultIsLast, RetriesAreLeft

CallTypes == {"none", "send", "wait"} \union Answered
WorkTypes == {"none", "starting", "running"} \union WorkEnded

\* A step of a driver touches the call of one attempt that is not answered
\* with success yet: what the engine has concluded keeps its ground.
LEMMA CallStep ==
  ASSUME ExecInv, NEW t \in Attempts, NEW c \in CallTypes, call[t] # "ok", SetCall(t, c),
         UNCHANGED <<kind, limited, deferred, tried, stage, result, rowStatus>>
  PROVE  /\ call' \in [Attempts -> CallTypes]
         /\ \A u \in Attempts : call'[u] = IF u = t THEN c ELSE call[u]
         /\ ResultIsLast'
<1>1. call' \in [Attempts -> CallTypes] /\ \A u \in Attempts : call'[u] = IF u = t THEN c ELSE call[u]
  BY DEF ExecInv, ExecTypeOK, SetCall, CallTypes
<1>2. \A i \in Items : Current(i) \in Attempts /\ Current(i)' = Current(i)
  BY CurrentIs DEF ExecInv, Current
<1>3. \A i \in Items : call[Current(i)] = "ok" => call'[Current(i)'] = "ok"
  BY <1>1, <1>2
<1>4. ResultIsLast'
  BY <1>3 DEF ExecInv, ResultIsLast
<1> QED  BY <1>1, <1>4

\* A step of the engine leaves the calls and the work as they are.
LEMMA EngineStep ==
  ASSUME ExecInv, NEW i \in Items, Await(i) \/ Expire(i) \/ Retry(i) \/ Record(i)
  PROVE  ExecInv'
<1> USE DEF ExecInv
<1>1. UNCHANGED <<kind, limited, deferred, call, work, named, refused>>
  BY DEF Await, Expire, Retry, Record, fixed, world
<1>2. AnswersAreTrue' /\ WaitsForOwn'
  BY <1>1 DEF AnswersAreTrue, WaitsForOwn
<1>3. CASE Await(i)
  <2>1. ExecTypeOK'  BY <1>1, <1>3 DEF Await, Conclude, ExecTypeOK, Answered
  <2>2. ResultIsLast' /\ RetriesAreLeft'
    BY <1>1, <1>3 DEF Await, Conclude, ExecTypeOK, ResultIsLast, RetriesAreLeft, Current, Answered
  <2> QED  BY <1>2, <2>1, <2>2
<1>4. CASE Expire(i)
  <2>1. ExecTypeOK'  BY <1>1, <1>4 DEF Expire, Conclude, ExecTypeOK, Answered
  <2>2. ResultIsLast' /\ RetriesAreLeft'
    BY <1>1, <1>4 DEF Expire, Conclude, ExecTypeOK, ResultIsLast, RetriesAreLeft, Current
  <2> QED  BY <1>2, <2>1, <2>2
<1>5. CASE Retry(i)
  <2>1. tried[i] + 1 \in 0 .. MaxRetries
    BY <1>5, ExecutorAssumption DEF Retry, ExecTypeOK, RetriesAreLeft
  <2>2. ExecTypeOK'  BY <1>1, <1>5, <2>1 DEF Retry, ExecTypeOK
  <2>3. ResultIsLast' /\ RetriesAreLeft'
    BY <1>1, <1>5 DEF Retry, ExecTypeOK, ResultIsLast, RetriesAreLeft, Current
  <2> QED  BY <1>2, <2>2, <2>3
<1>6. CASE Record(i)
  <2>1. ExecTypeOK'  BY <1>1, <1>6 DEF Record, ExecTypeOK
  <2>2. result[i] \in {"ok", "failed"}
    BY <1>6 DEF Record, ExecTypeOK, ResultIsLast, Answered
  <2>3. ResultIsLast' /\ RetriesAreLeft'
    BY <1>1, <1>6, <2>2 DEF Record, ExecTypeOK, ResultIsLast, RetriesAreLeft, Current
  <2> QED  BY <1>2, <2>1, <2>3
<1> QED  BY <1>3, <1>4, <1>5, <1>6

\* The work of an attempt, and the Job that bears the node's name, change in
\* a driver's step; where the attempt's call ends, it does not end in success.
LEMMA DriverKeeps ==
  ASSUME ExecInv, NEW t \in Attempts, NEW c \in CallTypes, call[t] # "ok", SetCall(t, c),
         UNCHANGED <<kind, limited, deferred, tried, stage, result, rowStatus>>,
         work' \in [Attempts -> WorkTypes], \A u \in Attempts \ {t} : work'[u] = work[u],
         c = "ok" => work'[t] = "succeeded",
         named' \subseteq Attempts, Cardinality(named') <= 1, refused' \subseteq Attempts,
         kind = "job" => /\ named' = named \/ (named = {} /\ named' = {t})
                         /\ c = "wait" => named' = {t}
  PROVE  ExecInv'
<1>1. /\ call' \in [Attempts -> CallTypes] /\ ResultIsLast'
      /\ \A u \in Attempts : call'[u] = IF u = t THEN c ELSE call[u]
  BY CallStep
<1>2. ExecTypeOK'
  BY <1>1 DEF ExecInv, ExecTypeOK, CallTypes, WorkTypes
<1>3. AnswersAreTrue'
  BY <1>1 DEF ExecInv, AnswersAreTrue
<1>4. WaitsForOwn'
  BY <1>1 DEF ExecInv, WaitsForOwn
<1>5. RetriesAreLeft'
  BY DEF ExecInv, RetriesAreLeft
<1> QED  BY <1>1, <1>2, <1>3, <1>4, <1>5 DEF ExecInv

\* The attempts' calls, driven by the executors.
LEMMA DriversStep ==
  ASSUME ExecInv, NEW t \in Attempts, DriverStep(t) \/ SendFails(t) \/ Break(t)
  PROVE  ExecInv'
<1>1. /\ call[t] \in CallTypes /\ work \in [Attempts -> WorkTypes] /\ named \subseteq Attempts
      /\ Cardinality(named) <= 1 /\ refused \subseteq Attempts
      /\ {t} \subseteq Attempts /\ Cardinality({t}) <= 1
  <2>1. /\ call \in [Attempts -> CallTypes] /\ work \in [Attempts -> WorkTypes]
        /\ named \subseteq Attempts /\ Cardinality(named) <= 1 /\ refused \subseteq Attempts
    BY DEF ExecInv, ExecTypeOK, CallTypes, WorkTypes
  <2>2. Cardinality({t}) = 1
    BY FS_Singleton
  <2> QED  BY <2>1, <2>2
<1>2. {"send", "wait", "ok", "failed"} \subseteq CallTypes
  BY DEF CallTypes, Answered
<1>3. \A w \in WorkTypes : SetWork(t, w) => /\ work' \in [Attempts -> WorkTypes]
                                          /\ \A u \in Attempts \ {t} : work'[u] = work[u]
                                          /\ work'[t] = w
  BY <1>1 DEF SetWork
<1>4. {"starting", "running", "killed"} \subseteq WorkTypes
  BY DEF WorkTypes, WorkEnded
<1>5. CASE SendFails(t)
  <2>1. /\ call[t] # "ok" /\ SetCall(t, "failed")
        /\ UNCHANGED <<kind, limited, deferred, tried, stage, result, rowStatus, refused>>
    BY <1>5 DEF SendFails, fixed
  <2>2. \/ UNCHANGED <<work, named>>
        \/ SetWork(t, "running") /\ UNCHANGED named
        \/ SetWork(t, "running") /\ named = {} /\ named' = {t}
    BY <1>5 DEF SendFails
  <2>3. work' \in [Attempts -> WorkTypes] /\ \A u \in Attempts \ {t} : work'[u] = work[u]
    BY <2>2, <1>1, <1>3, <1>4
  <2> QED  BY <2>1, <2>2, <2>3, <1>1, <1>2, DriverKeeps
<1>6. CASE CreateJob(t)
  <2>1. /\ call[t] # "ok" /\ UNCHANGED <<kind, limited, deferred, tried, stage, result, rowStatus>>
    BY <1>6 DEF CreateJob, fixed
  <2>2. CASE /\ named = {} /\ named' = {t} /\ SetWork(t, "running") /\ SetCall(t, "wait")
             /\ UNCHANGED refused
    BY <2>1, <2>2, <1>1, <1>2, <1>3, <1>4, DriverKeeps
  <2>3. CASE /\ SetCall(t, "failed") /\ refused' = refused \union {t} /\ UNCHANGED <<named, work>>
    BY <2>1, <2>3, <1>1, <1>2, DriverKeeps
  <2> QED  BY <1>6, <2>2, <2>3 DEF CreateJob
<1>7. CASE SendRequest(t) \/ AskModel(t) \/ StartContainer(t)
  <2>1. PICK w \in {"starting", "running"} : kind # "job" /\ Begin(t, w)
    BY <1>7 DEF SendRequest, AskModel, StartContainer
  <2>2. /\ call[t] # "ok" /\ SetCall(t, "wait") /\ SetWork(t, w)
        /\ UNCHANGED <<kind, limited, deferred, tried, stage, result, rowStatus, named, refused>>
    BY <2>1 DEF Begin, fixed
  <2> QED  BY <2>1, <2>2, <1>1, <1>2, <1>3, <1>4, DriverKeeps
<1>8. CASE Respond(t) \/ ModelReplies(t) \/ ContainerExits(t) \/ JobOver(t)
  <2>1. SettleBy(t, work[t])
    <3>1. ASSUME JobOver(t) PROVE SettleBy(t, work[t])
      <4>1. PICK u \in named : kind = "job" /\ SettleBy(t, work[u])  BY <3>1 DEF JobOver
      <4>2. named = {t}  BY <4>1 DEF SettleBy, ExecInv, WaitsForOwn
      <4> QED  BY <4>1, <4>2
    <3> QED  BY <1>8, <3>1 DEF Respond, ModelReplies, ContainerExits
  <2> DEFINE c == IF work[t] = "succeeded" THEN "ok" ELSE "failed"
  <2>2. /\ call[t] = "wait" /\ SetCall(t, c)
        /\ UNCHANGED <<kind, limited, deferred, tried, stage, result, rowStatus, work, named, refused>>
    BY <2>1 DEF SettleBy, fixed, world
  <2>3. c \in CallTypes /\ c # "wait" /\ (c = "ok" => work[t] = "succeeded")
    BY <1>2
  <2> HIDE DEF c
  <2> QED  BY <2>2, <2>3, <1>1, DriverKeeps
<1>9. CASE Break(t) \/ AbortRequest(t) \/ PollJobEnds(t)
  <2>1. /\ call[t] # "ok" /\ SetCall(t, "failed")
        /\ UNCHANGED <<kind, limited, deferred, tried, stage, result, rowStatus, work, named, refused>>
    BY <1>9 DEF Break, AbortRequest, PollJobEnds, Abandon, fixed, world
  <2> QED  BY <2>1, <1>1, <1>2, DriverKeeps
<1>10. CASE KillContainer(t)
  <2>1. /\ call[t] # "ok" /\ SetCall(t, "failed")
        /\ UNCHANGED <<kind, limited, deferred, tried, stage, result, rowStatus, named, refused>>
        /\ SetWork(t, "killed") \/ UNCHANGED work
    BY <1>10 DEF KillContainer, fixed
  <2>2. work' \in [Attempts -> WorkTypes] /\ \A u \in Attempts \ {t} : work'[u] = work[u]
    BY <2>1, <1>1, <1>3, <1>4
  <2> QED  BY <2>1, <2>2, <1>1, <1>2, DriverKeeps
<1> QED  BY <1>5, <1>6, <1>7, <1>8, <1>9, <1>10 DEF DriverStep

LEMMA ExecInvStep == ExecInv /\ [ExecNext]_execVars => ExecInv'
<1> SUFFICES ASSUME ExecInv, [ExecNext]_execVars PROVE ExecInv'
  OBVIOUS
<1>1. CASE UNCHANGED execVars
  BY <1>1 DEF execVars, ExecInv, ExecTypeOK, AnswersAreTrue, WaitsForOwn, ResultIsLast, RetriesAreLeft, Current
<1>2. ASSUME NEW i \in Items, ExecStep(i) PROVE ExecInv'
  <2>1. CASE Resolve(i) \/ ResolvePrompt(i)
    <3>1. PICK c \in {"send", "failed"} :
            /\ call[Current(i)] = "none" /\ SetCall(Current(i), c)
            /\ UNCHANGED <<kind, limited, deferred, tried, stage, result, rowStatus, work, named, refused>>
      BY <2>1 DEF Resolve, ResolvePrompt, Prepare, fixed, world
    <3>2. /\ c \in CallTypes /\ work \in [Attempts -> WorkTypes] /\ named \subseteq Attempts
          /\ Cardinality(named) <= 1 /\ refused \subseteq Attempts
      BY DEF CallTypes, Answered, WorkTypes, ExecInv, ExecTypeOK
    <3> QED  BY <3>1, <3>2, DriverKeeps, CurrentIs DEF ExecInv
  <2> QED  BY <1>2, <2>1, EngineStep DEF ExecStep
<1>3. ASSUME NEW t \in Attempts, WorkProceeds(t) PROVE ExecInv'
  <2>1. /\ UNCHANGED <<kind, limited, deferred, tried, stage, result, rowStatus, call, named, refused>>
        /\ \E w \in {"running", "succeeded", "failed"} : SetWork(t, w)
        /\ work[t] # "succeeded"
    BY <1>3 DEF WorkProceeds, fixed
  <2>2. ExecTypeOK'
    BY <2>1 DEF ExecInv, ExecTypeOK, SetWork, WorkEnded
  <2>3. AnswersAreTrue'
    BY <2>1 DEF ExecInv, ExecTypeOK, AnswersAreTrue, SetWork
  <2>4. WaitsForOwn' /\ ResultIsLast' /\ RetriesAreLeft'
    BY <2>1 DEF ExecInv, WaitsForOwn, ResultIsLast, RetriesAreLeft, Current
  <2> QED  BY <2>2, <2>3, <2>4 DEF ExecInv
<1> QED  BY <1>1, <1>2, <1>3, DriversStep DEF ExecNext

\* An instance is recorded as successful only on the work that its own last
\* attempt started, for every number of items and retries: neither a late
\* answer to an attempt given up before nor the Job of another attempt, which
\* bears the same name, can make it succeed.
THEOREM SuccessIsItsOwnWork == ExecSpec => []SuccessIsOwn
<1>1. ExecInv => SuccessIsOwn
  BY CurrentIs DEF ExecInv, AnswersAreTrue, ResultIsLast, SuccessIsOwn
<1> QED  BY <1>1, ExecInvInit, ExecInvStep, PTL DEF ExecSpec

-----------------------------------------------------------------------------
(* The consumers of event triggers *)

TriggerTypes ==
  /\ reload \in [Reloads -> {"new", "idle", "find", "start", "quit", "group"}]
  /\ server \in [Reloads -> Servers] /\ \A i \in Servers : server[i] = i
  /\ enabled \subseteq Triggers /\ found \in [Reloads -> SUBSET Topics]
  /\ conn \in [Servers -> {"none", "open", "quit"}] /\ topics \in [Servers -> SUBSET Topics]
  /\ running \in [Servers -> BOOLEAN] /\ loop \in [Servers -> BOOLEAN]

OneReload == \A i \in Servers : \A p, q \in UnderWay(i) : p = q

\* A reload that has only the groups to create serves the topics it has found.
GroupIsServed ==
  \A p \in Reloads :
    reload[p] = "group" => conn[server[p]] = "open" /\ topics[server[p]] = found[p]

\* Instance i consumes the trigger's topic or is about to: its reload has yet
\* to look the triggers up, or has found that topic.
Covers(i, t) ==
  \/ \E p \in UnderWay(i) : reload[p] = "find" \/ TopicOf[t] \in found[p]
  \/ UnderWay(i) = {} /\ TopicOf[t] \in Consumed(i)

AllCovered == \A t \in enabled : \E i \in Servers : Covers(i, t)

EventInv == TriggerTypes /\ (~overlapped => OneReload /\ GroupIsServed /\ AllCovered)

LEMMA EventInvInit == EventInit => EventInv
<1> SUFFICES ASSUME EventInit PROVE EventInv
  OBVIOUS
<1>1. (CHOOSE i \in Servers : TRUE) \in Servers
  BY EventAssumption
<1>2. /\ reload \in [Reloads -> {"new", "idle", "find", "start", "quit", "group"}]
      /\ server \in [Reloads -> Servers] /\ \A i \in Servers : server[i] = i
      /\ enabled \subseteq Triggers /\ found \in [Reloads -> SUBSET Topics]
      /\ conn \in [Servers -> {"none", "open", "quit"}] /\ topics \in [Servers -> SUBSET Topics]
  BY <1>1 DEF EventInit, Reloads
<1>3. running \in [Servers -> BOOLEAN] /\ loop \in [Servers -> BOOLEAN]
  BY Zenon DEF EventInit
<1>4. \A i \in Servers : UnderWay(i) = {i}
  BY DEF EventInit, UnderWay, Reloads
<1>5. OneReload /\ GroupIsServed /\ AllCovered
  BY <1>4 DEF EventInit, OneReload, GroupIsServed, AllCovered
<1> QED  BY <1>2, <1>3, <1>5 DEF EventInv, TriggerTypes

LEMMA TriggerTypesStep == TriggerTypes /\ [EventNext]_evVars => TriggerTypes'
<1> SUFFICES ASSUME TriggerTypes, [EventNext]_evVars PROVE TriggerTypes'
  OBVIOUS
<1>1. CASE UNCHANGED evVars
  BY <1>1 DEF evVars, adapterVars, messageVars, TriggerTypes
<1>2. ASSUME NEW p \in Edits, NEW i \in Servers, NEW t \in Triggers, Edit(p, i, t) PROVE TriggerTypes'
  <2>1. p \in Reloads /\ p \notin Servers  BY EventAssumption DEF Reloads
  <2>2. enabled' \subseteq Triggers  BY <1>2 DEF Edit, TriggerTypes
  <2> QED  BY <1>2, <2>1, <2>2 DEF Edit, TriggerTypes, adapterVars
<1>3. ASSUME NEW p \in Reloads, FindTriggers(p) PROVE TriggerTypes'
  <2>1. {TopicOf[t] : t \in enabled} \in SUBSET Topics  BY DEF TriggerTypes, Topics
  <2> QED  BY <1>3, <2>1 DEF FindTriggers, TriggerTypes, adapterVars
<1>4. ASSUME NEW p \in Reloads, BeginStop(p) PROVE TriggerTypes'
  <2>1. running' \in [Servers -> BOOLEAN]  BY <1>4, Zenon DEF BeginStop, TriggerTypes
  <2> QED  BY <1>4, <2>1 DEF BeginStop, TriggerTypes
<1>5. ASSUME NEW p \in Reloads, SetTopics(p) PROVE TriggerTypes'
  <2>1. server[p] \in Servers /\ found[p] \in SUBSET Topics  BY DEF TriggerTypes
  <2>2. loop' \in [Servers -> BOOLEAN]
    <3>1. (loop[server[p]] /\ running[server[p]]) \in BOOLEAN  OBVIOUS
    <3> QED  BY <1>5, <3>1, Zenon DEF SetTopics, TriggerTypes
  <2>3. /\ topics' = [topics EXCEPT ![server[p]] = found[p]]
        /\ \E c \in {"none", "open", conn[server[p]]} : conn' = [conn EXCEPT ![server[p]] = c]
        /\ \E s \in {"idle", "group"} : reload' = [reload EXCEPT ![p] = s]
        /\ UNCHANGED <<server, found, running, enabled>>
    BY <1>5, <2>1 DEF SetTopics
  <2> QED  BY <2>1, <2>2, <2>3 DEF TriggerTypes
<1>6. ASSUME NEW p \in Reloads, Subscribe(p) PROVE TriggerTypes'
  <2>1. running' \in [Servers -> BOOLEAN] /\ loop' \in [Servers -> BOOLEAN]
    <3>1. (loop[server[p]] \/ conn[server[p]] = "open") \in BOOLEAN  OBVIOUS
    <3> QED  BY <1>6, <3>1, Zenon DEF Subscribe, TriggerTypes
  <2> QED  BY <1>6, <2>1 DEF Subscribe, TriggerTypes
<1>7. ASSUME NEW m \in Messages, Publish(m) \/ MessageStep(m) PROVE TriggerTypes'
  BY <1>7 DEF Publish, MessageStep, ReadMessage, Handle, LaunchNext, adapterVars, TriggerTypes
<1>8. ASSUME NEW i \in Servers, Kill(i) PROVE TriggerTypes'
  <2>1. running' \in [Servers -> BOOLEAN] /\ loop' \in [Servers -> BOOLEAN]
    BY <1>8, Zenon DEF Kill, TriggerTypes
  <2>2. reload' \in [Reloads -> {"new", "idle", "find", "start", "quit", "group"}]
    BY <1>8 DEF Kill, TriggerTypes
  <2> QED  BY <1>8, <2>1, <2>2 DEF Kill, TriggerTypes
<1> QED  BY <1>1, <1>2, <1>3, <1>4, <1>5, <1>6, <1>7, <1>8 DEF EventNext, ReloadStep

LEMMA EventInvStep == EventInv /\ [EventNext]_evVars => EventInv'
<1> SUFFICES ASSUME EventInv, [EventNext]_evVars PROVE EventInv'
  OBVIOUS
<1>1. TriggerTypes /\ TriggerTypes'
  BY TriggerTypesStep DEF EventInv
<1> SUFFICES ASSUME ~overlapped' PROVE OneReload' /\ GroupIsServed' /\ AllCovered'
  BY <1>1 DEF EventInv
<1>2. ~overlapped
  BY DEF EventNext, evVars, Edit, ReloadStep, FindTriggers, BeginStop, SetTopics, Subscribe,
         Publish, MessageStep, ReadMessage, Handle, LaunchNext, Kill
<1>3. OneReload /\ GroupIsServed /\ AllCovered
  BY <1>2 DEF EventInv
<1>4. CASE UNCHANGED <<enabled, reload, server, found, conn, running, topics, loop>>
  BY <1>3, <1>4 DEF OneReload, GroupIsServed, AllCovered, Covers, UnderWay, Consumed
<1>5. ASSUME NEW p \in Edits, NEW i \in Servers, NEW t \in Triggers, Edit(p, i, t)
      PROVE  OneReload' /\ GroupIsServed' /\ AllCovered'
  <2>1. p \in Reloads  BY DEF Reloads
  <2>2. UnderWay(i) = {} /\ reload[p] = "new"  BY <1>5 DEF Edit
  <2>3. /\ reload' = [reload EXCEPT ![p] = "find"] /\ server' = [server EXCEPT ![p] = i]
        /\ UNCHANGED <<found, conn, topics>>
    BY <1>5 DEF Edit, adapterVars
  <2>4. OneReload'
    BY <1>1, <1>3, <2>1, <2>2, <2>3 DEF OneReload, UnderWay, TriggerTypes
  <2>5. GroupIsServed'
    BY <1>1, <1>3, <2>1, <2>3 DEF GroupIsServed, TriggerTypes
  <2>6. server'[p] = i /\ reload'[p] = "find"
    BY <1>1, <2>1, <2>3 DEF TriggerTypes
  <2>7. AllCovered'
    BY <2>1, <2>6 DEF AllCovered, Covers, UnderWay
  <2> QED  BY <2>4, <2>5, <2>7
<1>6. ASSUME NEW p \in Reloads, FindTriggers(p)
      PROVE  OneReload' /\ GroupIsServed' /\ AllCovered'
  <2>1. /\ reload[p] = "find" /\ reload' = [reload EXCEPT ![p] = "start"]
        /\ found' = [found EXCEPT ![p] = {TopicOf[t] : t \in enabled}]
        /\ UNCHANGED <<enabled, server, conn, topics>>
    BY <1>6 DEF FindTriggers, adapterVars
  <2>2. OneReload'
    BY <1>1, <1>3, <2>1 DEF OneReload, UnderWay, TriggerTypes
  <2>3. GroupIsServed'
    BY <1>1, <1>3, <2>1 DEF GroupIsServed, TriggerTypes
  <2>4. \E i \in Servers : p \in UnderWay(i)'
    BY <1>1, <2>1 DEF UnderWay, TriggerTypes
  <2>5. \A t \in enabled' : TopicOf[t] \in found'[p]
    BY <1>1, <2>1 DEF TriggerTypes
  <2>6. AllCovered'
    BY <2>4, <2>5 DEF AllCovered, Covers
  <2> QED  BY <2>2, <2>3, <2>6
<1>7. ASSUME NEW p \in Reloads, BeginStop(p)
      PROVE  OneReload' /\ GroupIsServed' /\ AllCovered'
  <2> DEFINE i == server[p]
  <2>1. /\ reload[p] = "start" /\ reload' = [reload EXCEPT ![p] = "quit"]
        /\ running' = [running EXCEPT ![i] = FALSE]
        /\ conn' = [conn EXCEPT ![i] = IF @ = "none" THEN @ ELSE "quit"]
        /\ UNCHANGED <<enabled, server, found, topics, loop>>
    BY <1>7 DEF BeginStop
  <2>2. i \in Servers /\ p \in UnderWay(i)
    BY <1>1, <2>1 DEF UnderWay, TriggerTypes
  <2>3. \A j \in Servers : UnderWay(j)' = UnderWay(j)
    BY <1>1, <2>1 DEF UnderWay, TriggerTypes
  <2>4. OneReload'
    BY <1>3, <2>3 DEF OneReload
  <2>5. GroupIsServed'
    <3>1. ASSUME NEW q \in Reloads, reload'[q] = "group"
          PROVE  conn'[server'[q]] = "open" /\ topics'[server'[q]] = found'[q]
      <4>1. q # p /\ reload[q] = "group" /\ server[q] \in Servers
        BY <1>1, <2>1, <3>1 DEF TriggerTypes
      <4>2. server[q] # i
        BY <4>1, <2>2, <1>3 DEF OneReload, UnderWay
      <4> QED  BY <4>1, <4>2, <1>1, <1>3, <2>1 DEF GroupIsServed, TriggerTypes
    <3> QED  BY <3>1 DEF GroupIsServed
  <2>6. AllCovered'
    <3>1. ASSUME NEW j \in Servers, NEW t \in enabled, Covers(j, t) PROVE Covers(j, t)'
      <4>1. CASE \E q \in UnderWay(j) : reload[q] = "find" \/ TopicOf[t] \in found[q]
        <5>1. PICK q \in UnderWay(j) : reload[q] = "find" \/ TopicOf[t] \in found[q]
          BY <4>1
        <5>2. reload'[q] = "find" \/ TopicOf[t] \in found'[q]
          BY <5>1, <1>1, <2>1 DEF TriggerTypes, UnderWay
        <5> QED  BY <5>1, <5>2, <2>3 DEF Covers
      <4>2. CASE UnderWay(j) = {} /\ TopicOf[t] \in Consumed(j)
        <5>1. j # i  BY <4>2, <2>2
        <5>2. Consumed(j)' = Consumed(j)
          BY <5>1, <2>1, <2>2, <1>1 DEF Consumed, TriggerTypes
        <5> QED  BY <4>2, <5>2, <2>3 DEF Covers
      <4> QED  BY <3>1, <4>1, <4>2 DEF Covers
    <3> QED  BY <3>1, <1>3, <2>1 DEF AllCovered
  <2> QED  BY <2>4, <2>5, <2>6
<1>8. ASSUME NEW p \in Reloads, SetTopics(p)
      PROVE  OneReload' /\ GroupIsServed' /\ AllCovered'
  <2> DEFINE i == server[p]
  <2>1. /\ reload[p] = "quit" /\ topics' = [topics EXCEPT ![i] = found[p]]
        /\ loop' = [loop EXCEPT ![i] = @ /\ running[i]]
        /\ UNCHANGED <<enabled, server, found, running>>
    BY <1>8 DEF SetTopics
  <2>2. \/ /\ found[p] = {} /\ reload' = [reload EXCEPT ![p] = "idle"]
           /\ \A j \in Servers \ {i} : conn'[j] = conn[j]
        \/ /\ found[p] # {} /\ reload' = [reload EXCEPT ![p] = "group"]
           /\ conn' = [conn EXCEPT ![i] = "open"]
    BY <1>8, <1>1 DEF SetTopics, TriggerTypes
  <2>3. i \in Servers /\ p \in UnderWay(i) /\ p \in Reloads
    BY <1>1, <2>1 DEF UnderWay, TriggerTypes
  <2>4. \A j \in Servers : UnderWay(j)' \subseteq UnderWay(j)
    BY <1>1, <2>1, <2>2 DEF UnderWay, TriggerTypes
  <2>5. \A j \in Servers \ {i} : UnderWay(j)' = UnderWay(j)
    BY <1>1, <2>1, <2>2 DEF UnderWay, TriggerTypes
  <2>6. OneReload'
    BY <1>3, <2>4 DEF OneReload
  <2>7. GroupIsServed'
    <3>1. ASSUME NEW q \in Reloads, reload'[q] = "group", q # p
          PROVE  conn'[server'[q]] = "open" /\ topics'[server'[q]] = found'[q]
      <4>1. reload[q] = "group" /\ server[q] \in Servers
        BY <1>1, <2>2, <3>1 DEF TriggerTypes
      <4>2. server[q] # i
        BY <4>1, <3>1, <2>3, <1>3 DEF OneReload, UnderWay
      <4>3. conn'[server[q]] = conn[server[q]]
        BY <4>1, <4>2, <1>1, <2>2, <2>3 DEF TriggerTypes
      <4> QED  BY <4>1, <4>2, <4>3, <1>1, <1>3, <2>1, <2>3 DEF GroupIsServed, TriggerTypes
    <3>2. ASSUME reload'[p] = "group" PROVE conn'[server'[p]] = "open" /\ topics'[server'[p]] = found'[p]
      BY <3>2, <1>1, <2>1, <2>2, <2>3 DEF TriggerTypes
    <3> QED  BY <3>1, <3>2 DEF GroupIsServed
  <2>8. AllCovered'
    <3>1. ASSUME NEW t \in enabled, NEW j \in Servers, Covers(j, t) PROVE Covers(j, t)'
      <4>1. CASE j # i
        <5>1. /\ UnderWay(j)' = UnderWay(j) /\ \A q \in UnderWay(j) : q # p /\ q \in Reloads
          BY <2>5, <4>1 DEF UnderWay
        <5>2. \A q \in UnderWay(j) : reload'[q] = reload[q] /\ found'[q] = found[q]
          BY <5>1, <1>1, <2>1, <2>2 DEF TriggerTypes
        <5>3. Consumed(j)' = Consumed(j)
          BY <4>1, <1>1, <2>1, <2>3 DEF Consumed, TriggerTypes
        <5> QED  BY <3>1, <5>1, <5>2, <5>3 DEF Covers
      <4>2. CASE j = i
        <5>1. TopicOf[t] \in found[p]
          BY <3>1, <4>2, <1>3, <2>1, <2>3 DEF Covers, OneReload
        <5>2. reload' = [reload EXCEPT ![p] = "group"]
          BY <5>1, <2>2
        <5>3. p \in UnderWay(i)'
          BY <5>2, <1>1, <2>1, <2>3 DEF UnderWay, TriggerTypes
        <5> QED  BY <4>2, <5>1, <5>3, <2>1 DEF Covers
      <4> QED  BY <4>1, <4>2
    <3> QED  BY <3>1, <1>3, <2>1 DEF AllCovered
  <2> QED  BY <2>6, <2>7, <2>8
<1>9. ASSUME NEW p \in Reloads, Subscribe(p)
      PROVE  OneReload' /\ GroupIsServed' /\ AllCovered'
  <2> DEFINE i == server[p]
  <2>1. /\ reload[p] = "group" /\ reload' = [reload EXCEPT ![p] = "idle"]
        /\ found' = [found EXCEPT ![p] = {}]
        /\ UNCHANGED <<enabled, server, conn, topics>>
    BY <1>9 DEF Subscribe
  <2>2. i \in Servers /\ p \in UnderWay(i) /\ p \in Reloads /\ conn[i] = "open" /\ topics[i] = found[p]
    BY <1>1, <1>3, <2>1 DEF UnderWay, TriggerTypes, GroupIsServed
  <2>3. running' = [running EXCEPT ![i] = TRUE] /\ loop' = [loop EXCEPT ![i] = @ \/ conn[i] = "open"]
    BY <1>9, <2>2 DEF Subscribe
  <2>4. UnderWay(i)' = {} /\ \A j \in Servers \ {i} : UnderWay(j)' = UnderWay(j)
    <3>1. \A q \in Reloads : server[q] = i /\ q # p => reload[q] \in {"new", "idle"}
      BY <1>3, <2>2 DEF OneReload, UnderWay
    <3>2. /\ reload'[p] = "idle" /\ server' = server
          /\ \A q \in Reloads : q # p => reload'[q] = reload[q]
      BY <1>1, <2>1 DEF TriggerTypes
    <3>3. UnderWay(i)' = {}
      BY <3>1, <3>2, <2>2 DEF UnderWay
    <3>4. \A j \in Servers \ {i} : UnderWay(j)' = UnderWay(j)
      BY <3>2, <2>2 DEF UnderWay
    <3> QED  BY <3>3, <3>4
  <2>5. OneReload'
    BY <1>3, <2>1, <2>4 DEF OneReload, UnderWay
  <2>6. GroupIsServed'
    BY <1>1, <1>3, <2>1 DEF GroupIsServed, TriggerTypes
  <2>7. AllCovered'
    <3>1. ASSUME NEW t \in enabled, NEW j \in Servers, Covers(j, t) PROVE Covers(j, t)'
      <4>1. CASE j # i
        <5>1. /\ UnderWay(j)' = UnderWay(j) /\ \A q \in UnderWay(j) : q # p /\ q \in Reloads
          BY <2>4, <4>1 DEF UnderWay
        <5>2. \A q \in UnderWay(j) : reload'[q] = reload[q] /\ found'[q] = found[q]
          BY <5>1, <1>1, <2>1 DEF TriggerTypes
        <5>3. Consumed(j)' = Consumed(j)
          BY <4>1, <1>1, <2>1, <2>2, <2>3 DEF Consumed, TriggerTypes
        <5> QED  BY <3>1, <5>1, <5>2, <5>3 DEF Covers
      <4>2. CASE j = i
        <5>1. TopicOf[t] \in found[p]
          BY <3>1, <4>2, <1>3, <2>1, <2>2 DEF Covers, OneReload
        <5>2. running'[i] /\ loop'[i]
          BY <1>1, <2>2, <2>3 DEF TriggerTypes
        <5>3. TopicOf[t] \in Consumed(i)'
          BY <5>1, <5>2, <2>1, <2>2 DEF Consumed
        <5> QED  BY <4>2, <5>3, <2>4, <2>1 DEF Covers
      <4> QED  BY <4>1, <4>2
    <3> QED  BY <3>1, <1>3, <2>1 DEF AllCovered
  <2> QED  BY <2>5, <2>6, <2>7
<1>10. ASSUME NEW i \in Servers, Kill(i)
      PROVE  OneReload' /\ GroupIsServed' /\ AllCovered'
  <2>1. /\ reload' = [p \in Reloads |-> CASE p = i -> "find"
                                         [] p \in UnderWay(i) \ {i} -> "idle"
                                         [] OTHER -> reload[p]]
        /\ conn' = [conn EXCEPT ![i] = "none"] /\ topics' = [topics EXCEPT ![i] = {}]
        /\ found' = [p \in Reloads |-> IF server[p] = i THEN {} ELSE found[p]]
        /\ UNCHANGED server
    BY <1>10 DEF Kill
  <2>2. i \in Reloads /\ server[i] = i /\ \A j \in Servers : j \in Reloads
    BY <1>1 DEF TriggerTypes, Reloads
  <2>3. \A q \in Reloads :
          /\ q = i => reload'[q] = "find"
          /\ q # i /\ server[q] = i => reload'[q] \in {"new", "idle"}
          /\ server[q] # i => reload'[q] = reload[q]
    BY <2>1, <2>2 DEF UnderWay
  <2>4. UnderWay(i)' = {i} /\ \A j \in Servers \ {i} : UnderWay(j)' = UnderWay(j)
    BY <2>1, <2>2, <2>3 DEF UnderWay
  <2>5. OneReload'
    BY <1>3, <2>4 DEF OneReload
  <2>6. GroupIsServed'
    <3>1. ASSUME NEW q \in Reloads, reload'[q] = "group"
          PROVE  conn'[server'[q]] = "open" /\ topics'[server'[q]] = found'[q]
      <4>1. server[q] # i /\ reload[q] = "group"  BY <2>3, <3>1
      <4> QED  BY <4>1, <1>1, <1>3, <2>1 DEF GroupIsServed, TriggerTypes
    <3> QED  BY <3>1 DEF GroupIsServed
  <2>7. server'[i] = i /\ reload'[i] = "find"
    BY <2>1, <2>2, <2>3
  <2>8. AllCovered'
    BY <2>2, <2>7 DEF AllCovered, Covers, UnderWay
  <2> QED  BY <2>5, <2>6, <2>8
<1>11. ASSUME NEW m \in Messages, Publish(m) \/ MessageStep(m)
       PROVE  UNCHANGED <<enabled, reload, server, found, conn, running, topics, loop>>
  BY <1>11 DEF Publish, MessageStep, ReadMessage, Handle, LaunchNext, adapterVars
<1>12. ASSUME UNCHANGED evVars
       PROVE  UNCHANGED <<enabled, reload, server, found, conn, running, topics, loop>>
  BY <1>12 DEF evVars
<1> QED
  BY <1>4, <1>5, <1>6, <1>7, <1>8, <1>9, <1>10, <1>11, <1>12 DEF EventNext, ReloadStep

\* With no reload under way every trigger's topic is consumed by an instance,
\* for every number of API instances, triggers, edits and crashes, as long as
\* no two reloads of an instance overlapped.
THEOREM EveryTriggerIsConsumed == EventSpec => []TriggersConsumed
<1>1. EventInv => TriggersConsumed
  BY DEF EventInv, AllCovered, Covers, TriggersConsumed
<1> QED  BY <1>1, EventInvInit, EventInvStep, PTL DEF EventSpec

-----------------------------------------------------------------------------
(* Sub-flows: the ancestors of a run *)

\* Induction over the natural numbers, for a set instead of a predicate.
LEMMA Induction ==
  ASSUME NEW S \in SUBSET Nat, 0 \in S, \A n \in S : n + 1 \in S
  PROVE  S = Nat
<1>1. PICK R : IsWellFoundedOn(R, Nat) /\ \A i, j \in Nat : i < j => <<i, j>> \in R
  BY NatLessThanWellFounded DEF OpToRel
<1> SUFFICES ASSUME Nat \ S # {} PROVE FALSE
  OBVIOUS
<1>2. \E m \in Nat \ S : \A n \in Nat \ S : ~ (<<n, m>> \in R)
  <2>1. IsWellFoundedOn(R, Nat) /\ Nat \ S \subseteq Nat  BY <1>1
  <2> QED  BY <2>1, WFMin
<1>3. PICK m \in Nat \ S : \A n \in Nat \ S : ~ (<<n, m>> \in R)
  BY <1>2
<1>4. m - 1 \in Nat /\ m - 1 < m  OBVIOUS
<1>5. m - 1 \in S  BY <1>1, <1>3, <1>4
<1> QED  BY <1>4, <1>5

\* The walk from r upwards along any parents.
IsWalk(up, par, r, n) ==
  up = [k \in 0 .. n |-> IF k = 0 THEN r
                         ELSE IF up[k - 1] = NoRun THEN NoRun ELSE par[up[k - 1]]]

Walk(par, r, n) == CHOOSE up : IsWalk(up, par, r, n)

Up(par, r, n) == Walk(par, r, n)[n]

LEMMA AboveIsUp == ASSUME NEW r, NEW n \in Nat PROVE Above(r, n) = Up(parent, r, n)
BY DEF Above, Up, Walk, IsWalk

LEMMA WalkExists == ASSUME NEW par, NEW r PROVE \A n \in Nat : IsWalk(Walk(par, r, n), par, r, n)
<1> DEFINE S == {n \in Nat : \E up : IsWalk(up, par, r, n)}
<1>1. 0 \in S
  <2>1. IsWalk([k \in 0 .. 0 |-> r], par, r, 0)  BY DEF IsWalk
  <2> QED  BY <2>1
<1>2. ASSUME NEW n \in S PROVE n + 1 \in S
  <2>1. PICK up : IsWalk(up, par, r, n)  OBVIOUS
  <2> DEFINE next == IF up[n] = NoRun THEN NoRun ELSE par[up[n]]
             longer == [k \in 0 .. n + 1 |-> IF k = n + 1 THEN next ELSE up[k]]
  <2>2. ASSUME NEW k \in 0 .. n + 1
        PROVE  longer[k] = IF k = 0 THEN r
                           ELSE IF longer[k - 1] = NoRun THEN NoRun ELSE par[longer[k - 1]]
    <3>1. CASE k = n + 1  BY <3>1
    <3>2. CASE k # n + 1
      <4>1. k \in 0 .. n /\ longer[k] = up[k]  BY <3>2
      <4>2. k # 0 => longer[k - 1] = up[k - 1]  BY <3>2
      <4>3. up[k] = IF k = 0 THEN r ELSE IF up[k - 1] = NoRun THEN NoRun ELSE par[up[k - 1]]
        BY <2>1, <4>1 DEF IsWalk
      <4> QED  BY <4>1, <4>2, <4>3
    <3> QED  BY <3>1, <3>2
  <2>3. IsWalk(longer, par, r, n + 1)  BY <2>2 DEF IsWalk
  <2> QED  BY <2>3
<1> HIDE DEF S
<1>3. S \in SUBSET Nat  BY DEF S
<1>4. S = Nat  BY <1>1, <1>2, <1>3, Induction
<1> QED  BY <1>4 DEF S, Walk

LEMMA WalksAgree ==
  ASSUME NEW par, NEW r, NEW n \in Nat
  PROVE  \A k \in Nat : k <= n => Walk(par, r, n + 1)[k] = Walk(par, r, n)[k]
<1> DEFINE f == Walk(par, r, n)
           g == Walk(par, r, n + 1)
           S == {k \in Nat : k <= n => g[k] = f[k]}
<1>1. IsWalk(f, par, r, n) /\ IsWalk(g, par, r, n + 1)
  BY WalkExists
<1> HIDE DEF f, g
<1>2. 0 \in S
  BY <1>1 DEF IsWalk
<1>3. ASSUME NEW k \in S PROVE k + 1 \in S
  <2>1. CASE k + 1 <= n
    <3>1. k \in 0 .. n /\ k + 1 \in 0 .. n /\ k + 1 \in 0 .. n + 1 /\ (k + 1) - 1 = k /\ k + 1 # 0
      BY <2>1
    <3>2. f[k + 1] = IF f[k] = NoRun THEN NoRun ELSE par[f[k]]  BY <1>1, <3>1 DEF IsWalk
    <3>3. g[k + 1] = IF g[k] = NoRun THEN NoRun ELSE par[g[k]]  BY <1>1, <3>1 DEF IsWalk
    <3> QED  BY <2>1, <3>2, <3>3
  <2> QED  BY <2>1
<1> HIDE DEF S
<1>4. S \in SUBSET Nat  BY DEF S
<1>5. S = Nat  BY <1>2, <1>3, <1>4, Induction
<1> QED  BY <1>5 DEF S, f, g

LEMMA UpFirst == ASSUME NEW par, NEW r PROVE Up(par, r, 0) = r
<1>1. IsWalk(Walk(par, r, 0), par, r, 0)  BY WalkExists
<1> QED  BY <1>1 DEF IsWalk, Up

LEMMA UpNext ==
  ASSUME NEW par, NEW r, NEW n \in Nat
  PROVE  Up(par, r, n + 1) = IF Up(par, r, n) = NoRun THEN NoRun ELSE par[Up(par, r, n)]
<1> DEFINE g == Walk(par, r, n + 1)
<1>1. IsWalk(g, par, r, n + 1) /\ g[n] = Up(par, r, n)
  BY WalkExists, WalksAgree DEF Up
<1>2. n + 1 \in 0 .. n + 1 /\ n + 1 # 0 /\ (n + 1) - 1 = n  OBVIOUS
<1> HIDE DEF g
<1>3. g[n + 1] = IF g[n] = NoRun THEN NoRun ELSE par[g[n]]
  BY <1>1, <1>2 DEF IsWalk
<1> QED  BY <1>1, <1>3 DEF Up, g

\* Parents that agree on a set closed under them lead to the same ancestors.
AgreeOn(C, par, later) == \A c \in C : par[c] \in C \union {NoRun} /\ later[c] = par[c]

LEMMA WalksStay ==
  ASSUME NEW par, NEW later, NEW C, NEW r \in C \union {NoRun}, AgreeOn(C, par, later), NEW i \in Nat
  PROVE  Up(par, r, i) \in C \union {NoRun} /\ Up(later, r, i) = Up(par, r, i)
<1> DEFINE S == {n \in Nat : Up(par, r, n) \in C \union {NoRun} /\ Up(later, r, n) = Up(par, r, n)}
<1>1. 0 \in S  BY UpFirst
<1>2. ASSUME NEW n \in S PROVE n + 1 \in S
  <2>1. n \in Nat  OBVIOUS
  <2>2. Up(par, r, n + 1) = IF Up(par, r, n) = NoRun THEN NoRun ELSE par[Up(par, r, n)]
    BY <2>1, UpNext
  <2>3. Up(later, r, n + 1) = IF Up(later, r, n) = NoRun THEN NoRun ELSE later[Up(later, r, n)]
    BY <2>1, UpNext
  <2> QED  BY <2>2, <2>3 DEF AgreeOn
<1> HIDE DEF S
<1>3. S \in SUBSET Nat  BY DEF S
<1>4. S = Nat  BY <1>1, <1>2, <1>3, Induction
<1> QED  BY <1>4 DEF S

\* The runs that exist are numbered from 1 on, descend from each other, and
\* have jobs; a run about to launch a flow has none of it among its ancestors.
RunsAreCounted == \E n \in 0 .. MaxRuns : Created = 1 .. n

ParentsExist == \A r \in Created : parent[r] \in Created \union {NoRun}

LaunchesAreChecked ==
  \A r \in Ids :
    /\ at[r] # "none" => r \in Created
    /\ at[r] = "launch" => ~ FindFlowCycle(r, callee[r])

SubflowInv ==
  SubflowTypeOK /\ RunsAreCounted /\ ParentsExist /\ LaunchesAreChecked /\ NoRecursion

LEMMA NextIdIs ==
  ASSUME NEW n \in 0 .. MaxRuns, Created = 1 .. n
  PROVE  NextId = n + 1
<1>1. Cardinality(1 .. n) = n  BY FS_Interval
<1> QED  BY <1>1 DEF NextId

\* The ancestors of a run stay what they are when another run is created.
LEMMA AncestryStays ==
  ASSUME ParentsExist, NEW r \in Created \union {NoRun}, NEW n \in Nat,
         \A c \in Created : parent'[c] = parent[c]
  PROVE  Ancestry(r, n)' = Ancestry(r, n) /\ Ancestry(r, n) \subseteq Created
<1> DEFINE old(i) == Up(parent, r, i)
           new(i) == Up(parent', r, i)
<1>1. \A i \in Nat : old(i) \in Created \union {NoRun} /\ new(i) = old(i)
  <2>1. AgreeOn(Created, parent, parent')
    BY DEF ParentsExist, AgreeOn
  <2> QED  BY <2>1, WalksStay
<1>2. \A i \in Nat : Above(r, i) = old(i)
  BY AboveIsUp
<1>3. \A i \in Nat : Above(r, i)' = new(i)
  BY DEF Above, Up, Walk, IsWalk
<1> HIDE DEF old, new
<1>4. Ancestry(r, n) = {old(i) : i \in 0 .. n - 1} \ {NoRun}
  BY <1>2 DEF Ancestry
<1>5. Ancestry(r, n)' = {new(i) : i \in 0 .. n - 1} \ {NoRun}
  BY <1>3 DEF Ancestry
<1> QED  BY <1>1, <1>4, <1>5

\* Steps that keep the rows as they are, or add one, and what they may do to
\* the jobs.
JobsKept(c) ==
  \A r \in Ids \ {c} :
    /\ at'[r] # "none" => at[r] # "none"
    /\ at'[r] = "launch" => \/ at[r] = "launch" /\ callee'[r] = callee[r]
                            \/ r \in Created /\ ~ FindFlowCycle(r, callee'[r])

LEMMA CheckedStays ==
  ASSUME SubflowInv, NEW c, JobsKept(c), Created \subseteq Created',
         \A r \in Created : parent'[r] = parent[r] /\ flowOf'[r] = flowOf[r]
  PROVE  /\ \A r \in Ids \ {c} :
              /\ at'[r] # "none" => r \in Created'
              /\ at'[r] = "launch" => ~ FindFlowCycle(r, callee[r])'
         /\ \A r \in Created : \A a \in Ancestry(parent[r], WalkBound)' : flowOf'[a] # flowOf'[r]
<1>1. ASSUME NEW r \in Created \union {NoRun}
      PROVE  /\ Ancestry(r, WalkBound)' = Ancestry(r, WalkBound)
             /\ \A a \in Ancestry(r, WalkBound) : a \in Created /\ flowOf'[a] = flowOf[a]
  <2>1. WalkBound \in Nat /\ ParentsExist  BY SubflowAssumption DEF SubflowInv
  <2> QED  BY <2>1, AncestryStays
<1>2. ASSUME NEW r \in Ids \ {c}, at'[r] # "none" PROVE r \in Created'
  BY <1>2 DEF JobsKept, SubflowInv, LaunchesAreChecked
<1>3. ASSUME NEW r \in Ids \ {c}, at'[r] = "launch" PROVE ~ FindFlowCycle(r, callee[r])'
  <2>1. r \in Created /\ ~ FindFlowCycle(r, callee'[r])
    BY <1>3 DEF JobsKept, SubflowInv, LaunchesAreChecked
  <2> QED  BY <2>1, <1>1 DEF FindFlowCycle
<1>4. ASSUME NEW r \in Created
      PROVE  \A a \in Ancestry(parent[r], WalkBound)' : flowOf'[a] # flowOf'[r]
  <2>1. PICK up \in Created \union {NoRun} : up = parent[r] /\ up = parent'[r]
    BY DEF SubflowInv, ParentsExist
  <2>2. \A a \in Ancestry(up, WalkBound) : flowOf[a] # flowOf[r]
    BY <2>1 DEF SubflowInv, NoRecursion
  <2>3. \A a \in Ancestry(up, WalkBound)' : flowOf'[a] # flowOf'[r]
    BY <1>1, <2>2
  <2>4. Ancestry(parent[r], WalkBound)' = Ancestry(up, WalkBound)'
    BY <2>1 DEF Ancestry, Above
  <2> QED  BY <2>3, <2>4
<1> QED  BY <1>2, <1>3, <1>4

\* A step that creates no run.
LEMMA NoRunAdded ==
  ASSUME SubflowInv, SubflowTypeOK', JobsKept(NoRun), Created' = Created, UNCHANGED <<flowOf, parent>>
  PROVE  SubflowInv'
<1>1. NoRun \notin Ids  BY SubflowAssumption DEF NoRun, Ids
<1>2. LaunchesAreChecked' /\ NoRecursion'
  BY <1>1, CheckedStays DEF LaunchesAreChecked, NoRecursion
<1>3. RunsAreCounted' /\ ParentsExist'
  BY DEF SubflowInv, RunsAreCounted, ParentsExist
<1> QED  BY <1>2, <1>3 DEF SubflowInv

\* A step that creates one: a root, or a child whose flow its ancestors lack.
LEMMA RunAdded ==
  ASSUME SubflowInv, SubflowTypeOK', NEW f, NEW p \in Created \union {NoRun},
         NextId \in Ids, NewRun(NextId, f, p), \A a \in Ancestry(p, WalkBound) : flowOf[a] # f,
         JobsKept(NextId), at'[NextId] = "queued"
  PROVE  SubflowInv'
<1>1. PICK n \in 0 .. MaxRuns : Created = 1 .. n
  BY DEF SubflowInv, RunsAreCounted
<1>2. PICK c \in Ids : c = NextId /\ c = n + 1 /\ c \notin Created
  BY <1>1, NextIdIs
<1>3. NewRun(c, f, p) /\ JobsKept(c) /\ at'[c] = "queued"
  BY <1>2
<1>4. /\ flowOf'[c] = f /\ parent'[c] = p /\ state'[c] = "PENDING"
      /\ \A r \in Ids \ {c} : flowOf'[r] = flowOf[r] /\ parent'[r] = parent[r] /\ state'[r] = state[r]
  BY <1>3 DEF NewRun, SubflowInv, SubflowTypeOK
<1>5. Created' = Created \union {c} /\ \A r \in Created : r \in Ids \ {c}
  BY <1>2, <1>4 DEF Created
<1>6. \A r \in Created : parent'[r] = parent[r] /\ flowOf'[r] = flowOf[r]
  BY <1>4, <1>5
<1>7. /\ \A r \in Ids \ {c} :
           /\ at'[r] # "none" => r \in Created'
           /\ at'[r] = "launch" => ~ FindFlowCycle(r, callee[r])'
      /\ \A r \in Created : \A a \in Ancestry(parent[r], WalkBound)' : flowOf'[a] # flowOf'[r]
  BY <1>3, <1>5, <1>6, CheckedStays
<1>8. RunsAreCounted'
  <2>1. n + 1 \in 0 .. MaxRuns /\ Created' = 1 .. n + 1
    BY <1>1, <1>2, <1>5, SubflowAssumption DEF Ids
  <2> QED  BY <2>1 DEF RunsAreCounted
<1>9. ParentsExist'
  BY <1>4, <1>5, <1>6 DEF SubflowInv, ParentsExist
<1>10. LaunchesAreChecked'
  BY <1>3, <1>5, <1>7 DEF LaunchesAreChecked
<1>11. NoRecursion'
  <2>1. /\ Ancestry(p, WalkBound)' = Ancestry(p, WalkBound)
        /\ \A a \in Ancestry(p, WalkBound) : a \in Created
    BY <1>6, SubflowAssumption, AncestryStays DEF SubflowInv
  <2>2. \A a \in Ancestry(p, WalkBound)' : flowOf'[a] # flowOf'[c]
    BY <1>4, <1>6, <2>1
  <2>3. Ancestry(parent[c], WalkBound)' = Ancestry(p, WalkBound)'
    BY <1>4 DEF Ancestry, Above
  <2> QED  BY <1>5, <1>7, <2>2, <2>3 DEF NoRecursion
<1> QED  BY <1>8, <1>9, <1>10, <1>11 DEF SubflowInv

LEMMA EndKeeps ==
  ASSUME SubflowInv, NEW r \in Ids, at[r] # "none", NEW outcome \in Over, EndRun(r, outcome)
  PROVE  SubflowInv'
<1>1. SubflowTypeOK'
  BY DEF EndRun, SubflowInv, SubflowTypeOK
<1>2. Created' = Created
  BY DEF EndRun, SubflowInv, SubflowTypeOK, Created, Over
<1>3. JobsKept(NoRun)
  BY DEF EndRun, SubflowInv, SubflowTypeOK, JobsKept
<1> QED  BY <1>1, <1>2, <1>3, NoRunAdded DEF EndRun

LEMMA SubflowInvInit == SubflowInit => SubflowInv
<1> SUFFICES ASSUME SubflowInit PROVE SubflowInv
  OBVIOUS
<1>1. Created = {} /\ 0 \in 0 .. MaxRuns
  BY SubflowAssumption DEF SubflowInit, Created
<1>2. RunsAreCounted
  BY <1>1 DEF RunsAreCounted
<1>3. SubflowTypeOK
  BY DEF SubflowInit, SubflowTypeOK
<1> QED
  BY <1>1, <1>2, <1>3 DEF SubflowInit, SubflowInv, ParentsExist, LaunchesAreChecked, NoRecursion

LEMMA SubflowInvStep == SubflowInv /\ [SubflowNext]_subVars => SubflowInv'
<1> SUFFICES ASSUME SubflowInv, [SubflowNext]_subVars PROVE SubflowInv'
  OBVIOUS
<1>0. SubflowTypeOK
  BY DEF SubflowInv
<1>1. CASE UNCHANGED subVars
  <2>1. SubflowTypeOK' /\ Created' = Created /\ JobsKept(NoRun)
    BY <1>0, <1>1 DEF subVars, SubflowTypeOK, Created, JobsKept
  <2> QED  BY <1>1, <2>1, NoRunAdded DEF subVars
<1>2. ASSUME NEW f \in Flows, LaunchRoot(f) PROVE SubflowInv'
  <2>1. Ancestry(NoRun, WalkBound) = {}
    <3>1. AgreeOn({}, parent, parent)  BY DEF AgreeOn
    <3>2. \A i \in Nat : Above(NoRun, i) = NoRun
      BY <3>1, WalksStay, AboveIsUp
    <3> QED  BY <3>2, SubflowAssumption DEF Ancestry
  <2>2. SubflowTypeOK'
    BY <1>0, <1>2 DEF LaunchRoot, NewRun, SubflowTypeOK
  <2>3. JobsKept(NextId) /\ at'[NextId] = "queued"
    BY <1>0, <1>2 DEF LaunchRoot, JobsKept, SubflowTypeOK
  <2> QED  BY <1>2, <2>1, <2>2, <2>3, RunAdded DEF LaunchRoot
<1>3. ASSUME NEW r \in Ids, TakeRun(r) PROVE SubflowInv'
  <2>1. SubflowTypeOK' /\ Created' = Created /\ JobsKept(NoRun)
    BY <1>0, <1>3 DEF TakeRun, SubflowTypeOK, Created, JobsKept, Over
  <2> QED  BY <1>3, <2>1, NoRunAdded DEF TakeRun
<1>4. ASSUME NEW r \in Ids, EndLeaf(r) \/ PollDone(r) \/ PollTimeout(r) PROVE SubflowInv'
  <2>1. PICK outcome \in Over : at[r] # "none" /\ EndRun(r, outcome)
    BY <1>4 DEF EndLeaf, PollDone, PollTimeout, Over
  <2> QED  BY <2>1, EndKeeps
<1>5. ASSUME NEW r \in Ids, NEW f \in Flows, Call(r, f) PROVE SubflowInv'
  <2>1. CASE EndRun(r, "FAILED")
    BY <1>5, <2>1, EndKeeps DEF Call, Over
  <2>2. CASE ~ EndRun(r, "FAILED")
    <3>1. /\ at[r] = "nodes" /\ ~ FindFlowCycle(r, f)
          /\ at' = [at EXCEPT ![r] = "launch"] /\ callee' = [callee EXCEPT ![r] = f]
          /\ UNCHANGED <<flowOf, parent, state, launched>>
      BY <1>5, <2>2 DEF Call, Refused
    <3>2. r \in Created
      BY <3>1 DEF SubflowInv, LaunchesAreChecked
    <3>3. SubflowTypeOK' /\ Created' = Created
      BY <1>0, <3>1 DEF SubflowTypeOK, Created
    <3>4. JobsKept(NoRun)
      BY <1>0, <3>1, <3>2 DEF SubflowTypeOK, JobsKept
    <3> QED  BY <3>1, <3>3, <3>4, NoRunAdded
  <2> QED  BY <2>1, <2>2
<1>6. ASSUME NEW r \in Ids, LaunchChild(r) PROVE SubflowInv'
  <2>1. r \in Created /\ ~ FindFlowCycle(r, callee[r]) /\ at[r] = "launch"
    BY <1>6 DEF LaunchChild, SubflowInv, LaunchesAreChecked
  <2>2. CASE NextId \notin Ids
    BY <1>6, <2>1, <2>2, EndKeeps DEF LaunchChild, Over
  <2>3. CASE NextId \in Ids
    <3>1. /\ NewRun(NextId, callee[r], r)
          /\ at' = [at EXCEPT ![r] = "poll", ![NextId] = "queued"]
          /\ launched' = [launched EXCEPT ![r] = NextId] /\ UNCHANGED callee
      BY <1>6, <2>3 DEF LaunchChild
    <3>2. \A a \in Ancestry(r, WalkBound) : flowOf[a] # callee[r]
      BY <2>1 DEF FindFlowCycle
    <3>3. SubflowTypeOK'
      BY <1>0, <2>3, <3>1 DEF NewRun, SubflowTypeOK
    <3>4. JobsKept(NextId) /\ at'[NextId] = "queued"
      BY <1>0, <2>1, <2>3, <3>1 DEF SubflowTypeOK, JobsKept
    <3> QED  BY <2>1, <2>3, <3>1, <3>2, <3>3, <3>4, RunAdded
  <2> QED  BY <2>2, <2>3
<1>7. ASSUME NEW r \in Ids, CancelRun(r) PROVE SubflowInv'
  <2>1. SubflowTypeOK' /\ Created' = Created /\ JobsKept(NoRun)
    BY <1>0, <1>7 DEF CancelRun, SubflowTypeOK, Created, JobsKept, Over
  <2> QED  BY <1>7, <2>1, NoRunAdded DEF CancelRun
<1> QED
  BY <1>1, <1>2, <1>3, <1>4, <1>5, <1>6, <1>7 DEF SubflowNext, RunStep

\* No flow invokes itself through others, for every number of flows and runs
\* and every bound of the walk: no flow occurs twice among as many successive
\* ancestors as the guard looks at.
THEOREM FlowsDoNotRecur == SubflowSpec => []NoRecursion
<1>1. SubflowInv => NoRecursion
  BY DEF SubflowInv
<1> QED  BY <1>1, SubflowInvInit, SubflowInvStep, PTL DEF SubflowSpec
=============================================================================
