--------------------------- MODULE SchedulerProofs ---------------------------
(***************************************************************************)
(* One second, one run: proved for every number of callbacks, every        *)
(* overlap policy and every clock, provided the lock is held longer than a *)
(* callback takes from reading the clock to setting it.  The lock is then  *)
(* never given twice for one second: when it expires, no callback of that  *)
(* second is left to ask.                                                  *)
(*                                                                         *)
(* No overlap under policy "skip", but for runs launched on counts that    *)
(* missed each other: proved whatever the timers do.                       *)
(***************************************************************************)
EXTENDS Scheduler, LauncherProofs, TLAPS

\* The callbacks that hold a second, between taking the lock and launching.
Passed(i) == pc[i] \in {"count", "launch"}

\* A second has been given to somebody, and the lock outlives it.
Given(t) == expiry[t] >= t + LockTtl

\* A callback that has yet to ask for the lock is at most MaxLag late.
InTime == \A i \in TimerCalls : pc[i] = "acquire" => bucket[i] <= now /\ now <= bucket[i] + MaxLag

\* Holders and launched runs had the lock of their second.
LockWasTaken ==
  /\ \A i \in TimerCalls : Passed(i) => Given(bucket[i])
  /\ \A r \in Runs : secondOf[r] # Never => Given(secondOf[r])

\* A second has one holder, who has yet to launch.
OneHolder ==
  /\ \A i, k \in TimerCalls : Passed(i) /\ Passed(k) /\ i # k => bucket[i] # bucket[k]
  /\ \A i \in TimerCalls, r \in Runs : Passed(i) => secondOf[r] # bucket[i]

SchedInv == SchedulerTypeOK /\ InTime /\ LockWasTaken /\ OneHolder /\ OneRunPerSecond

LEMMA SchedInvInit == Init => SchedInv
BY SchedulerAssumption DEF Init, SchedInv, SchedulerTypeOK, InTime, LockWasTaken, OneHolder, OneRunPerSecond,
   Passed, Given, Times, Never

\* The types of the scheduler's variables, whatever the lock's time to live.
LEMMA SchedulerTypeStep ==
  ASSUME SchedulerTypeOK, [Next]_vars
  PROVE  SchedulerTypeOK'
<1> USE SchedulerAssumption DEF SchedulerTypeOK, Times, Never, Return, GoTo
<1>1. ASSUME NEW i \in TimerCalls, Fire(i)
      PROVE  SchedulerTypeOK'
  BY <1>1 DEF Fire
<1>2. ASSUME NEW i \in TimerCalls, Acquire(i)
      PROVE  SchedulerTypeOK'
  <2>1. expiry' = expiry \/ expiry' = [expiry EXCEPT ![bucket[i]] = now + LockTtl]
    BY <1>2 DEF Acquire
  <2>2. \/ pc' = [pc EXCEPT ![i] = "idle"] /\ bucket' = [bucket EXCEPT ![i] = 0]
        \/ pc' = [pc EXCEPT ![i] = IF Skip THEN "count" ELSE "launch"] /\ bucket' = bucket
    BY <1>2 DEF Acquire
  <2>3. UNCHANGED <<now, secondOf, missed, beside>>
    BY <1>2 DEF Acquire
  <2>4. expiry' \in [Times -> 0 .. MaxTime + LockTtl]
    <3>1. now + LockTtl \in 0 .. MaxTime + LockTtl
      OBVIOUS
    <3> QED  BY <2>1, <3>1
  <2>5. pc' \in [TimerCalls -> {"idle", "acquire", "count", "launch"}]
    BY <2>2
  <2>6. bucket' \in [TimerCalls -> Times]
    <3>1. 0 \in Times /\ bucket \in [TimerCalls -> Times]
      OBVIOUS
    <3>2. CASE bucket' = [bucket EXCEPT ![i] = 0]    BY <3>1, <3>2
    <3>3. CASE bucket' = bucket                     BY <3>1, <3>3
    <3> QED  BY <2>2, <3>2, <3>3
  <2> QED  BY <2>3, <2>4, <2>5, <2>6
<1>3. ASSUME NEW i \in TimerCalls, Return(i) \/ GoTo(i, "launch")
      PROVE  /\ pc' \in [TimerCalls -> {"idle", "acquire", "count", "launch"}]
             /\ bucket' \in [TimerCalls -> Times]
  <2>1. CASE Return(i)            BY <2>1
  <2>2. CASE GoTo(i, "launch")    BY <2>2
  <2> QED  BY <1>3, <2>1, <2>2
<1>7. ASSUME NEW i \in TimerCalls, Count(i)
      PROVE  SchedulerTypeOK'
  <2>1. (Return(i) \/ GoTo(i, "launch")) /\ UNCHANGED <<now, expiry, secondOf, missed, beside>>
    BY <1>7 DEF Count
  <2> QED  BY <1>3, <2>1
<1>8. ASSUME NEW i \in TimerCalls, OutOfRuns(i)
      PROVE  SchedulerTypeOK'
  <2>1. Return(i) /\ missed' = [missed EXCEPT ![i] = {}] /\ UNCHANGED <<now, expiry, secondOf, beside>>
    BY <1>8 DEF OutOfRuns
  <2> QED  BY <1>3, <2>1
<1>4. ASSUME NEW i \in TimerCalls, Launch(i)
      PROVE  SchedulerTypeOK'
  <2>1. PICK r \in Runs : /\ secondOf' = [secondOf EXCEPT ![r] = bucket[i]]
                          /\ beside' = beside \union ({r} \X missed[i])
                          /\ missed' \in [TimerCalls -> SUBSET Runs]
    BY <1>4 DEF Launch
  <2>2. Return(i) /\ UNCHANGED <<now, expiry>>
    BY <1>4 DEF Launch
  <2> QED  BY <2>1, <2>2
<1>5. CASE Tick
  BY <1>5 DEF Tick
<1>6. CASE UNCHANGED schedVars
  BY <1>6 DEF schedVars
<1> QED
  BY <1>1, <1>2, <1>4, <1>5, <1>6, <1>7, <1>8 DEF Next, Trigger, vars

\* A second that was not given has neither a holder nor a run.
LEMMA NotGiven ==
  ASSUME LockWasTaken, NEW t \in Times, ~Given(t)
  PROVE  /\ \A k \in TimerCalls : Passed(k) => bucket[k] # t
         /\ \A r \in Runs : secondOf[r] # t
<1>1. t # Never
  BY SchedulerAssumption DEF Times, Never
<1> QED  BY <1>1 DEF LockWasTaken

LEMMA SchedInvStep ==
  ASSUME LockTtl > MaxLag, SchedInv, [Next]_vars
  PROVE  SchedInv'
<1> USE SchedulerAssumption
    DEF SchedInv, SchedulerTypeOK, InTime, LockWasTaken, OneHolder, OneRunPerSecond, Passed, Given, Times, Never,
        Return, GoTo
<1>0. SchedulerTypeOK'
  <2> HIDE DEF SchedulerTypeOK
  <2>1. SchedulerTypeOK  OBVIOUS
  <2> HIDE DEF SchedInv
  <2> QED  BY <2>1, SchedulerTypeStep
<1>1. ASSUME NEW i \in TimerCalls, Fire(i)
      PROVE  SchedInv'
  BY <1>1 DEF Fire
<1>2. ASSUME NEW i \in TimerCalls, Acquire(i)
      PROVE  SchedInv'
  <2>1. CASE expiry[bucket[i]] > now
    <3>1. Return(i) /\ UNCHANGED <<now, expiry, secondOf, missed, beside>>
      <4>1. ~(expiry[bucket[i]] <= now)  BY <2>1
      <4> QED  BY <1>2, <4>1 DEF Acquire
    <3> QED  BY <1>0, <3>1
  <2>2. CASE expiry[bucket[i]] <= now
    <3> DEFINE t == bucket[i]
    <3>1. t \in Times /\ now < t + LockTtl /\ t <= now
      BY <1>2 DEF Acquire
    <3>2. ~Given(t)
      BY <2>2, <3>1
    <3>3. /\ \A k \in TimerCalls : Passed(k) => bucket[k] # t
          /\ \A r \in Runs : secondOf[r] # t
      <4> HIDE DEF LockWasTaken, Given, Passed, Times, t
      <4> QED  BY <3>1, <3>2, NotGiven
    <3>4. /\ expiry' = [expiry EXCEPT ![t] = now + LockTtl]
          /\ pc' = [pc EXCEPT ![i] = IF Skip THEN "count" ELSE "launch"]
          /\ UNCHANGED <<now, bucket, secondOf, missed, beside>>
      BY <1>2, <2>2 DEF Acquire
    <3>5. SchedulerTypeOK'  BY <3>1, <3>4
    <3>6. InTime'           BY <3>4
    <3>7. LockWasTaken'     BY <3>1, <3>3, <3>4
    <3>8. OneHolder'        BY <3>3, <3>4
    <3> QED  BY <3>4, <3>5, <3>6, <3>7, <3>8
  <2>3. expiry[bucket[i]] > now \/ expiry[bucket[i]] <= now
    <3>1. bucket[i] \in Times /\ now \in Nat  OBVIOUS
    <3>2. expiry[bucket[i]] \in Nat  BY <3>1
    <3> HIDE DEF SchedInv
    <3> QED  BY <3>1, <3>2
  <2> QED  BY <2>1, <2>2, <2>3
<1>3. ASSUME NEW i \in TimerCalls, Count(i)
      PROVE  SchedInv'
  <2>1. pc[i] = "count" /\ (Return(i) \/ GoTo(i, "launch")) /\ UNCHANGED <<now, expiry, secondOf>>
    BY <1>3 DEF Count
  <2>2. CASE Return(i)            BY <1>0, <2>1, <2>2
  <2>3. CASE GoTo(i, "launch")    BY <1>0, <2>1, <2>3
  <2> QED  BY <2>1, <2>2, <2>3
<1>7. ASSUME NEW i \in TimerCalls, OutOfRuns(i)
      PROVE  SchedInv'
  <2>1. Return(i) /\ UNCHANGED <<now, expiry, secondOf>>
    BY <1>7 DEF OutOfRuns
  <2> QED  BY <1>0, <2>1
<1>4. ASSUME NEW i \in TimerCalls, Launch(i)
      PROVE  SchedInv'
  <2>1. PICK r \in Runs : /\ secondOf' = [secondOf EXCEPT ![r] = bucket[i]]
                          /\ beside' = beside \union ({r} \X missed[i])
                          /\ \A k \in TimerCalls : missed'[k] \in {missed[k] \union {r}, {}}
                          /\ missed' \in [TimerCalls -> SUBSET Runs]
    BY <1>4 DEF Launch
  <2>2. pc[i] = "launch" /\ Return(i) /\ UNCHANGED <<now, expiry>>
    BY <1>4 DEF Launch
  <2>3. bucket[i] \in Times /\ Given(bucket[i])
    BY <2>2
  <2>4. OneHolder'  BY <2>1, <2>2
  <2>5. OneRunPerSecond'  BY <2>1, <2>2
  <2> QED  BY <2>1, <2>2, <2>3, <2>4, <2>5
<1>5. CASE Tick
  BY <1>5 DEF Tick
<1>6. CASE UNCHANGED schedVars
  BY <1>6 DEF schedVars
<1> QED
  BY <1>1, <1>2, <1>3, <1>4, <1>5, <1>6, <1>7 DEF Next, Trigger, vars

-----------------------------------------------------------------------------
(* Scheduled runs do not overlap. *)

\* A scheduled run that was never canceled.
Scheduled(r) == source[r] = "schedule" /\ r \notin canceled

\* A scheduled run needs no approval, so no decision is ever about one.
NeverGated ==
  /\ \A r \in Runs : source[r] = "schedule" => status[r] \notin {"none", "PENDING_APPROVAL"}
  /\ \A d \in Deciders : decision[d] # NoDecision =>
       status[decision[d].run] # "none" /\ source[decision[d].run] # "schedule"

\* Once it has ended nobody is about to mark it as RUNNING.
EndsForGood == \A r \in Runs : Scheduled(r) /\ status[r] \notin Active => step[r] # "mark"

\* A callback that is about to launch missed the scheduled runs that are active.
CountHolds ==
  Skip =>
    \A i \in TimerCalls, r \in Runs :
      pc[i] = "launch" /\ Scheduled(r) /\ status[r] \in Active => r \in missed[i]

OverlapInv ==
  /\ LauncherTypeOK /\ SchedulerTypeOK
  /\ NeverGated /\ EndsForGood /\ CountHolds /\ NoOverlap

\* What the launcher does to scheduled runs: it starts and ends them.
LEMMA LauncherOnScheduled ==
  ASSUME LauncherTypeOK, NeverGated, EndsForGood, LauncherNext
  PROVE  /\ LauncherTypeOK' /\ NeverGated' /\ EndsForGood'
         /\ \A r \in Runs : Scheduled(r)' => Scheduled(r) /\ (status'[r] \in Active => status[r] \in Active)
<1> DEFINE Goal == /\ NeverGated' /\ EndsForGood'
                   /\ \A r \in Runs : Scheduled(r)' =>
                        Scheduled(r) /\ (status'[r] \in Active => status[r] \in Active)
<1>0. LauncherTypeOK'
  BY LauncherTypeStep
<1> USE NoDecisionIdle DEF NeverGated, EndsForGood, Scheduled, LauncherTypeOK, Active, Ended, Decisions
<1>1. ASSUME NEW r \in Runs, NEW src \in Origins, NEW gate \in BOOLEAN, Create(r, src, gate)
      PROVE  Goal
  <2>1. src # "schedule"
    BY LauncherAssumption
  <2>2. /\ status[r] = "none" /\ source' = [source EXCEPT ![r] = src]
        /\ \E s \in {"PENDING_APPROVAL", "PENDING"} : status' = [status EXCEPT ![r] = s]
        /\ UNCHANGED <<step, decision, canceled>>
    BY <1>1 DEF Create, histVars
  <2> QED  BY <2>1, <2>2
<1>2. ASSUME NEW r \in Runs, Enqueue(r) \/ LauncherDies(r) \/ CancelRead(r)
      PROVE  Goal
  <2>1. UNCHANGED <<status, source, step, decision, canceled>>
    BY <1>2 DEF Enqueue, LauncherDies, CancelRead, histVars
  <2> QED  BY <2>1
<1>3. ASSUME NEW r \in Runs, CancelWrite(r)
      PROVE  Goal
  BY <1>3 DEF CancelWrite
<1>4. ASSUME NEW r \in Runs, Take(r)
      PROVE  Goal
  BY <1>4 DEF Take, histVars
<1>5. ASSUME NEW r \in Runs, Mark(r)
      PROVE  Goal
  BY <1>5 DEF Mark, histVars
<1>6. ASSUME NEW r \in Runs, Finish(r)
      PROVE  Goal
  <2>1. /\ \E s \in {"SUCCESS", "FAILED"} :
             status' = [status EXCEPT ![r] = IF status[r] = "RUNNING" THEN s ELSE status[r]]
        /\ step' = [step EXCEPT ![r] = "idle"] /\ UNCHANGED <<source, decision, canceled>>
    BY <1>6 DEF Finish, histVars
  <2> QED  BY <2>1
<1>7. ASSUME NEW d \in Deciders, NEW r \in Runs, NEW verdict \in Verdicts, DecideRead(d, r, verdict)
      PROVE  Goal
  <2>1. /\ status[r] = "PENDING_APPROVAL" /\ UNCHANGED <<status, source, step, canceled>>
        /\ decision' = [decision EXCEPT ![d] = [run |-> r, verdict |-> verdict, step |-> "request"]]
    BY <1>7 DEF DecideRead
  <2>2. \A e \in Deciders : decision'[e] # NoDecision =>
          decision'[e] = decision[e] \/ decision'[e].run = r
    BY <2>1
  <2> QED  BY <2>1, <2>2
<1>8. ASSUME NEW d \in Deciders, decision[d] # NoDecision
      PROVE  decision[d] \in Decisions /\ decision[d].run \in Runs
  BY <1>8
<1>9. ASSUME NEW d \in Deciders, DecideRequest(d)
      PROVE  Goal
  <2>1. decision[d] # NoDecision
    BY <1>9 DEF DecideRequest, NoDecision
  <2>2. UNCHANGED <<status, source, step, canceled>> /\ decision' = [decision EXCEPT ![d].step = "status"]
    BY <1>9 DEF DecideRequest, histVars
  <2>3. \A e \in Deciders : decision'[e] # NoDecision =>
          decision[e] # NoDecision /\ decision'[e].run = decision[e].run
    BY <1>8, <2>1, <2>2
  <2> QED  BY <2>2, <2>3
<1>10. ASSUME NEW d \in Deciders, DecideStatus(d)
       PROVE  Goal
  <2>1. decision[d] # NoDecision
    BY <1>10 DEF DecideStatus, NoDecision
  <2> DEFINE r == decision[d].run
  <2>2. r \in Runs /\ source[r] # "schedule"
    BY <1>8, <2>1
  <2>3. /\ \E s \in {"PENDING", "CANCELED"} : status' = [status EXCEPT ![r] = s]
        /\ decision' = [decision EXCEPT ![d].step = "enqueue"] \/ decision' = [decision EXCEPT ![d] = NoDecision]
        /\ canceled \subseteq canceled' /\ canceled' \subseteq canceled \union {r} /\ UNCHANGED <<source, step>>
    BY <1>10 DEF DecideStatus
  <2>4. \A e \in Deciders : decision'[e] # NoDecision =>
          decision[e] # NoDecision /\ decision'[e].run = decision[e].run
    BY <1>8, <2>1, <2>3
  <2> HIDE DEF r
  <2> QED  BY <1>8, <2>2, <2>3, <2>4
<1>11. ASSUME NEW d \in Deciders, DecideEnqueue(d) \/ DeciderDies(d)
       PROVE  Goal
  <2>1. UNCHANGED <<status, source, step, canceled>> /\ decision' = [decision EXCEPT ![d] = NoDecision]
    BY <1>11 DEF DecideEnqueue, DeciderDies, histVars
  <2> QED  BY <2>1
<1> HIDE DEF Goal
<1>12. Goal
  BY <1>1, <1>2, <1>3, <1>4, <1>5, <1>6, <1>7, <1>9, <1>10, <1>11 DEF LauncherNext, Work, DecideStep
<1> QED  BY <1>0, <1>12 DEF Goal

LEMMA OverlapInvInit == Init => OverlapInv
<1> SUFFICES ASSUME Init PROVE OverlapInv
  OBVIOUS
<1>1. LauncherTypeOK
  BY LauncherInvInit DEF Init, LauncherInv
<1>2. SchedulerTypeOK
  BY SchedInvInit DEF SchedInv
<1>3. \A r \in Runs : status[r] = "none" /\ source[r] = "none"
  BY DEF Init, LauncherInit
<1>4. \A d \in Deciders : decision[d] = NoDecision
  BY DEF Init, LauncherInit
<1>5. \A i \in TimerCalls : pc[i] = "idle"
  BY DEF Init
<1> QED
  BY <1>1, <1>2, <1>3, <1>4, <1>5
  DEF OverlapInv, NeverGated, EndsForGood, CountHolds, NoOverlap, Scheduled, Active

\* A callback that leaves the launcher alone and does not come to launch.
LEMMA CallbackOverlap ==
  ASSUME OverlapInv, SchedulerTypeOK', UNCHANGED <<launchVars, beside>>,
         \A i \in TimerCalls : pc'[i] = "launch" /\ Skip =>
           \/ pc[i] = "launch" /\ missed'[i] = missed[i]
           \/ \A r \in Runs : status[r] \notin Active
  PROVE  OverlapInv'
<1>1. UNCHANGED <<status, source, step, decision, canceled>>
  BY DEF launchVars, histVars
<1>2. LauncherTypeOK'
  BY LauncherTypeStep DEF OverlapInv
<1>3. NeverGated' /\ EndsForGood' /\ NoOverlap'
  BY <1>1 DEF OverlapInv, NeverGated, EndsForGood, NoOverlap, Scheduled
<1>4. CountHolds'
  BY <1>1 DEF OverlapInv, CountHolds, Scheduled
<1> QED  BY <1>2, <1>3, <1>4 DEF OverlapInv

\* A run is launched: it missed those that are active, and others miss it.
LEMMA LaunchOverlap ==
  ASSUME OverlapInv, SchedulerTypeOK', NEW i \in TimerCalls, Launch(i)
  PROVE  OverlapInv'
<1> USE DEF OverlapInv
<1>1. PICK r \in Runs, gate \in BOOLEAN :
        /\ status[r] = "none" /\ Create(r, "schedule", gate)
        /\ beside' = beside \union ({r} \X missed[i])
        /\ missed' = [k \in TimerCalls |-> IF k # i /\ pc[k] = "launch" THEN missed[k] \union {r} ELSE {}]
  BY DEF Launch, Create
<1>2. /\ status' = [status EXCEPT ![r] = "PENDING"] /\ source' = [source EXCEPT ![r] = "schedule"]
      /\ approval' = [approval EXCEPT ![r] = "none"] /\ launching' = launching \union {r}
      /\ UNCHANGED <<job, step, takes, decision, canceling, accepted, canceled, stranded>>
  BY <1>1 DEF Create, Gated, Interactive, histVars
<1>3. pc[i] = "launch" /\ pc' = [pc EXCEPT ![i] = "idle"]
  BY DEF Launch, Return
<1>4. LauncherTypeOK'
  BY <1>2 DEF LauncherTypeOK, Active, Ended, Sources
<1>5. NeverGated'
  <2>1. \A d \in Deciders : decision[d] # NoDecision => decision[d].run \in Runs /\ decision[d].run # r
    BY <1>1 DEF LauncherTypeOK, NeverGated, Decisions
  <2> QED  BY <1>2, <2>1 DEF NeverGated, LauncherTypeOK
<1>6. EndsForGood'
  BY <1>2 DEF EndsForGood, Scheduled, Active, LauncherTypeOK
<1>7. \A q \in Runs : q # r => (Scheduled(q)' <=> Scheduled(q)) /\ status'[q] = status[q]
  BY <1>2 DEF Scheduled, LauncherTypeOK
<1>8. Skip => \A q \in Runs : Scheduled(q) /\ status[q] \in Active => q \in missed[i]
  BY <1>3 DEF CountHolds
<1>9. NoOverlap'
  <2>1. SUFFICES ASSUME Skip, NEW u \in Runs, NEW v \in Runs, u # v, Scheduled(u)', Scheduled(v)',
                        status'[u] \in Active, status'[v] \in Active
                 PROVE  <<u, v>> \in beside' \/ <<v, u>> \in beside'
    BY DEF NoOverlap, Scheduled
  <2>2. CASE u = r
    <3>1. v \in missed[i]  BY <1>7, <1>8, <2>1, <2>2
    <3> QED  BY <1>1, <2>2, <3>1
  <2>3. CASE v = r
    <3>1. u \in missed[i]  BY <1>7, <1>8, <2>1, <2>3
    <3> QED  BY <1>1, <2>3, <3>1
  <2>4. CASE u # r /\ v # r
    <3>1. Scheduled(u) /\ Scheduled(v) /\ status[u] \in Active /\ status[v] \in Active
      BY <1>7, <2>1, <2>4
    <3>2. <<u, v>> \in beside \/ <<v, u>> \in beside
      BY <2>1, <3>1 DEF NoOverlap, Scheduled
    <3> QED  BY <1>1, <3>2
  <2> QED  BY <2>2, <2>3, <2>4
<1>10. CountHolds'
  <2>1. SUFFICES ASSUME Skip, NEW k \in TimerCalls, NEW q \in Runs, pc'[k] = "launch", Scheduled(q)',
                        status'[q] \in Active
                 PROVE  q \in missed'[k]
    BY DEF CountHolds, Scheduled
  <2>2. k # i /\ pc[k] = "launch"
    BY <1>3, <2>1 DEF SchedulerTypeOK
  <2>3. missed'[k] = missed[k] \union {r}
    BY <1>1, <2>2
  <2>4. CASE q = r
    BY <2>3, <2>4
  <2>5. CASE q # r
    <3>1. Scheduled(q) /\ status[q] \in Active
      BY <1>7, <2>1, <2>5
    <3>2. q \in missed[k]
      BY <2>1, <2>2, <3>1 DEF CountHolds
    <3> QED  BY <2>3, <3>2
  <2> QED  BY <2>4, <2>5
<1> QED  BY <1>4, <1>5, <1>6, <1>9, <1>10

LEMMA OverlapInvStep ==
  ASSUME OverlapInv, SchedulerTypeOK', [Next]_vars
  PROVE  OverlapInv'
<1> USE DEF OverlapInv
<1>1. CASE LauncherNext /\ UNCHANGED schedVars
  <2>1. UNCHANGED <<pc, missed, beside>>
    BY <1>1 DEF schedVars
  <2>2. /\ LauncherTypeOK' /\ NeverGated' /\ EndsForGood'
        /\ \A r \in Runs : Scheduled(r)' => Scheduled(r) /\ (status'[r] \in Active => status[r] \in Active)
    BY <1>1, LauncherOnScheduled
  <2>3. NoOverlap'
    BY <2>1, <2>2 DEF NoOverlap, Scheduled
  <2>4. CountHolds'
    <3>1. SUFFICES ASSUME Skip, NEW k \in TimerCalls, NEW q \in Runs, pc'[k] = "launch", Scheduled(q)',
                          status'[q] \in Active
                   PROVE  q \in missed'[k]
      BY DEF CountHolds, Scheduled
    <3>2. pc[k] = "launch" /\ Scheduled(q) /\ status[q] \in Active
      BY <2>1, <2>2, <3>1
    <3> QED  BY <2>1, <3>1, <3>2 DEF CountHolds
  <2> QED  BY <2>2, <2>3, <2>4
<1> HIDE DEF OverlapInv
<1>0. SchedulerTypeOK
  BY DEF OverlapInv
<1>2. ASSUME NEW i \in TimerCalls, Fire(i)
      PROVE  OverlapInv'
  BY <1>0, <1>2, CallbackOverlap DEF Fire, SchedulerTypeOK
<1>3. ASSUME NEW i \in TimerCalls, Acquire(i)
      PROVE  OverlapInv'
  <2>1. UNCHANGED <<launchVars, missed, beside>>
    BY <1>3 DEF Acquire
  <2>2. \/ pc' = [pc EXCEPT ![i] = "idle"]
        \/ pc' = [pc EXCEPT ![i] = IF Skip THEN "count" ELSE "launch"]
    BY <1>3 DEF Acquire, Return, GoTo
  <2>3. \A k \in TimerCalls : pc'[k] = "launch" /\ Skip => pc[k] = "launch" /\ missed'[k] = missed[k]
    BY <1>0, <2>1, <2>2 DEF SchedulerTypeOK
  <2> QED  BY <2>1, <2>3, CallbackOverlap
<1>4. ASSUME NEW i \in TimerCalls, Count(i)
      PROVE  OverlapInv'
  <2>1. UNCHANGED <<launchVars, missed, beside>>
    BY <1>4 DEF Count
  <2>2. \/ pc' = [pc EXCEPT ![i] = "idle"]
        \/ pc' = [pc EXCEPT ![i] = "launch"] /\ \A r \in Runs : status[r] \notin Active
    BY <1>4 DEF Count, Return, GoTo
  <2>3. \A k \in TimerCalls : pc'[k] = "launch" =>
          (pc[k] = "launch" /\ missed'[k] = missed[k]) \/ \A r \in Runs : status[r] \notin Active
    BY <1>0, <2>1, <2>2 DEF SchedulerTypeOK
  <2> QED  BY <2>1, <2>3, CallbackOverlap
<1>5. ASSUME NEW i \in TimerCalls, Launch(i)
      PROVE  OverlapInv'
  BY <1>5, LaunchOverlap
<1>6. ASSUME NEW i \in TimerCalls, OutOfRuns(i)
      PROVE  OverlapInv'
  <2>1. /\ pc' = [pc EXCEPT ![i] = "idle"] /\ missed' = [missed EXCEPT ![i] = {}]
        /\ UNCHANGED <<launchVars, beside>>
    BY <1>6 DEF OutOfRuns, Return
  <2>2. \A k \in TimerCalls : pc'[k] = "launch" => pc[k] = "launch" /\ missed'[k] = missed[k]
    BY <1>0, <2>1 DEF SchedulerTypeOK
  <2> QED  BY <2>1, <2>2, CallbackOverlap
<1>7. CASE Tick \/ UNCHANGED vars
  <2>1. UNCHANGED <<launchVars, pc, missed, beside>>
    BY <1>7 DEF Tick, vars, schedVars
  <2> QED  BY <2>1, CallbackOverlap
<1> QED  BY <1>1, <1>2, <1>3, <1>4, <1>5, <1>6, <1>7 DEF Next, Trigger

-----------------------------------------------------------------------------
(* Theorems *)

\* Callbacks that read the same second launch at most one run, however many
\* run, when the lock is held longer than a callback takes from reading the
\* clock to setting it (LockService.acquire and SchedulerService.trigger).
THEOREM OneRunForEachSecond ==
  ASSUME LockTtl > MaxLag
  PROVE  Spec => []OneRunPerSecond
<1>1. SchedInv /\ [Next]_vars => SchedInv'
  BY SchedInvStep
<1>2. SchedInv => OneRunPerSecond
  BY DEF SchedInv
<1> QED
  BY <1>1, <1>2, SchedInvInit, PTL DEF Spec

\* With overlap policy "skip" two scheduled runs that were never canceled are
\* active at once only when one was launched on a count made before the other
\* was created, whatever else is triggered, approved, canceled and dies: the
\* count misses no run that is there, started, revived or being retried.
THEOREM ScheduledRunsDoNotOverlap ==
  Spec => []NoOverlap
<1>1. OverlapInv /\ [Next]_vars => OverlapInv'
  <2>1. OverlapInv /\ [Next]_vars => SchedulerTypeOK'
    BY SchedulerTypeStep DEF OverlapInv
  <2> QED  BY <2>1, OverlapInvStep
<1>2. OverlapInv => NoOverlap
  BY DEF OverlapInv
<1> QED
  BY <1>1, <1>2, OverlapInvInit, PTL DEF Spec
=============================================================================
