----------------------------- MODULE Scheduler ------------------------------
(***************************************************************************)
(* SchedulerService on several API instances: each has a timer for the     *)
(* flow's cron expression and runs a callback for every tick of it,        *)
(* LockService lets one callback of a second go on, and the overlap policy *)
(* "skip" looks for a run that is still active.  The lock is named after   *)
(* the second in which the callback runs, whatever tick it is for, and     *)
(* nothing joins the look to the launch.  Time is counted in seconds.      *)
(***************************************************************************)
EXTENDS Launcher

CONSTANTS
  TimerCalls, \* callbacks of the flow's timers in flight, on any instance
  Skip,       \* the flow's overlap policy is "skip"
  LockTtl,    \* seconds the lock of a second is held
  MaxLag,     \* seconds that pass from reading the clock until the lock is set
  MaxTime     \* bound of the clock

ASSUME SchedulerAssumption == Skip \in BOOLEAN /\ {LockTtl, MaxLag, MaxTime} \subseteq Nat

VARIABLES
  now,      \* the clock of all instances
  pc,       \* next step of the callback
  bucket,   \* the second the callback read from the clock
  expiry,   \* when the lock of each second expires, 0 if it is not held
  secondOf, \* the second the callback of a scheduled run had read, a history
  missed,   \* runs launched since the callback counted, a history
  beside    \* pairs of a run and one that its callback's count missed, a history

schedVars == <<now, pc, bucket, expiry, secondOf, missed, beside>>
vars      == <<launchVars, schedVars>>

Times == 0 .. MaxTime
Never == MaxTime + 1

SchedulerTypeOK ==
  /\ now \in Times
  /\ pc \in [TimerCalls -> {"idle", "acquire", "count", "launch"}]
  /\ bucket \in [TimerCalls -> Times]
  /\ expiry \in [Times -> 0 .. MaxTime + LockTtl]
  /\ secondOf \in [Runs -> Times \union {Never}]
  /\ missed \in [TimerCalls -> SUBSET Runs]
  /\ beside \subseteq Runs \X Runs

TypeOK == LauncherTypeOK /\ SchedulerTypeOK

\* The callback returns and its locals are gone.
Return(i) ==
  /\ pc' = [pc EXCEPT ![i] = "idle"]
  /\ bucket' = [bucket EXCEPT ![i] = 0]

GoTo(i, place) ==
  /\ pc' = [pc EXCEPT ![i] = place]
  /\ UNCHANGED bucket

Init ==
  /\ LauncherInit
  /\ now = 0
  /\ pc = [i \in TimerCalls |-> "idle"]
  /\ bucket = [i \in TimerCalls |-> 0]
  /\ expiry = [t \in Times |-> 0]
  /\ secondOf = [r \in Runs |-> Never]
  /\ missed = [i \in TimerCalls |-> {}]
  /\ beside = {}

\* Croner calls back, late or not; the callback reads the clock.
Fire(i) ==
  /\ pc[i] = "idle"
  /\ bucket' = [bucket EXCEPT ![i] = now]
  /\ pc' = [pc EXCEPT ![i] = "acquire"]
  /\ UNCHANGED <<launchVars, now, expiry, secondOf, missed, beside>>

\* Mutant: the lock is not asked for.
AcquireAlways(i) ==
  /\ pc[i] = "acquire"
  /\ GoTo(i, IF Skip THEN "count" ELSE "launch")
  /\ UNCHANGED <<launchVars, now, expiry, secondOf, missed, beside>>

\* SET key token PX ttl NX: one callback gets the second, the others return.
Acquire(i) ==
  /\ pc[i] = "acquire"
  /\ \/ /\ expiry[bucket[i]] > now
        /\ Return(i)
        /\ UNCHANGED expiry
     \/ /\ expiry[bucket[i]] <= now
        /\ expiry' = [expiry EXCEPT ![bucket[i]] = now + LockTtl]
        /\ GoTo(i, IF Skip THEN "count" ELSE "launch")
  /\ UNCHANGED <<launchVars, now, secondOf, missed, beside>>

\* Mutant: only a RUNNING run counts as active.
CountRunning(i) ==
  /\ pc[i] = "count"
  /\ IF \E r \in Runs : status[r] = "RUNNING" THEN Return(i) ELSE GoTo(i, "launch")
  /\ UNCHANGED <<launchVars, now, expiry, secondOf, missed, beside>>

\* The callback returns while a run of the flow is PENDING or RUNNING.
Count(i) ==
  /\ pc[i] = "count"
  /\ IF \E r \in Runs : status[r] \in Active THEN Return(i) ELSE GoTo(i, "launch")
  /\ UNCHANGED <<launchVars, now, expiry, secondOf, missed, beside>>

\* A scheduled run is never gated; the launcher goes on to enqueue it.
Launch(i) ==
  /\ pc[i] = "launch"
  /\ \E r \in Runs : status[r] = "none"
  /\ LET r == CHOOSE r \in Runs : status[r] = "none" IN  \* a new id
     /\ \E gate \in BOOLEAN : Create(r, "schedule", gate)
     /\ secondOf' = [secondOf EXCEPT ![r] = bucket[i]]
     /\ beside' = beside \union ({r} \X missed[i])
     /\ missed' = [k \in TimerCalls |-> IF k # i /\ pc[k] = "launch" THEN missed[k] \union {r} ELSE {}]
  /\ Return(i)
  /\ UNCHANGED <<now, expiry>>

\* All run ids of the model are in use: the callback is not followed further.
OutOfRuns(i) ==
  /\ pc[i] = "launch" /\ \A r \in Runs : status[r] # "none"
  /\ Return(i)
  /\ missed' = [missed EXCEPT ![i] = {}]
  /\ UNCHANGED <<launchVars, now, expiry, secondOf, beside>>

\* A second passes; no callback waits beyond MaxLag before it sets the lock.
Tick ==
  /\ now < MaxTime
  /\ \A i \in TimerCalls : pc[i] = "acquire" => now - bucket[i] < MaxLag
  /\ now' = now + 1
  /\ UNCHANGED <<launchVars, pc, bucket, expiry, secondOf, missed, beside>>

Trigger(i) == Fire(i) \/ Acquire(i) \/ Count(i) \/ Launch(i) \/ OutOfRuns(i)

Next == \/ LauncherNext /\ UNCHANGED schedVars
        \/ \E i \in TimerCalls : Trigger(i)
        \/ Tick

Spec == Init /\ [][Next]_vars

-----------------------------------------------------------------------------
(* Properties *)

\* Callbacks that read the same second launch at most one run, on however many
\* instances they run. Callbacks of one tick need not read the same second: two
\* that straddle it launch a run each.
OneRunPerSecond ==
  \A r, s \in Runs : r # s /\ secondOf[r] = secondOf[s] => secondOf[r] = Never

\* With overlap policy "skip" two scheduled runs are active at once only when
\* one of them was launched on a count made before the other was created, or
\* when one had been canceled and was revived by its worker.
NoOverlap ==
  Skip =>
    \A r, s \in Runs :
      /\ r # s /\ source[r] = "schedule" /\ source[s] = "schedule" /\ {r, s} \intersect canceled = {}
      /\ status[r] \in Active /\ status[s] \in Active
      => <<r, s>> \in beside \/ <<s, r>> \in beside
=============================================================================
