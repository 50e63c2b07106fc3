------------------------------ MODULE Watchdog ------------------------------
(***************************************************************************)
(* SlaWatchdogService: the periodic sweep of one API instance, for one     *)
(* run.  Time is the two facts the sweep asks of it: whether a callback    *)
(* deadline has passed (late) and whether the run started more than        *)
(* STUCK_GRACE_MS ago (aged).                                              *)
(***************************************************************************)
EXTENDS RunState

CONSTANTS
  Sweepers,   \* API instances running a watchdog
  HasSla,     \* the flow has an slaMs
  MaxLost     \* bound on the sweeps that are abandoned half-way

ASSUME WatchdogAssumption == HasSla \in BOOLEAN /\ MaxLost \in Nat

VARIABLES
  wd,       \* next step of each sweep
  expired,  \* rows the sweep found past their deadline
  timedOut, \* rows the sweep failed
  old,      \* the run was aged when the sweep read the clock
  aged,     \* the run has been RUNNING for longer than the grace period
  lost      \* sweeps abandoned half-way so far

wdVars == <<wd, expired, timedOut, old, aged, lost>>

WatchdogTypeOK ==
  /\ wd \in [Sweepers -> {"idle", "expire", "count", "orphan", "fail"}]
  /\ expired \in [Sweepers -> SUBSET Instances]
  /\ timedOut \in [Sweepers -> SUBSET Instances]
  /\ old \in [Sweepers -> BOOLEAN]
  /\ aged \in BOOLEAN
  /\ lost \in 0 .. MaxLost

WatchdogInit ==
  /\ wd = [s \in Sweepers |-> "idle"]
  /\ expired = [s \in Sweepers |-> {}]
  /\ timedOut = [s \in Sweepers |-> {}]
  /\ old = [s \in Sweepers |-> FALSE]
  /\ aged = FALSE
  /\ lost = 0

SweepTo(s, l) == wd' = [wd EXCEPT ![s] = l]

DeadlinePasses(x) ==
  /\ row[x] = "WAITING_CALLBACK" /\ ~late[x]
  /\ late' = [late EXCEPT ![x] = TRUE]
  /\ UNCHANGED <<runStatus, row, owner, ext, queue, finished, wdVars>>

GracePasses ==
  /\ runStatus = "RUNNING" /\ ~aged
  /\ aged' = TRUE
  /\ UNCHANGED <<runVars, wd, expired, timedOut, old, lost>>

\* The run is among the RUNNING ones; find its rows past their deadline.
Sweep(s) ==
  /\ wd[s] = "idle" /\ runStatus = "RUNNING"
  /\ expired' = [expired EXCEPT ![s] =
                   {x \in Instances : row[x] = "WAITING_CALLBACK" /\ late[x]}]
  /\ old' = [old EXCEPT ![s] = aged]
  /\ SweepTo(s, "expire")
  /\ UNCHANGED <<runVars, timedOut, aged, lost>>

\* Mutant: the update does not check that the row is still waiting.
ExpireUnconditional(s, x) ==
  /\ wd[s] = "expire" /\ x \in expired[s]
  /\ expired' = [expired EXCEPT ![s] = @ \ {x}]
  /\ row' = [row EXCEPT ![x] = "FAILED"]
  /\ timedOut' = [timedOut EXCEPT ![s] = @ \union {x}]
  /\ UNCHANGED <<runStatus, owner, ext, late, queue, finished, wd, old, aged, lost>>

\* Fail an expired row that is still waiting.
ExpireCallback(s, x) ==
  /\ wd[s] = "expire" /\ x \in expired[s]
  /\ expired' = [expired EXCEPT ![s] = @ \ {x}]
  /\ \/ /\ row[x] = "WAITING_CALLBACK"
        /\ row' = [row EXCEPT ![x] = "FAILED"]
        /\ timedOut' = [timedOut EXCEPT ![s] = @ \union {x}]
     \/ /\ row[x] # "WAITING_CALLBACK"
        /\ UNCHANGED <<row, timedOut>>
  /\ UNCHANGED <<runStatus, owner, ext, late, queue, finished, wd, old, aged, lost>>

\* After the expired rows: one resume tick if any was failed; then the SLA.
ExpiryDone(s) ==
  /\ wd[s] = "expire" /\ expired[s] = {}
  /\ \/ timedOut[s] = {} /\ UNCHANGED queue
     \/ \E x \in timedOut[s] : EnqueueResume(x)
  /\ timedOut' = [timedOut EXCEPT ![s] = {}]
  /\ \E overdue \in {FALSE, HasSla} : SweepTo(s, IF overdue THEN "fail" ELSE "count")
  /\ UNCHANGED <<runStatus, rowVars, finished, expired, old, aged, lost>>

\* A run with a waiting row is suspended, not orphaned.
CountWaiting(s) ==
  /\ wd[s] = "count"
  /\ LET suspended == \E x \in Instances : row[x] = "WAITING_CALLBACK"
     IN  SweepTo(s, IF suspended \/ ~old[s] THEN "idle" ELSE "orphan")
  /\ old' = [old EXCEPT ![s] = FALSE]
  /\ UNCHANGED <<runVars, expired, timedOut, aged, lost>>

\* Mutant: a job that is completed is taken for one that is still to come.
IsOrphanedIfFailed == queue[RunJob] \in {"absent", "failed"}

\* isOrphaned looks at the initial job only.
IsOrphaned == queue[RunJob] \notin LiveJob

OrphanCheck(s) ==
  /\ wd[s] = "orphan"
  /\ SweepTo(s, IF IsOrphaned THEN "fail" ELSE "idle")
  /\ UNCHANGED <<runVars, expired, timedOut, old, aged, lost>>

\* fail: conditional on the run still being RUNNING.
FailRun(s) ==
  /\ wd[s] = "fail"
  /\ \/ runStatus = "RUNNING" /\ runStatus' = "FAILED" /\ EmitFinished
     \/ runStatus # "RUNNING" /\ UNCHANGED <<runStatus, finished>>
  /\ SweepTo(s, "idle")
  /\ old' = [old EXCEPT ![s] = FALSE]
  /\ UNCHANGED <<rowVars, queue, expired, timedOut, aged, lost>>

\* The sweep is abandoned: its process dies, or a query throws and is caught.
SweepLost(s) ==
  /\ lost < MaxLost /\ wd[s] # "idle"
  /\ lost' = lost + 1
  /\ SweepTo(s, "idle")
  /\ expired' = [expired EXCEPT ![s] = {}]
  /\ timedOut' = [timedOut EXCEPT ![s] = {}]
  /\ old' = [old EXCEPT ![s] = FALSE]
  /\ UNCHANGED <<runVars, aged>>

SweepStep(s) ==
  \/ Sweep(s) \/ ExpiryDone(s) \/ CountWaiting(s) \/ OrphanCheck(s) \/ FailRun(s)
  \/ \E x \in Instances : ExpireCallback(s, x)

TimePasses == GracePasses \/ \E x \in Instances : DeadlinePasses(x)

WatchdogNext == TimePasses \/ \E s \in Sweepers : SweepStep(s) \/ SweepLost(s)
=============================================================================
