------------------------------ MODULE Callback ------------------------------
(***************************************************************************)
(* CallbackService: what the external job of a callback node may call with *)
(* its one-time token.  A request is handled in steps, one between two     *)
(* awaited calls, and several requests may be in progress at once.         *)
(* An external job reports at least once; its report may be repeated.      *)
(***************************************************************************)
EXTENDS RunState

CONSTANTS
  Requests,     \* requests the API can be handling at the same time
  NoRequest,    \* the state of a free handler
  MaxBeats      \* bound on the number of heartbeats

ASSUME CallbackAssumption ==
  /\ NoRequest \notin [op : {"report", "resume", "beat"}, at : Instances]
  /\ MaxBeats \in Nat

VARIABLES
  req,    \* what each handler is doing: [op, at] or NoRequest
  beats   \* heartbeats accepted so far

cbVars == <<req, beats>>

CallbackTypeOK ==
  /\ req \in [Requests -> [op : {"report", "resume", "beat"}, at : Instances] \union {NoRequest}]
  /\ beats \in 0 .. MaxBeats

CallbackInit ==
  /\ req = [h \in Requests |-> NoRequest]
  /\ beats = 0

Handling(h, op, x) == req' = [req EXCEPT ![h] = [op |-> op, at |-> x]]
Reply(h) == req' = [req EXCEPT ![h] = NoRequest]

\* report: the row found by the token is not waiting, so it is taken to be
\* resolved already and the report is acknowledged without effect.
ReportIgnored(h, x) ==
  /\ req[h] = NoRequest /\ ext[x] # "idle"
  /\ row[x] # "WAITING_CALLBACK"
  /\ ext' = [ext EXCEPT ![x] = "reported"]
  /\ UNCHANGED <<runStatus, row, owner, late, queue, finished, cbVars>>

\* report: the row is waiting when read.
ReportRead(h, x) ==
  /\ req[h] = NoRequest /\ ext[x] # "idle"
  /\ row[x] = "WAITING_CALLBACK"
  /\ Handling(h, "report", x)
  /\ UNCHANGED <<runVars, beats>>

\* Mutant: the row is resolved without checking that it is still waiting.
ReportUnconditional(h) ==
  /\ req[h] # NoRequest /\ req[h].op = "report"
  /\ LET x == req[h].at IN
     /\ \E status \in Resolved : row' = [row EXCEPT ![x] = status]
     /\ Handling(h, "resume", x)
     /\ UNCHANGED <<runStatus, owner, ext, late, queue, finished, beats>>

\* Mutant: the resume is not enqueued after a failure report.
ReportWithoutResume(h) ==
  /\ req[h] # NoRequest /\ req[h].op = "report"
  /\ LET x == req[h].at IN
     /\ row[x] = "WAITING_CALLBACK"
     /\ \/ row' = [row EXCEPT ![x] = "SUCCESS"] /\ Handling(h, "resume", x) /\ UNCHANGED ext
        \/ /\ row' = [row EXCEPT ![x] = "FAILED"] /\ Reply(h)
           /\ ext' = [ext EXCEPT ![x] = "reported"]
     /\ UNCHANGED <<runStatus, owner, late, queue, finished, beats>>

\* Mutant: the caller's status is stored as it was sent.
ReportUnmapped(h) ==
  /\ req[h] # NoRequest /\ req[h].op = "report"
  /\ LET x == req[h].at IN
     /\ row[x] = "WAITING_CALLBACK"
     /\ \E status \in {"success", "failure"} : row' = [row EXCEPT ![x] = status]
     /\ Handling(h, "resume", x)
     /\ UNCHANGED <<runStatus, owner, ext, late, queue, finished, beats>>

\* report: the conditional update; the loser of the race only acknowledges.
ReportWrite(h) ==
  /\ req[h] # NoRequest /\ req[h].op = "report"
  /\ LET x == req[h].at IN
     \/ /\ row[x] = "WAITING_CALLBACK"
        /\ \E status \in Resolved : row' = [row EXCEPT ![x] = status]
        /\ Handling(h, "resume", x)
        /\ UNCHANGED <<runStatus, owner, ext, late, queue, finished, beats>>
     \/ /\ row[x] # "WAITING_CALLBACK"
        /\ ext' = [ext EXCEPT ![x] = "reported"]
        /\ Reply(h)
        /\ UNCHANGED <<runStatus, row, owner, late, queue, finished, beats>>

\* report: enqueue the resume tick and acknowledge.
ReportResume(h) ==
  /\ req[h] # NoRequest /\ req[h].op = "resume"
  /\ EnqueueResume(req[h].at)
  /\ ext' = [ext EXCEPT ![req[h].at] = "reported"]
  /\ Reply(h)
  /\ UNCHANGED <<runStatus, row, owner, late, finished, beats>>

\* heartbeat: accepted for a waiting row only (any other answer is an error).
HeartbeatRead(h, x) ==
  /\ req[h] = NoRequest /\ ext[x] = "running" /\ beats < MaxBeats
  /\ row[x] = "WAITING_CALLBACK"
  /\ Handling(h, "beat", x)
  /\ beats' = beats + 1
  /\ UNCHANGED runVars

\* heartbeat: the deadline is written by id, whatever the row's status is.
HeartbeatWrite(h) ==
  /\ req[h] # NoRequest /\ req[h].op = "beat"
  /\ late' = [late EXCEPT ![req[h].at] = FALSE]
  /\ Reply(h)
  /\ UNCHANGED <<runStatus, row, owner, ext, queue, finished, beats>>

\* The API process dies inside the request: the caller gets no answer.
RequestLost(h) ==
  /\ ApiMayCrash /\ req[h] # NoRequest
  /\ Reply(h)
  /\ UNCHANGED <<runVars, beats>>

CallbackStep(h) == ReportWrite(h) \/ ReportResume(h) \/ HeartbeatWrite(h)

CallbackNext ==
  \E h \in Requests :
    \/ CallbackStep(h) \/ RequestLost(h)
    \/ \E x \in Instances : ReportIgnored(h, x) \/ ReportRead(h, x) \/ HeartbeatRead(h, x)
=============================================================================
