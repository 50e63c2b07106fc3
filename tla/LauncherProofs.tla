---------------------------- MODULE LauncherProofs ----------------------------
(***************************************************************************)
(* Proofs about the life of runs, for every set of runs, trigger sources   *)
(* and deciders, whether or not API processes die.                         *)
(***************************************************************************)
EXTENDS Launcher, TLAPS

\* A start leaves the job taken, so no second start finds it waiting.
StartsOnce == \A r \in Runs : takes[r] <= 1 /\ (takes[r] = 1 => job[r] \in {"active", "completed"})

\* A run that has no row has nothing else either.
NothingYet ==
  \A r \in Runs : status[r] = "none" =>
    approval[r] = "none" /\ takes[r] = 0 /\ job[r] = "absent" /\ r \notin launching

\* A run awaiting approval has a request.
Requested == \A r \in Runs : status[r] = "PENDING_APPROVAL" => approval[r] # "none"

\* A decision in progress was accepted, on a run that has a request.
DecisionAccepted ==
  \A d \in Deciders : decision[d] # NoDecision =>
    /\ <<d, decision[d].verdict>> \in accepted[decision[d].run]
    /\ approval[decision[d].run] # "none"
    /\ decision[d].step = "enqueue" => decision[d].verdict = "approve"

\* Nothing of a gated run is queued before an approval is accepted.
QueuedIfApproved ==
  \A r \in Runs : approval[r] # "none" /\ Approvals(r) = {} =>
    job[r] = "absent" /\ r \notin launching /\ takes[r] = 0

\* The worker at a step of a run holds the run's job.
WorkerHoldsJob == \A r \in Runs : step[r] # "idle" => job[r] = "active"

LauncherInv ==
  LauncherTypeOK /\ StartsOnce /\ WorkerHoldsJob /\ NothingYet /\ Requested /\ DecisionAccepted /\ QueuedIfApproved

LEMMA NoDecisionIdle == NoDecision \notin Decisions
BY DEF NoDecision, Decisions

LEMMA ApprovalsGrow ==
  ASSUME NEW r, NEW d, NEW S, accepted[r] = S, <<d, "approve">> \in S
  PROVE  Approvals(r) # {}
<1>1. <<d, "approve">>[2] = "approve"  OBVIOUS
<1> QED  BY <1>1 DEF Approvals

LEMMA LauncherInvInit == LauncherInit => LauncherInv
BY DEF LauncherInit, LauncherInv, LauncherTypeOK, StartsOnce, WorkerHoldsJob, NothingYet, Requested, DecisionAccepted,
       QueuedIfApproved, MaxTakes

-----------------------------------------------------------------------------
(* Types are kept by every action. *)

LEMMA LauncherTypeStep ==
  ASSUME LauncherTypeOK, [LauncherNext]_launchVars
  PROVE  LauncherTypeOK'
<1> USE LauncherAssumption, NoDecisionIdle DEF LauncherTypeOK, Active, Ended
<1>1. ASSUME NEW r \in Runs, NEW src \in Origins, NEW gate \in BOOLEAN, Create(r, src, gate)
      PROVE  LauncherTypeOK'
  BY <1>1 DEF Create, histVars, Sources, Interactive
<1>2. ASSUME NEW r \in Runs, Enqueue(r)
      PROVE  LauncherTypeOK'
  BY <1>2 DEF Enqueue, AddJob, histVars
<1>3. ASSUME NEW r \in Runs, LauncherDies(r)
      PROVE  LauncherTypeOK'
  BY <1>3 DEF LauncherDies
<1>4. ASSUME NEW r \in Runs, CancelRead(r) \/ CancelWrite(r)
      PROVE  LauncherTypeOK'
  BY <1>4 DEF CancelRead, CancelWrite, histVars
<1>5. ASSUME NEW r \in Runs, Take(r)
      PROVE  LauncherTypeOK'
  BY <1>5 DEF Take, histVars, MaxTakes
<1>6. ASSUME NEW r \in Runs, Mark(r) \/ Finish(r)
      PROVE  LauncherTypeOK'
  BY <1>6 DEF Mark, Finish, histVars
<1>7. ASSUME NEW d \in Deciders, NEW r \in Runs, NEW verdict \in Verdicts, DecideRead(d, r, verdict)
      PROVE  LauncherTypeOK'
  <2>1. [run |-> r, verdict |-> verdict, step |-> "request"] \in Decisions  BY DEF Decisions
  <2>2. <<d, verdict>> \in Deciders \X Verdicts  OBVIOUS
  <2> QED  BY <1>7, <2>1, <2>2 DEF DecideRead
<1>8. ASSUME NEW d \in Deciders, DecideRequest(d)
      PROVE  LauncherTypeOK'
  <2>1. decision[d] \in Decisions  BY <1>8 DEF DecideRequest, NoDecision
  <2> QED  BY <1>8, <2>1 DEF DecideRequest, histVars, Decisions
<1>9. ASSUME NEW d \in Deciders, DecideStatus(d)
      PROVE  LauncherTypeOK'
  <2>1. decision[d] \in Decisions  BY <1>9 DEF DecideStatus, NoDecision
  <2> QED  BY <1>9, <2>1 DEF DecideStatus, Decisions
<1>10. ASSUME NEW d \in Deciders, DecideEnqueue(d)
       PROVE  LauncherTypeOK'
  <2>1. decision[d] \in Decisions  BY <1>10 DEF DecideEnqueue, NoDecision
  <2> QED  BY <1>10, <2>1 DEF DecideEnqueue, AddJob, histVars, Decisions
<1>11. ASSUME NEW d \in Deciders, DeciderDies(d)
       PROVE  LauncherTypeOK'
  <2>1. decision[d] \in Decisions  BY <1>11 DEF DeciderDies
  <2> QED  BY <1>11, <2>1 DEF DeciderDies, Decisions
<1>12. CASE UNCHANGED launchVars
  BY <1>12 DEF launchVars, histVars
<1> QED
  BY <1>1, <1>2, <1>3, <1>4, <1>5, <1>6, <1>7, <1>8, <1>9, <1>10, <1>11, <1>12
     DEF LauncherNext, Work, DecideStep
-----------------------------------------------------------------------------
(* Every action keeps the invariant. *)

LEMMA LauncherInvStep ==
  ASSUME LauncherInv, [LauncherNext]_launchVars
  PROVE  LauncherInv'
<1>0. LauncherTypeOK /\ LauncherTypeOK'
  BY LauncherTypeStep DEF LauncherInv
<1> SUFFICES (StartsOnce /\ WorkerHoldsJob /\ NothingYet /\ Requested /\ DecisionAccepted /\ QueuedIfApproved)'
  BY <1>0 DEF LauncherInv
<1> USE LauncherAssumption, NoDecisionIdle, <1>0
    DEF LauncherInv, StartsOnce, WorkerHoldsJob, NothingYet, Requested, DecisionAccepted, QueuedIfApproved,
        LauncherTypeOK, Active, Ended, Approvals
<1>1. ASSUME NEW r \in Runs, NEW src \in Origins, NEW gate \in BOOLEAN, Create(r, src, gate)
      PROVE  (StartsOnce /\ WorkerHoldsJob /\ NothingYet /\ Requested /\ DecisionAccepted /\ QueuedIfApproved)'
  BY <1>1 DEF Create, histVars, Decisions
<1>2. ASSUME NEW r \in Runs, Enqueue(r)
      PROVE  (StartsOnce /\ WorkerHoldsJob /\ NothingYet /\ Requested /\ DecisionAccepted /\ QueuedIfApproved)'
  BY <1>2 DEF Enqueue, AddJob, histVars
<1>3. ASSUME NEW r \in Runs, LauncherDies(r)
      PROVE  (StartsOnce /\ WorkerHoldsJob /\ NothingYet /\ Requested /\ DecisionAccepted /\ QueuedIfApproved)'
  BY <1>3 DEF LauncherDies
<1>4. ASSUME NEW r \in Runs, CancelRead(r) \/ CancelWrite(r)
      PROVE  (StartsOnce /\ WorkerHoldsJob /\ NothingYet /\ Requested /\ DecisionAccepted /\ QueuedIfApproved)'
  BY <1>4 DEF CancelRead, CancelWrite, histVars
<1>5. ASSUME NEW r \in Runs, Take(r)
      PROVE  (StartsOnce /\ WorkerHoldsJob /\ NothingYet /\ Requested /\ DecisionAccepted /\ QueuedIfApproved)'
  BY <1>5 DEF Take, histVars, MaxTakes
<1>6. ASSUME NEW r \in Runs, Mark(r) \/ Finish(r)
      PROVE  (StartsOnce /\ WorkerHoldsJob /\ NothingYet /\ Requested /\ DecisionAccepted /\ QueuedIfApproved)'
  <2>1. CASE Mark(r)  BY <2>1 DEF Mark, histVars
  <2>2. CASE Finish(r)
    <3>0. \A q \in Runs \ {r} : status'[q] = status[q] /\ job'[q] = job[q] /\ step'[q] = step[q]
      BY <2>2 DEF Finish
    <3>1. step[r] = "work" /\ step'[r] = "idle" /\ job'[r] = "completed"
      BY <2>2 DEF Finish
    <3>2. status'[r] # "none" /\ (status'[r] \in {"SUCCESS", "FAILED"} \/ status'[r] = status[r])
      BY <2>2, <3>1 DEF Finish
    <3>3. UNCHANGED <<source, approval, launching, takes, decision, canceling, accepted>>
      BY <2>2 DEF Finish, histVars
    <3>4. StartsOnce' /\ WorkerHoldsJob'  BY <3>0, <3>1, <3>2, <3>3
    <3>5. NothingYet'  BY <3>0, <3>1, <3>2, <3>3
    <3>6. Requested'   BY <3>0, <3>1, <3>2, <3>3
    <3>7. DecisionAccepted'  BY <3>3
    <3>8. QueuedIfApproved'  BY <3>0, <3>1, <3>3
    <3> QED  BY <3>4, <3>5, <3>6, <3>7, <3>8
  <2> QED  BY <1>6, <2>1, <2>2
<1>7. ASSUME NEW d \in Deciders, NEW r \in Runs, NEW verdict \in Verdicts, DecideRead(d, r, verdict)
      PROVE  (StartsOnce /\ WorkerHoldsJob /\ NothingYet /\ Requested /\ DecisionAccepted /\ QueuedIfApproved)'
  BY <1>7 DEF DecideRead, Decisions
<1>8. ASSUME NEW d \in Deciders, DecideRequest(d)
      PROVE  (StartsOnce /\ WorkerHoldsJob /\ NothingYet /\ Requested /\ DecisionAccepted /\ QueuedIfApproved)'
  <2>1. decision[d] \in Decisions /\ decision[d] # NoDecision
    BY <1>8 DEF DecideRequest, NoDecision
  <2> DEFINE r == decision[d].run
  <2>0. r \in Runs  BY <2>1 DEF Decisions
  <2>2. /\ approval'[r] \in {"APPROVED", "REJECTED"} /\ approval[r] # "none"
        /\ \A q \in Runs \ {r} : approval'[q] = approval[q]
    <3>1. approval[r] # "none"  BY <2>1
    <3>2. approval' = [approval EXCEPT ![r] = IF decision[d].verdict = "approve" THEN "APPROVED" ELSE "REJECTED"]
      BY <1>8 DEF DecideRequest
    <3>3. approval \in [Runs -> {"none", "PENDING", "APPROVED", "REJECTED"}]  OBVIOUS
    <3> HIDE DEF r, LauncherInv, LauncherTypeOK
    <3> QED  BY <2>0, <3>1, <3>2, <3>3
  <2>3. /\ decision'[d] # NoDecision /\ decision'[d].run = r
        /\ decision'[d].verdict = decision[d].verdict /\ decision'[d].step = "status"
    BY <1>8, <2>1 DEF DecideRequest, Decisions, NoDecision
  <2>4. \A e \in Deciders \ {d} : decision'[e] = decision[e]
    BY <1>8 DEF DecideRequest
  <2>5. UNCHANGED <<status, source, launching, job, step, takes, accepted>>
    BY <1>8 DEF DecideRequest, histVars
  <2> HIDE DEF r
  <2>6. StartsOnce' /\ WorkerHoldsJob'  BY <2>5
  <2>7. NothingYet' /\ Requested' /\ QueuedIfApproved'  BY <2>0, <2>2, <2>5
  <2>8. ASSUME NEW e \in Deciders, decision'[e] # NoDecision
        PROVE  /\ <<e, decision'[e].verdict>> \in accepted'[decision'[e].run]
               /\ approval'[decision'[e].run] # "none"
               /\ decision'[e].step = "enqueue" => decision'[e].verdict = "approve"
    <3>1. CASE e = d  BY <2>0, <2>1, <2>2, <2>3, <2>5, <3>1 DEF r
    <3>2. CASE e # d
      <4>1. decision'[e] = decision[e] /\ decision[e] \in Decisions  BY <2>4, <2>8, <3>2
      <4> QED  BY <2>0, <2>2, <2>5, <2>8, <4>1 DEF Decisions
    <3> QED  BY <3>1, <3>2
  <2> QED  BY <2>6, <2>7, <2>8
<1>9. ASSUME NEW d \in Deciders, DecideStatus(d)
      PROVE  (StartsOnce /\ WorkerHoldsJob /\ NothingYet /\ Requested /\ DecisionAccepted /\ QueuedIfApproved)'
  <2>1. decision[d] \in Decisions  BY <1>9 DEF DecideStatus, NoDecision
  <2> QED  BY <1>9, <2>1 DEF DecideStatus, Decisions
<1>10. ASSUME NEW d \in Deciders, DecideEnqueue(d)
       PROVE  (StartsOnce /\ WorkerHoldsJob /\ NothingYet /\ Requested /\ DecisionAccepted /\ QueuedIfApproved)'
  <2>1. decision[d] \in Decisions /\ decision[d] # NoDecision
    BY <1>10 DEF DecideEnqueue, NoDecision
  <2>2. Approvals(decision[d].run) # {}
    BY <1>10, <2>1, ApprovalsGrow DEF DecideEnqueue
  <2> DEFINE r == decision[d].run
  <2>0. r \in Runs /\ approval[r] # "none"  BY <2>1 DEF Decisions
  <2>3. /\ \A q \in Runs \ {r} : job'[q] = job[q]
        /\ job'[r] # "absent" /\ (job[r] # "absent" => job'[r] = job[r])
    <3>1. job' = [job EXCEPT ![r] = IF job[r] = "absent" THEN "waiting" ELSE job[r]]
      BY <1>10 DEF DecideEnqueue, AddJob
    <3>2. job \in [Runs -> {"absent", "waiting", "active", "completed"}]  OBVIOUS
    <3> HIDE DEF r, LauncherInv, LauncherTypeOK
    <3> QED  BY <2>0, <3>1, <3>2
  <2>4. /\ decision'[d] = NoDecision
        /\ \A e \in Deciders \ {d} : decision'[e] = decision[e]
    BY <1>10 DEF DecideEnqueue
  <2>5. UNCHANGED <<status, source, approval, launching, step, takes, accepted>>
    BY <1>10 DEF DecideEnqueue, histVars
  <2>6. Approvals(r) # {}  BY <2>2
  <2> HIDE DEF r
  <2>7. StartsOnce' /\ WorkerHoldsJob'  BY <2>0, <2>3, <2>5
  <2>8. NothingYet' /\ Requested' /\ QueuedIfApproved'  BY <2>0, <2>3, <2>5, <2>6
  <2>9. DecisionAccepted'  BY <2>4, <2>5
  <2> QED  BY <2>7, <2>8, <2>9
<1>11. ASSUME NEW d \in Deciders, DeciderDies(d)
       PROVE  (StartsOnce /\ WorkerHoldsJob /\ NothingYet /\ Requested /\ DecisionAccepted /\ QueuedIfApproved)'
  BY <1>11 DEF DeciderDies
<1>12. CASE UNCHANGED launchVars
  BY <1>12 DEF launchVars, histVars
<1> QED
  BY <1>1, <1>2, <1>3, <1>4, <1>5, <1>6, <1>7, <1>8, <1>9, <1>10, <1>11, <1>12
     DEF LauncherNext, Work, DecideStep

LEMMA LauncherInvariant == LauncherSpec => []LauncherInv
BY LauncherInvInit, LauncherInvStep, PTL DEF LauncherSpec

-----------------------------------------------------------------------------
(* Theorems *)

\* Every variable keeps its type.
THEOREM LauncherTypeCorrect == LauncherSpec => []LauncherTypeOK
<1>1. LauncherInv => LauncherTypeOK  BY DEF LauncherInv
<1> QED  BY <1>1, LauncherInvariant, PTL

\* A run is started by at most one job, however many approvals, launches and
\* deaths of API processes there are.
THEOREM StartedAtMostOnce == LauncherSpec => []StartedOnce
<1>1. LauncherInv => StartedOnce  BY DEF LauncherInv, StartsOnce, StartedOnce
<1> QED  BY <1>1, LauncherInvariant, PTL

\* A gated run is not started before an approval of it was accepted.
THEOREM ApprovalComesFirst == LauncherSpec => []ApprovedBeforeRun
<1>1. LauncherInv => ApprovedBeforeRun
  BY DEF LauncherInv, QueuedIfApproved, ApprovedBeforeRun, LauncherTypeOK, MaxTakes
<1> QED  BY <1>1, LauncherInvariant, PTL

\* A cancel is overwritten by none but a worker or an approver that read the
\* run before it.
THEOREM CancelsAreKept == LauncherSpec => CancelKept
<1>1. ASSUME LauncherInv, [LauncherNext]_launchVars, NEW r \in Runs,
             status[r] = "CANCELED", step[r] # "mark", Approvals(r) = {}
      PROVE  status'[r] = "CANCELED"
  <2> USE <1>1 DEF LauncherInv, LauncherTypeOK, Ended
  <2>1. ASSUME NEW q \in Runs, NEW src \in Origins, NEW gate \in BOOLEAN, Create(q, src, gate)
        PROVE  status'[r] = "CANCELED"
    BY <2>1 DEF Create
  <2>2. ASSUME NEW q \in Runs, Enqueue(q) \/ LauncherDies(q) \/ CancelRead(q) \/ CancelWrite(q)
        PROVE  status'[r] = "CANCELED"
    BY <2>2 DEF Enqueue, LauncherDies, CancelRead, CancelWrite
  <2>3. ASSUME NEW q \in Runs, Work(q)
        PROVE  status'[r] = "CANCELED"
    BY <2>3 DEF Work, Take, Mark, Finish
  <2>4. ASSUME NEW d \in Deciders, DecideStatus(d)
        PROVE  status'[r] = "CANCELED"
    <3>1. decision[d] \in Decisions /\ decision[d] # NoDecision
      BY <2>4 DEF DecideStatus, NoDecision
    <3>2. decision[d].run = r => decision[d].verdict # "approve"
      BY <3>1, ApprovalsGrow DEF DecisionAccepted
    <3> QED  BY <2>4, <3>1, <3>2 DEF DecideStatus, Decisions, Verdicts
  <2>5. ASSUME NEW d \in Deciders,
               DecideRequest(d) \/ DecideEnqueue(d) \/ DeciderDies(d)
        PROVE  status'[r] = "CANCELED"
    BY <2>5 DEF DecideRequest, DecideEnqueue, DeciderDies
  <2>6. ASSUME NEW d \in Deciders, NEW q \in Runs, NEW verdict \in Verdicts, DecideRead(d, q, verdict)
        PROVE  status'[r] = "CANCELED"
    BY <2>6 DEF DecideRead
  <2>7. CASE UNCHANGED launchVars
    BY <2>7 DEF launchVars
  <2> QED  BY <2>1, <2>2, <2>3, <2>4, <2>5, <2>6, <2>7 DEF LauncherNext, DecideStep
<1>2. LauncherInv /\ [LauncherNext]_launchVars =>
        [\A r \in Runs : status[r] = "CANCELED" /\ step[r] # "mark" /\ Approvals(r) = {} =>
           status'[r] = "CANCELED"]_launchVars
  BY <1>1
<1> QED  BY <1>2, LauncherInvariant, PTL DEF LauncherSpec, CancelKept
=============================================================================
