----------------------------- MODULE AgentLoop ------------------------------
(***************************************************************************)
(* The durable tool loop of one agent node (LlmAgentService).  The first   *)
(* turn runs inside the engine's job; a turn that calls tools launches one *)
(* child run per call, saves the conversation and suspends the node.  Each *)
(* child that finishes adds a resume job to the parent run, and the resume *)
(* jobs ("ticks", several may be active at once) feed the results back and *)
(* run the next turn.  The SLA watchdog may time the suspended node out.   *)
(*                                                                         *)
(* The engine bounds each attempt at the first turn by the node's timeout  *)
(* and repeats a failed one.  An attempt it has given up is not stopped:   *)
(* it goes on, next to the following one and to the ticks, and writes the  *)
(* agent's row like them.  So everybody works on a copy of the row.        *)
(***************************************************************************)
EXTENDS Naturals, Sequences, FiniteSets

CONSTANTS
  Ticks,       \* resume jobs of the run that may be active at once
  Calls,       \* tool calls of a model reply
  Offered,     \* calls the reply of each turn may hold
  MaxTurns,    \* maxToolTurns
  AgentRetries,  \* the node's retry.max
  HasTimeout,  \* the node has a timeoutMs
  MaxCrashes   \* worker crashes

Starts == 0 .. AgentRetries

ASSUME AgentAssumption ==
  /\ AgentRetries \in Nat /\ HasTimeout \in BOOLEAN
  /\ Ticks \intersect Starts = {}
  /\ MaxTurns \in Nat \ {0} /\ MaxCrashes \in Nat
  /\ Offered \in [1 .. MaxTurns -> SUBSET Calls]

VARIABLES
  agent,     \* LlmAgentState.status, "none" without a row
  turn,      \* LlmAgentState.turn
  messages,  \* LlmAgentState.messages: calls and results, by turn
  pending,   \* the batch of calls in LlmAgentState.pendingTools, or NoBatch
  child,     \* the child run of each call, by who launched it at which turn
  node,      \* status of the agent's NodeRun
  runOver,   \* the parent run is terminal
  resumes,   \* resume jobs waiting in the queue
  engine,    \* what the job that executes the node does
  attempt,   \* the attempt whose result the engine waits for
  doing,     \* next step of each attempt and tick
  copy,      \* the turn and messages each of them has read
  seen,      \* the batch whose results it is to feed back, or NoBatch
  outcome,   \* how its turn ended
  crashes,   \* worker crashes so far
  stale,     \* a tick fed back calls other than those waited for, a history
  abandoned  \* an attempt went on next to the following one, a history

rowVars     == <<agent, turn, messages, pending>>
engineVars  == <<engine, attempt, abandoned>>
outsideVars == <<child, node, runOver, resumes, crashes>>
agentVars   == <<rowVars, engineVars, outsideVars, doing, copy, seen, outcome, stale>>

Procs      == Ticks \union Starts
Turns      == 1 .. MaxTurns
MaxResumes == 1  \* bound of the queue; a second waiting resume would find the same state
Settled    == {"SUCCESS", "FAILED"}
InTurn     == {"reset", "feed", "turn", "think", "commit"}

Msg(role, t)  == [role |-> role, turn |-> t]
Copy(t, talk) == [turn |-> t, messages |-> talk]
NoCopy        == Copy(0, <<>>)
Batch(p, t)   == [by |-> p, turn |-> t]
NoBatch       == Batch(0, 0)

AgentTypeOK ==
  /\ agent \in {"none", "RUNNING_TURN", "WAITING_TOOLS", "DONE"}
  /\ turn \in Nat
  /\ \A i \in DOMAIN messages : messages[i] \in [role : {"call", "results"}, turn : 0 .. MaxTurns]
  /\ pending \in [by : Procs, turn : 0 .. MaxTurns]
  /\ child \in [Procs -> [Turns -> [Calls -> {"none", "live", "ended", "notified", "silent"}]]]
  /\ node \in {"none", "RUNNING", "WAITING"} \union Settled
  /\ runOver \in BOOLEAN
  /\ resumes \in 0 .. MaxResumes
  /\ engine \in {"idle", "wait", "advance", "retry"} /\ attempt \in Starts
  /\ doing \in [Procs -> InTurn \union {"idle", "node", "claim", "resume", "finalize", "close", "advance"}]
  /\ \A p \in Procs : copy[p].turn \in Nat
  /\ seen \in [Procs -> [by : Procs, turn : 0 .. MaxTurns]]
  /\ outcome \in [Procs -> {"none", "suspend", "done", "failed"}]
  /\ crashes \in 0 .. MaxCrashes
  /\ stale \in BOOLEAN /\ abandoned \in BOOLEAN

AgentInit ==
  /\ agent = "none" /\ turn = 0 /\ messages = <<>> /\ pending = NoBatch
  /\ child = [p \in Procs |-> [t \in Turns |-> [c \in Calls |-> "none"]]]
  /\ node = "none" /\ runOver = FALSE /\ resumes = 0
  /\ engine = "idle" /\ attempt = 0
  /\ doing = [p \in Procs |-> "idle"]
  /\ copy = [p \in Procs |-> NoCopy]
  /\ seen = [p \in Procs |-> NoBatch]
  /\ outcome = [p \in Procs |-> "none"]
  /\ crashes = 0 /\ stale = FALSE /\ abandoned = FALSE

Goto(p, l)    == doing' = [doing EXCEPT ![p] = l]
EnqueueResume == resumes' = IF resumes < MaxResumes THEN resumes + 1 ELSE resumes

\* What p keeps in memory from now on.
Keep(p, row, batch, how) ==
  /\ copy' = [copy EXCEPT ![p] = row]
  /\ seen' = [seen EXCEPT ![p] = batch]
  /\ outcome' = [outcome EXCEPT ![p] = how]
KeepNothing(p) == Keep(p, NoCopy, NoBatch, "none")

\* The processes in S end, or die, with what they have in memory.
Forget(S) ==
  /\ copy' = [p \in Procs |-> IF p \in S THEN NoCopy ELSE copy[p]]
  /\ seen' = [p \in Procs |-> IF p \in S THEN NoBatch ELSE seen[p]]
  /\ outcome' = [p \in Procs |-> IF p \in S THEN "none" ELSE outcome[p]]
Leave(S) == Forget(S) /\ doing' = [p \in Procs |-> IF p \in S THEN "idle" ELSE doing[p]]

\* A call is resolved: refused at once, or its child run is terminal.
StatusOf(b)     == IF b.turn = 0 THEN {} ELSE {child[b.by][b.turn][c] : c \in Calls}
AllToolsDone(b) == "live" \notin StatusOf(b)

-----------------------------------------------------------------------------
(* The engine executes the node: attempts at the first turn *)

\* The node's row is claimed and the first attempt begins.
Claim ==
  /\ engine = "idle" /\ ~runOver /\ node = "none"
  /\ node' = "RUNNING" /\ engine' = "wait" /\ attempt' = 0
  /\ Goto(0, "reset")
  /\ UNCHANGED <<rowVars, child, runOver, resumes, crashes, copy, seen, outcome, stale, abandoned>>

\* start: the agent's row is reset, whoever is working on it.
Start(k) ==
  /\ doing[k] = "reset"
  /\ agent' = "RUNNING_TURN" /\ turn' = 0 /\ messages' = <<>> /\ pending' = NoBatch
  /\ Goto(k, "turn")
  /\ UNCHANGED <<engineVars, outsideVars, copy, seen, outcome, stale>>

Returned(k) == doing[k] = "finalize"

\* The attempt has failed, or its time is over while it goes on: the next one.
NextStart ==
  /\ engine = "wait" /\ attempt < AgentRetries
  /\ HasTimeout \/ (Returned(attempt) /\ outcome[attempt] = "failed")
  /\ attempt' = attempt + 1
  /\ abandoned' = (abandoned \/ ~Returned(attempt))
  /\ LET ended == IF Returned(attempt) THEN {attempt} ELSE {} IN
     /\ Forget(ended)
     /\ doing' = [p \in Procs |-> IF p = attempt + 1 THEN "reset" ELSE IF p \in ended THEN "idle" ELSE doing[p]]
  /\ UNCHANGED <<rowVars, outsideVars, engine, stale>>

\* The engine records the result of the last attempt by the row's id.
RecordNode(how) ==
  /\ node' = CASE how = "done"    -> "SUCCESS"
               [] how = "failed"  -> "FAILED"
               [] how = "suspend" -> "WAITING"
  /\ engine' = "advance"
  /\ UNCHANGED <<rowVars, child, runOver, resumes, crashes, stale, attempt, abandoned>>

RecordStart ==
  /\ engine = "wait" /\ Returned(attempt)
  /\ outcome[attempt] = "failed" => attempt = AgentRetries
  /\ RecordNode(outcome[attempt])
  /\ Leave({attempt})

\* The time of the last attempt is over; it goes on.
RecordTimeout ==
  /\ engine = "wait" /\ HasTimeout /\ attempt = AgentRetries /\ ~Returned(attempt)
  /\ RecordNode("failed")
  /\ UNCHANGED <<doing, copy, seen, outcome>>

\* Mutant: what an attempt returns that was given up is recorded all the same.
ReturnHeard(k) ==
  /\ Returned(k) /\ ~(engine = "wait" /\ k = attempt)
  /\ node' = IF outcome[k] = "done" THEN "SUCCESS" ELSE node
  /\ Leave({k})
  /\ UNCHANGED <<rowVars, engineVars, child, runOver, resumes, crashes, stale>>

\* What an attempt returns that was given up is dropped.
ReturnUnheard(k) ==
  /\ Returned(k) /\ ~(engine = "wait" /\ k = attempt)
  /\ Leave({k})
  /\ UNCHANGED <<rowVars, engineVars, outsideVars, stale>>

\* The engine advances; with the agent's node settled the run ends.
EngineAdvance ==
  /\ engine = "advance"
  /\ runOver' = (runOver \/ node \in Settled)
  /\ engine' = "idle"
  /\ UNCHANGED <<rowVars, child, node, resumes, crashes, doing, copy, seen, outcome, stale, attempt, abandoned>>

\* The job of a dead worker is taken up again: it deletes the RUNNING row of
\* the node, continues a suspended agent as a tick does, and claims the node.
RetryJob ==
  /\ engine = "retry"
  /\ engine' = "idle"
  /\ IF runOver THEN UNCHANGED <<node, resumes>>
     ELSE node' = (IF node = "RUNNING" THEN "none" ELSE node) /\ EnqueueResume
  /\ UNCHANGED <<rowVars, child, runOver, crashes, doing, copy, seen, outcome, stale, attempt, abandoned>>

-----------------------------------------------------------------------------
(* continue: a resume tick looks for a suspended agent *)

\* The job is taken from the queue and, unless the run is over, the agent's row
\* is read: it waits and the calls it waits for are resolved, or nothing to do.
TickTake(p) ==
  /\ doing[p] = "idle" /\ resumes > 0
  /\ resumes' = resumes - 1
  /\ \/ runOver /\ UNCHANGED <<doing, seen>>
     \/ /\ ~runOver /\ agent = "WAITING_TOOLS" /\ AllToolsDone(pending)
        /\ seen' = [seen EXCEPT ![p] = pending]
        /\ Goto(p, "node")
     \/ /\ ~runOver /\ ~(agent = "WAITING_TOOLS" /\ AllToolsDone(pending))
        /\ Goto(p, "advance")
        /\ UNCHANGED seen
  /\ UNCHANGED <<rowVars, engineVars, child, node, runOver, crashes, copy, outcome, stale>>

\* Mutant: a node not yet suspended is left alone, not tried again.
TickNodeOnce(p) ==
  /\ doing[p] = "node"
  /\ \/ node # "WAITING" /\ KeepNothing(p) /\ Goto(p, IF node = "RUNNING" THEN "advance" ELSE "close")
     \/ node = "WAITING" /\ Goto(p, "claim") /\ UNCHANGED <<copy, seen, outcome>>
  /\ UNCHANGED <<rowVars, engineVars, outsideVars, stale>>

\* A node that is settled or gone closes the loop; one not yet suspended is
\* tried again later.
TickNode(p) ==
  /\ doing[p] = "node"
  /\ \/ /\ node \in Settled \union {"none"}
        /\ Goto(p, "close")
        /\ KeepNothing(p)
        /\ UNCHANGED resumes
     \/ /\ node = "RUNNING"
        /\ EnqueueResume
        /\ Goto(p, "advance")
        /\ KeepNothing(p)
     \/ /\ node = "WAITING"
        /\ Goto(p, "claim")
        /\ UNCHANGED <<copy, seen, outcome, resumes>>
  /\ UNCHANGED <<rowVars, engineVars, child, node, runOver, crashes, stale>>

\* Mutant: the turn is taken without looking at the agent's status.
TickClaimBlind(p) ==
  /\ doing[p] = "claim"
  /\ agent' = "RUNNING_TURN"
  /\ stale' = (stale \/ seen[p] # pending)
  /\ Goto(p, "feed")
  /\ UNCHANGED <<turn, messages, pending, engineVars, outsideVars, copy, seen, outcome>>

\* WAITING_TOOLS -> RUNNING_TURN; whoever finds it so owns the turn.
TickClaim(p) ==
  /\ doing[p] = "claim"
  /\ \/ /\ agent = "WAITING_TOOLS"
        /\ agent' = "RUNNING_TURN"
        /\ stale' = (stale \/ seen[p] # pending)
        /\ Goto(p, "feed")
        /\ UNCHANGED <<copy, seen, outcome>>
     \/ /\ agent # "WAITING_TOOLS"
        /\ Goto(p, "advance")
        /\ KeepNothing(p)
        /\ UNCHANGED <<agent, stale>>
  /\ UNCHANGED <<turn, messages, pending, engineVars, outsideVars>>

\* appendUserMessage: the results of the calls the process has read or refused
\* are appended to the conversation.
AppendResults(p) ==
  /\ doing[p] = "feed"
  /\ messages' = Append(messages, Msg("results", seen[p].turn))
  /\ Goto(p, "turn")
  /\ KeepNothing(p)
  /\ UNCHANGED <<agent, turn, pending, engineVars, outsideVars, stale>>

\* The node of a failed turn is failed, if it is still suspended; the agent's
\* row follows.
FailNode(p) ==
  /\ node' = IF node = "WAITING" THEN "FAILED" ELSE node
  /\ Goto(p, "close")
  /\ KeepNothing(p)
  /\ UNCHANGED <<rowVars, engineVars, child, runOver, resumes, crashes, stale>>

\* The context cannot be rebuilt: the flow was edited or the secret removed.
Unresolved(p) == doing[p] = "feed" /\ FailNode(p)

\* A call of the turn throws, be it the model's or the database's.
TickThrow(p) == doing[p] \in InTurn \union {"resume"} /\ FailNode(p)

CloseAgent(p) ==
  /\ doing[p] = "close"
  /\ agent' = "DONE"
  /\ Goto(p, "advance")
  /\ UNCHANGED <<turn, messages, pending, engineVars, outsideVars, copy, seen, outcome, stale>>

-----------------------------------------------------------------------------
(* runTurn, of attempts and ticks *)

\* The row is read and the model asked.
RunTurn(p) ==
  /\ doing[p] = "turn"
  /\ Keep(p, Copy(turn, messages), NoBatch, "none")
  /\ Goto(p, "think")
  /\ UNCHANGED <<rowVars, engineVars, outsideVars, stale>>

ThisTurn(p) == copy[p].turn + 1

\* The turn ends the loop: the model has answered, the attempt has thrown, or
\* the reply still asks for tools after maxToolTurns turns.
EndLoop(p, how) ==
  /\ agent' = "DONE"
  /\ Keep(p, NoCopy, NoBatch, how)
  /\ Goto(p, "finalize")
  /\ UNCHANGED <<messages, pending, engineVars, outsideVars, stale>>

Answer(p) ==
  /\ doing[p] = "think"
  /\ turn' = ThisTurn(p)
  /\ EndLoop(p, "done")

Exceed(p) ==
  /\ doing[p] = "think" /\ ThisTurn(p) > MaxTurns
  /\ turn' = ThisTurn(p)
  /\ EndLoop(p, "failed")

\* An error of start is the attempt's result, and closes the agent unless it
\* was the reset that failed.
StartThrows(k) ==
  \/ /\ doing[k] \in (InTurn \ {"reset"}) \union {"resume"}
     /\ UNCHANGED turn
     /\ EndLoop(k, "failed")
  \/ /\ doing[k] = "reset"
     /\ Keep(k, NoCopy, NoBatch, "failed")
     /\ Goto(k, "finalize")
     /\ UNCHANGED <<rowVars, engineVars, outsideVars, stale>>

\* The reply asks for tools: each call is refused (unknown tool, cycle,
\* guardrail) or launches a child run.
LaunchTools(p) ==
  /\ doing[p] = "think" /\ ThisTurn(p) <= MaxTurns
  /\ \E launched \in SUBSET Offered[ThisTurn(p)] :
       child' = [child EXCEPT ![p][ThisTurn(p)] =
                   [c \in Calls |-> IF c \in launched THEN "live" ELSE "none"]]
  /\ Goto(p, "commit")
  /\ UNCHANGED <<rowVars, engineVars, node, runOver, resumes, crashes, copy, seen, outcome, stale>>

Launched(p) == \E c \in Calls : child[p][ThisTurn(p)][c] # "none"

\* With a child to wait for the turn suspends.
Suspend(p) ==
  /\ Launched(p)
  /\ agent' = "WAITING_TOOLS"
  /\ Keep(p, NoCopy, NoBatch, IF p \in Starts THEN "suspend" ELSE "none")
  /\ Goto(p, "resume")

\* Mutant: the refusals of a reply without a launched call are not fed back.
CommitUnanswered(p) ==
  /\ doing[p] = "commit"
  /\ turn' = ThisTurn(p)
  /\ pending' = Batch(p, ThisTurn(p))
  /\ messages' = Append(copy[p].messages, Msg("call", ThisTurn(p)))
  /\ \/ Suspend(p)
     \/ ~Launched(p) /\ agent' = "RUNNING_TURN" /\ KeepNothing(p) /\ Goto(p, "turn")
  /\ UNCHANGED <<engineVars, outsideVars, stale>>

\* The conversation and the calls are saved; with no child to wait for, the
\* refusals are fed back and the next turn begins.
Commit(p) ==
  /\ doing[p] = "commit"
  /\ turn' = ThisTurn(p)
  /\ pending' = Batch(p, ThisTurn(p))
  /\ messages' = Append(copy[p].messages, Msg("call", ThisTurn(p)))
  /\ \/ Suspend(p)
     \/ ~Launched(p) /\ agent' = "RUNNING_TURN" /\ Keep(p, NoCopy, pending', "none") /\ Goto(p, "feed")
  /\ UNCHANGED <<engineVars, outsideVars, stale>>

\* Mutant: the job that suspended the turn does not resume the run.
NoSelfResume(p) ==
  /\ doing[p] = "resume"
  /\ Goto(p, IF p \in Starts THEN "finalize" ELSE "advance")
  /\ UNCHANGED <<rowVars, engineVars, outsideVars, copy, seen, outcome, stale>>

\* A suspended turn resumes the run once: a child may have finished before.
SelfResume(p) ==
  /\ doing[p] = "resume"
  /\ EnqueueResume
  /\ Goto(p, IF p \in Starts THEN "finalize" ELSE "advance")
  /\ UNCHANGED <<rowVars, engineVars, child, node, runOver, crashes, copy, seen, outcome, stale>>

\* finalizeNode writes a node that is still suspended.
FinalizeNode(p) ==
  /\ doing[p] = "finalize"
  /\ node' = IF node # "WAITING" THEN node
             ELSE IF outcome[p] = "done" THEN "SUCCESS" ELSE "FAILED"
  /\ Goto(p, "advance")
  /\ UNCHANGED <<rowVars, engineVars, child, runOver, resumes, crashes, copy, seen, outcome, stale>>

\* The tick's job advances; with the agent's node settled the run ends.
Advance(p) ==
  /\ doing[p] = "advance"
  /\ runOver' = (runOver \/ node \in Settled)
  /\ Leave({p})
  /\ UNCHANGED <<rowVars, engineVars, child, node, resumes, crashes, stale>>

-----------------------------------------------------------------------------
(* Child runs, the watchdog, the user and crashes *)

ChildIs(p, t, c, s) ==
  /\ child' = [child EXCEPT ![p][t][c] = s]
  /\ UNCHANGED <<rowVars, engineVars, node, runOver, doing, copy, seen, outcome, stale>>

\* A child run is finalized; its FLOW_RUN_FINISHED follows.
ChildEnds(p, t, c) == child[p][t][c] = "live" /\ ChildIs(p, t, c, "ended") /\ UNCHANGED <<resumes, crashes>>

\* onChildFinished resumes a parent run that is not terminal.
OnChildFinished(p, t, c) ==
  /\ child[p][t][c] = "ended" /\ ChildIs(p, t, c, "notified")
  /\ IF runOver THEN UNCHANGED resumes ELSE EnqueueResume
  /\ UNCHANGED crashes

\* A canceled child run emits no event; the one of a child run that the
\* watchdog fails names no parent.
EndsSilently(p, t, c) == child[p][t][c] = "live" /\ ChildIs(p, t, c, "silent") /\ UNCHANGED <<resumes, crashes>>
ChildCanceled(p, t, c) == EndsSilently(p, t, c)
ChildFailed(p, t, c) == EndsSilently(p, t, c)

\* The watchdog fails a suspended node whose deadline has passed.
TimeOut ==
  /\ node = "WAITING"
  /\ node' = "FAILED"
  /\ EnqueueResume
  /\ UNCHANGED <<rowVars, engineVars, child, runOver, crashes, doing, copy, seen, outcome, stale>>

CancelAgentRun ==
  /\ ~runOver /\ runOver' = TRUE
  /\ UNCHANGED <<rowVars, engineVars, child, node, resumes, crashes, doing, copy, seen, outcome, stale>>

\* The worker with the engine's job dies, and with it every attempt it has
\* begun; if the job was in progress it stalls and is taken up again.
WorkerDies ==
  /\ engine # "idle" \/ \E k \in Starts : doing[k] # "idle"
  /\ crashes < MaxCrashes /\ crashes' = crashes + 1
  /\ engine' = IF engine = "idle" THEN "idle" ELSE "retry"
  /\ Leave(Starts)
  /\ UNCHANGED <<rowVars, child, node, runOver, resumes, stale, attempt, abandoned>>

\* The worker of a tick dies; the stalled resume job is taken up again.
TickDies(p) ==
  /\ doing[p] # "idle" /\ crashes < MaxCrashes
  /\ crashes' = crashes + 1
  /\ Leave({p})
  /\ EnqueueResume
  /\ UNCHANGED <<rowVars, engineVars, child, node, runOver, stale>>

\* The worker of a child dies between the child's status and its event.
EventDies(p, t, c) ==
  /\ child[p][t][c] = "ended" /\ ChildIs(p, t, c, "silent")
  /\ crashes < MaxCrashes /\ crashes' = crashes + 1
  /\ UNCHANGED resumes

TurnStep(p) ==
  \/ AppendResults(p) \/ RunTurn(p)
  \/ Answer(p) \/ Exceed(p) \/ LaunchTools(p) \/ Commit(p) \/ SelfResume(p)

TickStep(p) ==
  \/ TickTake(p) \/ TickNode(p) \/ TickClaim(p)
  \/ Unresolved(p) \/ TickThrow(p) \/ CloseAgent(p) \/ FinalizeNode(p) \/ Advance(p) \/ TurnStep(p)

StartStep(k) == Start(k) \/ TurnStep(k) \/ StartThrows(k) \/ ReturnUnheard(k)

EngineStep == Claim \/ NextStart \/ RecordStart \/ RecordTimeout \/ EngineAdvance \/ RetryJob

ChildStep(p, t, c) == ChildEnds(p, t, c) \/ OnChildFinished(p, t, c)

AgentNext ==
  \/ EngineStep
  \/ \E k \in Starts : StartStep(k)
  \/ \E p \in Ticks : TickStep(p) \/ TickDies(p)
  \/ \E p \in Procs, t \in Turns, c \in Calls :
       ChildStep(p, t, c) \/ ChildCanceled(p, t, c) \/ ChildFailed(p, t, c) \/ EventDies(p, t, c)
  \/ TimeOut \/ CancelAgentRun \/ WorkerDies

AgentSpec == AgentInit /\ [][AgentNext]_agentVars

\* Jobs and child runs make progress; users and the watchdog may do nothing.
AgentFairness ==
  /\ WF_agentVars(EngineStep)
  /\ \A k \in Starts : WF_agentVars(StartStep(k))
  /\ \A p \in Ticks : WF_agentVars(TickStep(p))
  /\ \A p \in Procs, t \in Turns, c \in Calls : WF_agentVars(ChildStep(p, t, c))

AgentFairSpec == AgentSpec /\ AgentFairness

-----------------------------------------------------------------------------
(* Properties *)

\* One job at a time runs a turn of the agent, although several resume jobs
\* find the same calls resolved, and attempts fail, are repeated and go on
\* after the node has failed. Only if the node's timeout gives an attempt up
\* and the next one begins while it goes on (`abandoned`) both work on the row,
\* and the ticks each of them wakes.
TurnHasOneOwner ==
  ~abandoned => \A p, q \in Procs : doing[p] \in InTurn /\ doing[q] \in InTurn => p = q

\* Every tool call in the saved conversation is followed by its own results
\* and every result follows its call, unless a tick claimed a later turn than
\* the one it had looked at, or an abandoned attempt wrote to it.
CallsThenResults ==
  ~stale /\ ~abandoned =>
    \A i \in DOMAIN messages :
      /\ messages[i].role = IF i % 2 = 1 THEN "call" ELSE "results"
      /\ messages[i].turn = (i + 1) \div 2

\* A child the agent waits for was canceled or failed by the watchdog, or its
\* event died with its worker.
Silenced == "silent" \in StatusOf(pending)

\* A finished tool call wakes the agent up: when all calls a suspended agent
\* waits for are resolved, a resume is queued, under way or about to be added.
\* A child may finish before the turn that launched it has been saved, and an
\* abandoned attempt may have replaced the calls that are waited for; it
\* resumes the run itself unless its worker dies after the job has ended.
NoLostResume ==
  /\ agent = "WAITING_TOOLS" /\ node = "WAITING" /\ AllToolsDone(pending) /\ ~Silenced /\ ~runOver
  /\ ~(abandoned /\ crashes > 0)
  => \/ resumes > 0
     \/ \E p \in Procs : doing[p] \in {"node", "claim", "resume"}
     \/ "ended" \in StatusOf(pending)

\* A result of the agent's node is final: a turn that ends after the watchdog
\* timed the node out does not overwrite it, nor does an attempt the engine
\* has given up.
AgentResultStable == [][(node \in Settled) => (node' = node)]_agentVars

\* The agent's node is settled at last, whatever the model replies, unless a
\* crash, a child that ended in silence or an abandoned attempt left it to the
\* watchdog: the latter closes the agent's row when it ends, whoever waits.
AgentEnds ==
  node = "RUNNING" ~> node \in Settled \/ runOver \/ Silenced \/ crashes > 0 \/ abandoned
=============================================================================
