--------------------------- MODULE AgentLoopProofs ---------------------------
(***************************************************************************)
(* The agent loop for every number of resume jobs, tool calls, turns,      *)
(* retries and crashes: a turn has one owner, no finished tool call is     *)
(* forgotten, the result of the agent's node is final, and each tool call  *)
(* is answered by its own results.                                         *)
(*                                                                         *)
(* The node's status separates the first turn from the later ones: it is   *)
(* RUNNING while the engine waits for an attempt, and a resume job gets    *)
(* past it only once it is not.  The resume jobs among themselves are kept *)
(* apart by the conditional write of the agent's status.  An attempt that  *)
(* goes on next to the following one breaks the separation, but not the    *)
(* stability of the node's result, nor, without a crash, the wake-ups.     *)
(***************************************************************************)
EXTENDS AgentLoop, TLAPS

Labels == InTurn \union {"idle", "node", "claim", "resume", "finalize", "close", "advance"}
ChildStates == {"none", "live", "ended", "notified", "silent"}
Outcomes == {"none", "suspend", "done", "failed"}
Conversations == Seq([role : {"call", "results"}, turn : Nat])
Batches == [by : Procs, turn : 0 .. MaxTurns]
Copies == [turn : Nat, messages : Conversations]

\* Labels of a resume job that has claimed a turn or is about to.
Later == InTurn \union {"claim", "resume", "finalize"}

\* What the proofs need of the types, of the rows and of what processes have in
\* memory. Calls are only launched within the turns there are.
RowTypes ==
  /\ child \in [Procs -> [Turns -> [Calls -> ChildStates]]]
  /\ turn \in Nat /\ messages \in Conversations /\ pending \in Batches
  /\ resumes \in 0 .. MaxResumes /\ attempt \in Starts /\ crashes \in Nat

MemoryTypes ==
  /\ doing \in [Procs -> Labels]
  /\ copy \in [Procs -> Copies] /\ seen \in [Procs -> Batches] /\ outcome \in [Procs -> Outcomes]
  /\ \A p \in Procs : doing[p] = "commit" => copy[p].turn + 1 <= MaxTurns
  /\ \A k \in Starts : doing[k] \in {"resume", "finalize"} => outcome[k] # "none"

Types == RowTypes /\ MemoryTypes

\* The engine waits for an attempt while the node is running; a worker that
\* dies takes every attempt with it.
EngineFits ==
  /\ engine = "wait" => node = "RUNNING"
  /\ engine = "retry" => \A k \in Starts : doing[k] = "idle"
  /\ node = "none" => \A k \in Starts : doing[k] = "idle"
  /\ \A k \in Starts : doing[k] \notin {"node", "claim", "close", "advance"}
  /\ \A p \in Ticks : doing[p] # "reset"

\* A resume job that got past the node's status finds it suspended or settled.
LaterTurns == \A p \in Ticks : doing[p] \in Later => node \notin {"none", "RUNNING"}

\* Only the attempt the engine began last is at work, and no resume job next
\* to it. The turn a resume job runs is claimed, and by nobody else.
Claimed ==
  /\ \A k \in Starts : doing[k] # "idle" =>
       k = attempt /\ node # "WAITING" /\ \A p \in Ticks : doing[p] \notin Later
  /\ \A p \in Procs : doing[p] \in InTurn \ {"reset"} => agent # "WAITING_TOOLS"
  /\ \A p, q \in Ticks : doing[p] \in InTurn /\ doing[q] \in InTurn => p = q

Owners == Types /\ EngineFits /\ LaterTurns /\ (~abandoned => Claimed)

-----------------------------------------------------------------------------
(* What processes do to their own label and memory *)

LEMMA ProcsFacts == 0 \in Starts /\ Starts \subseteq Nat /\ Procs = Ticks \union Starts /\ Ticks \intersect Starts = {}
BY AgentAssumption DEF Starts, Procs

\* The values processes remember and write.
LEMMA ValuesTyped ==
  /\ NoCopy \in Copies /\ NoBatch \in Batches
  /\ \A t \in Nat, s \in Conversations : Copy(t, s) \in Copies
  /\ \A p \in Procs, t \in 0 .. MaxTurns : Batch(p, t) \in Batches
  /\ \A t \in Nat, s \in Conversations :
       Append(s, Msg("call", t)) \in Conversations /\ Append(s, Msg("results", t)) \in Conversations
<1>1. <<>> \in Conversations
  BY DEF Conversations
<1>2. NoBatch \in Batches /\ \A p \in Procs, t \in 0 .. MaxTurns : Batch(p, t) \in Batches
  BY ProcsFacts, AgentAssumption DEF NoBatch, Batch, Batches
<1>3. NoCopy \in Copies /\ \A t \in Nat, s \in Conversations : Copy(t, s) \in Copies
  BY <1>1 DEF NoCopy, Copy, Copies
<1>4. \A t \in Nat, s \in Conversations :
        Append(s, Msg("call", t)) \in Conversations /\ Append(s, Msg("results", t)) \in Conversations
  BY DEF Conversations, Msg
<1> QED  BY <1>2, <1>3, <1>4

\* A process moves on and remembers, moves on as it is, or ends.
LEMMA KeepTyped ==
  ASSUME MemoryTypes, NEW p \in Procs, NEW l \in Labels \ {"commit"}, Goto(p, l),
         NEW row \in Copies, NEW batch \in Batches, NEW how \in Outcomes, Keep(p, row, batch, how),
         p \in Starts /\ l \in {"resume", "finalize"} => how # "none"
  PROVE  MemoryTypes'
BY ProcsFacts DEF MemoryTypes, Keep, Goto

LEMMA GotoTyped ==
  ASSUME MemoryTypes, NEW p \in Procs, NEW l \in Labels, Goto(p, l), UNCHANGED <<copy, seen, outcome>>,
         l = "commit" => copy[p].turn + 1 <= MaxTurns,
         p \in Starts /\ l \in {"resume", "finalize"} => outcome[p] # "none"
  PROVE  MemoryTypes'
BY ProcsFacts DEF MemoryTypes, Goto

LEMMA LeaveTyped ==
  ASSUME MemoryTypes, NEW S, Leave(S)
  PROVE  MemoryTypes'
BY ProcsFacts, ValuesTyped DEF MemoryTypes, Leave, Forget, Labels, Outcomes

LEMMA UnmovedTyped ==
  ASSUME MemoryTypes, UNCHANGED <<doing, copy, seen, outcome>>
  PROVE  MemoryTypes'
BY DEF MemoryTypes

\* A child of one call changes its state.
LEMMA ChildChanges ==
  ASSUME RowTypes, NEW p \in Procs, NEW t \in Turns, NEW c \in Calls, NEW s \in ChildStates,
         child' = [child EXCEPT ![p][t][c] = s]
  PROVE  /\ child' \in [Procs -> [Turns -> [Calls -> ChildStates]]]
         /\ child'[p][t][c] = s
         /\ \A q \in Procs, u \in Turns, d \in Calls : <<q, u, d>> # <<p, t, c>> => child'[q][u][d] = child[q][u][d]
BY DEF RowTypes

\* The calls of a reply are launched.
LEMMA CallsLaunched ==
  ASSUME RowTypes, NEW p \in Procs, NEW t \in Turns, NEW calls \in [Calls -> ChildStates],
         child' = [child EXCEPT ![p][t] = calls]
  PROVE  /\ child' \in [Procs -> [Turns -> [Calls -> ChildStates]]]
         /\ \A q \in Procs, u \in Turns : <<q, u>> # <<p, t>> => child'[q][u] = child[q][u]
BY DEF RowTypes

-----------------------------------------------------------------------------
(* Types *)

LEMMA TypesStep ==
  ASSUME Types, [AgentNext]_agentVars
  PROVE  Types'
<1>0. RowTypes /\ MemoryTypes
  BY DEF Types
<1> USE ProcsFacts DEF rowVars, engineVars, outsideVars
<1>1. CASE Claim
  <2>1. Goto(0, "reset") /\ UNCHANGED <<copy, seen, outcome>> /\ RowTypes'
    BY <1>0, <1>1 DEF Claim, RowTypes
  <2>2. MemoryTypes'
    BY <1>0, <2>1, GotoTyped DEF Labels, InTurn
  <2> QED  BY <2>1, <2>2 DEF Types
<1>2. ASSUME NEW k \in Starts, Start(k)
      PROVE  Types'
  <2>1. Goto(k, "turn") /\ UNCHANGED <<copy, seen, outcome>>
    BY <1>2 DEF Start
  <2>2. MemoryTypes'
    BY <1>0, <2>1, GotoTyped DEF Labels, InTurn
  <2>3. <<>> \in Conversations
    BY DEF Conversations
  <2>4. RowTypes'
    BY <1>0, <1>2, <2>3, ValuesTyped DEF Start, RowTypes
  <2> QED  BY <2>2, <2>4 DEF Types
<1>3. CASE NextStart
  <2>1. attempt + 1 \in Starts
    BY <1>0, <1>3, AgentAssumption DEF NextStart, Starts, RowTypes
  <2>2. RowTypes'
    BY <1>0, <1>3, <2>1 DEF NextStart, RowTypes
  <2>3. PICK ended \in SUBSET {attempt} :
          /\ Forget(ended)
          /\ doing' = [p \in Procs |-> IF p = attempt + 1 THEN "reset" ELSE IF p \in ended THEN "idle" ELSE doing[p]]
    BY <1>3 DEF NextStart
  <2>4. MemoryTypes'
    BY <1>0, <2>3, ValuesTyped DEF MemoryTypes, Forget, Labels, InTurn, Outcomes
  <2> QED  BY <2>2, <2>4 DEF Types
<1>4. CASE RecordStart \/ WorkerDies
  <2>1. (\E S : Leave(S)) /\ RowTypes'
    BY <1>0, <1>4 DEF RecordStart, RecordNode, WorkerDies, RowTypes
  <2> QED  BY <1>0, <2>1, LeaveTyped DEF Types
<1>5. CASE RecordTimeout \/ EngineAdvance \/ RetryJob \/ TimeOut \/ CancelAgentRun
  <2>1. UNCHANGED <<doing, copy, seen, outcome>> /\ RowTypes'
    BY <1>0, <1>5 DEF RecordTimeout, RecordNode, EngineAdvance, RetryJob, TimeOut, CancelAgentRun, EnqueueResume,
       RowTypes, MaxResumes
  <2> QED  BY <1>0, <2>1, UnmovedTyped DEF Types
<1>6. ASSUME NEW k \in Starts, ReturnUnheard(k)
      PROVE  Types'
  <2>1. Leave({k}) /\ RowTypes'
    BY <1>0, <1>6 DEF ReturnUnheard, RowTypes
  <2> QED  BY <1>0, <2>1, LeaveTyped DEF Types
<1>7. ASSUME NEW p \in Ticks, TickTake(p)
      PROVE  Types'
  <2>1. /\ RowTypes' /\ UNCHANGED <<copy, outcome>>
        /\ \/ UNCHANGED <<doing, seen>>
           \/ seen' = [seen EXCEPT ![p] = pending] /\ Goto(p, "node")
           \/ Goto(p, "advance") /\ UNCHANGED seen
    BY <1>0, <1>7 DEF TickTake, RowTypes, MaxResumes
  <2>2. CASE UNCHANGED <<doing, seen>>
    BY <1>0, <2>1, <2>2, UnmovedTyped DEF Types
  <2>3. CASE seen' = [seen EXCEPT ![p] = pending] /\ Goto(p, "node")
    BY <1>0, <2>1, <2>3 DEF Types, MemoryTypes, RowTypes, Goto, Labels
  <2>4. CASE Goto(p, "advance") /\ UNCHANGED seen
    BY <1>0, <2>1, <2>4, GotoTyped DEF Types, Labels
  <2> QED  BY <2>1, <2>2, <2>3, <2>4
<1>8. ASSUME NEW p \in Ticks, TickNode(p)
      PROVE  Types'
  <2>1. /\ RowTypes'
        /\ \/ \E l \in {"close", "advance"} : Goto(p, l) /\ KeepNothing(p)
           \/ Goto(p, "claim") /\ UNCHANGED <<copy, seen, outcome>>
    BY <1>0, <1>8 DEF TickNode, EnqueueResume, RowTypes, MaxResumes
  <2>2. CASE Goto(p, "claim") /\ UNCHANGED <<copy, seen, outcome>>
    BY <1>0, <2>1, <2>2, GotoTyped DEF Labels, InTurn, Types
  <2>3. ASSUME NEW l \in {"close", "advance"}, Goto(p, l), KeepNothing(p)
        PROVE  Types'
    BY <1>0, <2>1, <2>3, KeepTyped, ValuesTyped DEF KeepNothing, Labels, Outcomes, Types
  <2> QED  BY <2>1, <2>2, <2>3
<1>9. ASSUME NEW p \in Ticks, TickClaim(p)
      PROVE  Types'
  <2>1. /\ RowTypes'
        /\ \/ Goto(p, "feed") /\ UNCHANGED <<copy, seen, outcome>>
           \/ Goto(p, "advance") /\ KeepNothing(p)
    BY <1>0, <1>9 DEF TickClaim, RowTypes
  <2>2. CASE Goto(p, "feed") /\ UNCHANGED <<copy, seen, outcome>>
    BY <1>0, <2>1, <2>2, GotoTyped DEF Labels, InTurn, Types
  <2>3. CASE Goto(p, "advance") /\ KeepNothing(p)
    BY <1>0, <2>1, <2>3, KeepTyped, ValuesTyped DEF KeepNothing, Labels, Outcomes, Types
  <2> QED  BY <2>1, <2>2, <2>3
<1>10. ASSUME NEW p \in Ticks, Unresolved(p) \/ TickThrow(p)
       PROVE  Types'
  <2>1. RowTypes' /\ Goto(p, "close") /\ KeepNothing(p)
    BY <1>0, <1>10 DEF Unresolved, TickThrow, FailNode, RowTypes
  <2> QED  BY <1>0, <2>1, KeepTyped, ValuesTyped DEF KeepNothing, Labels, Outcomes, Types
<1>11. ASSUME NEW p \in Ticks, CloseAgent(p) \/ FinalizeNode(p)
       PROVE  Types'
  <2>1. RowTypes' /\ Goto(p, "advance") /\ UNCHANGED <<copy, seen, outcome>>
    BY <1>0, <1>11 DEF CloseAgent, FinalizeNode, RowTypes
  <2> QED  BY <1>0, <2>1, GotoTyped DEF Labels, Types
<1>12. ASSUME NEW p \in Ticks, Advance(p) \/ TickDies(p)
       PROVE  Types'
  <2>1. Leave({p}) /\ RowTypes'
    BY <1>0, <1>12 DEF Advance, TickDies, EnqueueResume, RowTypes, MaxResumes
  <2> QED  BY <1>0, <2>1, LeaveTyped DEF Types
<1>13. ASSUME NEW p \in Procs, AppendResults(p)
       PROVE  Types'
  <2>1. seen[p].turn \in Nat
    BY <1>0 DEF MemoryTypes, Batches
  <2>2. messages' = Append(messages, Msg("results", seen[p].turn)) /\ Goto(p, "turn") /\ KeepNothing(p)
    BY <1>13 DEF AppendResults
  <2>3. messages' \in Conversations
    BY <1>0, <2>1, <2>2, ValuesTyped DEF RowTypes
  <2>4. RowTypes'
    BY <1>0, <1>13, <2>3 DEF AppendResults, RowTypes
  <2> QED  BY <1>0, <2>2, <2>4, KeepTyped, ValuesTyped DEF KeepNothing, Labels, InTurn, Outcomes, Types
<1>14. ASSUME NEW p \in Procs, RunTurn(p)
       PROVE  Types'
  <2>1. Goto(p, "think") /\ Keep(p, Copy(turn, messages), NoBatch, "none") /\ RowTypes'
    BY <1>0, <1>14 DEF RunTurn, RowTypes
  <2>2. Copy(turn, messages) \in Copies
    BY <1>0, ValuesTyped DEF RowTypes
  <2> HIDE DEF Copy
  <2> QED  BY <1>0, <2>1, <2>2, KeepTyped, ValuesTyped DEF Labels, InTurn, Outcomes, Types
<1>15. ASSUME NEW p \in Procs, Answer(p) \/ Exceed(p)
       PROVE  Types'
  <2>1. copy[p].turn + 1 \in Nat
    BY <1>0 DEF MemoryTypes, Copies
  <2>2. /\ turn' = copy[p].turn + 1 /\ RowTypes'
        /\ \E how \in {"done", "failed"} : Goto(p, "finalize") /\ Keep(p, NoCopy, NoBatch, how)
    BY <1>0, <1>15, <2>1 DEF Answer, Exceed, EndLoop, ThisTurn, RowTypes
  <2> QED  BY <1>0, <2>2, KeepTyped, ValuesTyped DEF Labels, Outcomes, Types
<1>16. ASSUME NEW k \in Starts, StartThrows(k)
       PROVE  Types'
  <2>1. Goto(k, "finalize") /\ Keep(k, NoCopy, NoBatch, "failed") /\ RowTypes'
    BY <1>0, <1>16 DEF StartThrows, EndLoop, RowTypes
  <2> QED  BY <1>0, <2>1, KeepTyped, ValuesTyped DEF Labels, Outcomes, Types
<1>17. ASSUME NEW p \in Procs, LaunchTools(p)
       PROVE  Types'
  <2>1. /\ ThisTurn(p) \in Turns /\ copy[p].turn + 1 <= MaxTurns
    BY <1>0, <1>17, AgentAssumption DEF LaunchTools, ThisTurn, MemoryTypes, Copies, Turns
  <2>2. PICK launched \in SUBSET Offered[ThisTurn(p)] :
          child' = [child EXCEPT ![p][ThisTurn(p)] = [c \in Calls |-> IF c \in launched THEN "live" ELSE "none"]]
    BY <1>17 DEF LaunchTools
  <2>3. child' \in [Procs -> [Turns -> [Calls -> ChildStates]]]
    <3>1. [c \in Calls |-> IF c \in launched THEN "live" ELSE "none"] \in [Calls -> ChildStates]
      BY DEF ChildStates
    <3> HIDE DEF ThisTurn
    <3> QED  BY <1>0, <2>1, <2>2, <3>1, CallsLaunched
  <2>4. RowTypes'
    BY <1>0, <1>17, <2>3 DEF LaunchTools, RowTypes
  <2>5. Goto(p, "commit") /\ UNCHANGED <<copy, seen, outcome>>
    BY <1>17 DEF LaunchTools
  <2> QED  BY <1>0, <2>1, <2>4, <2>5, GotoTyped DEF Labels, InTurn, Types
<1>18. ASSUME NEW p \in Procs, Commit(p)
       PROVE  Types'
  <2>1. copy[p].turn + 1 \in 0 .. MaxTurns /\ copy[p].messages \in Conversations
    BY <1>0, <1>18 DEF Commit, MemoryTypes, Copies
  <2>2. /\ turn' = copy[p].turn + 1 /\ pending' = Batch(p, copy[p].turn + 1)
        /\ messages' = Append(copy[p].messages, Msg("call", copy[p].turn + 1))
    BY <1>18 DEF Commit, ThisTurn
  <2>3. turn' \in Nat /\ pending' \in Batches /\ messages' \in Conversations
    <3> DEFINE t == copy[p].turn + 1
    <3>1. t \in Nat /\ t \in 0 .. MaxTurns
      BY <2>1
    <3> HIDE DEF t
    <3> QED  BY <2>1, <2>2, <3>1, ValuesTyped DEF t
  <2>4. RowTypes'
    BY <1>0, <1>18, <2>3 DEF Commit, RowTypes
  <2>5. \/ Keep(p, NoCopy, NoBatch, IF p \in Starts THEN "suspend" ELSE "none") /\ Goto(p, "resume")
        \/ Keep(p, NoCopy, pending', "none") /\ Goto(p, "feed")
    BY <1>18 DEF Commit, Suspend
  <2>6. CASE Keep(p, NoCopy, NoBatch, IF p \in Starts THEN "suspend" ELSE "none") /\ Goto(p, "resume")
    BY <1>0, <2>4, <2>6, KeepTyped, ValuesTyped DEF Labels, Outcomes, Types
  <2>7. CASE Keep(p, NoCopy, pending', "none") /\ Goto(p, "feed")
    BY <1>0, <2>3, <2>4, <2>7, KeepTyped, ValuesTyped DEF Labels, InTurn, Outcomes, Types
  <2> QED  BY <2>5, <2>6, <2>7
<1>19. ASSUME NEW p \in Procs, SelfResume(p)
       PROVE  Types'
  <2>1. /\ RowTypes' /\ UNCHANGED <<copy, seen, outcome>> /\ doing[p] = "resume"
        /\ Goto(p, IF p \in Starts THEN "finalize" ELSE "advance")
    BY <1>0, <1>19 DEF SelfResume, EnqueueResume, RowTypes, MaxResumes
  <2>2. p \in Starts => outcome[p] # "none"
    BY <1>0, <2>1 DEF MemoryTypes
  <2> QED  BY <1>0, <2>1, <2>2, GotoTyped DEF Labels, Types
<1>20. ASSUME NEW p \in Procs, NEW t \in Turns, NEW c \in Calls,
              ChildStep(p, t, c) \/ ChildCanceled(p, t, c) \/ ChildFailed(p, t, c) \/ EventDies(p, t, c)
       PROVE  Types'
  <2>1. PICK s \in ChildStates : ChildIs(p, t, c, s)
    BY <1>20 DEF ChildStep, ChildEnds, OnChildFinished, ChildCanceled, ChildFailed, EndsSilently, EventDies, ChildStates
  <2>2. child' \in [Procs -> [Turns -> [Calls -> ChildStates]]]
    BY <1>0, <2>1, ChildChanges DEF ChildIs
  <2>3. resumes' \in 0 .. MaxResumes /\ crashes' \in Nat
    BY <1>0, <1>20 DEF ChildStep, ChildEnds, OnChildFinished, ChildCanceled, ChildFailed, EndsSilently, EventDies,
       EnqueueResume, RowTypes, MaxResumes
  <2>4. RowTypes' /\ UNCHANGED <<doing, copy, seen, outcome>>
    BY <1>0, <2>1, <2>2, <2>3 DEF ChildIs, RowTypes
  <2> QED  BY <1>0, <2>4, UnmovedTyped DEF Types
<1>21. CASE UNCHANGED agentVars
  BY <1>0, <1>21, UnmovedTyped DEF agentVars, Types, RowTypes
<1> QED
  BY <1>1, <1>2, <1>3, <1>4, <1>5, <1>6, <1>7, <1>8, <1>9, <1>10, <1>11, <1>12, <1>13, <1>14, <1>15, <1>16, <1>17, <1>18, <1>19, <1>20, <1>21
  DEF AgentNext, EngineStep, StartStep, TickStep, TurnStep

-----------------------------------------------------------------------------
(* Turns are kept apart by every action *)

LEMMA ControlStep ==
  ASSUME Owners, doing \in [Procs -> Labels], [AgentNext]_agentVars
  PROVE  EngineFits' /\ LaterTurns' /\ (~abandoned' => Claimed')
<1> USE ProcsFacts DEF EngineFits, LaterTurns, Claimed, Later, Labels, InTurn, Settled
<1> DEFINE Goal == EngineFits' /\ LaterTurns' /\ (~abandoned' => Claimed')
<1>0. /\ EngineFits /\ LaterTurns /\ (~abandoned => Claimed)
      /\ attempt \in Starts
      /\ doing[attempt] = "finalize" => outcome[attempt] \in {"done", "failed", "suspend"}
  BY DEF Owners, Types, RowTypes, MemoryTypes, Outcomes
<1>1. CASE Claim
  BY <1>0, <1>1 DEF Claim, Goto
<1>2. ASSUME NEW k \in Starts, Start(k)
      PROVE  Goal
  BY <1>0, <1>2 DEF Start, engineVars, outsideVars, Goto
<1>3. CASE NextStart
  <2>0. attempt \in Nat /\ attempt + 1 \in Starts /\ attempt + 1 # attempt
    BY <1>0, <1>3, AgentAssumption DEF NextStart, Starts
  <2>1. /\ engine = "wait" /\ engine' = "wait" /\ attempt' = attempt + 1
        /\ node = "RUNNING" /\ UNCHANGED <<agent, node>>
    BY <1>0, <1>3 DEF NextStart, rowVars, outsideVars
  <2>5. PICK ended \in SUBSET {attempt} :
          doing' = [p \in Procs |-> IF p = attempt + 1 THEN "reset" ELSE IF p \in ended THEN "idle" ELSE doing[p]]
    BY <1>3 DEF NextStart
  <2>6. /\ doing' \in [Procs -> Labels] /\ doing'[attempt'] = "reset"
        /\ \A q \in Procs : q # attempt' => doing'[q] \in {doing[q], "idle"}
    BY <2>0, <2>1, <2>5
  <2>2. ~abandoned' => ~abandoned /\ doing'[attempt] = "idle"
    BY <1>0, <2>0, <1>3 DEF NextStart, Returned
  <2>3. EngineFits' /\ LaterTurns'
    BY <1>0, <2>0, <2>1, <2>6
  <2>4. ~abandoned' => Claimed'
    BY <1>0, <2>0, <2>1, <2>2, <2>6
  <2> QED  BY <2>3, <2>4
<1>4. CASE RecordStart
  <2>1. /\ engine = "wait" /\ engine' = "advance" /\ node = "RUNNING" /\ doing[attempt] = "finalize"
        /\ UNCHANGED <<agent, attempt, abandoned>>
        /\ doing' = [p \in Procs |-> IF p \in {attempt} THEN "idle" ELSE doing[p]]
    BY <1>0, <1>4 DEF RecordStart, RecordNode, rowVars, Returned, Leave
  <2>2. node' \in {"SUCCESS", "FAILED", "WAITING"}
    BY <1>0, <2>1, <1>4 DEF RecordStart, RecordNode
  <2> QED  BY <1>0, <2>1, <2>2
<1>5. CASE RecordTimeout
  BY <1>0, <1>5 DEF RecordTimeout, RecordNode, rowVars, Returned
<1>6. ASSUME NEW k \in Starts, ReturnUnheard(k)
      PROVE  Goal
  BY <1>0, <1>6 DEF ReturnUnheard, rowVars, engineVars, outsideVars, Returned, Leave
<1>7. CASE EngineAdvance \/ RetryJob \/ WorkerDies
  BY <1>0, <1>7 DEF EngineAdvance, RetryJob, WorkerDies, rowVars, Leave
<1>8. ASSUME NEW p \in Ticks, TickTake(p) \/ TickNode(p) \/ TickClaim(p)
      PROVE  Goal
  <2>1. CASE TickTake(p)
    BY <1>0, <2>1 DEF TickTake, rowVars, engineVars, outsideVars, Goto
  <2>2. CASE TickNode(p)
    BY <1>0, <2>2 DEF TickNode, rowVars, engineVars, outsideVars, Goto
  <2>3. CASE TickClaim(p)
    <3>1. /\ doing[p] = "claim" /\ UNCHANGED <<engineVars, node>>
          /\ \/ agent = "WAITING_TOOLS" /\ agent' = "RUNNING_TURN" /\ doing' = [doing EXCEPT ![p] = "feed"]
             \/ UNCHANGED agent /\ doing' = [doing EXCEPT ![p] = "advance"]
      BY <2>3 DEF TickClaim, outsideVars, Goto
    <3>2. CASE agent = "WAITING_TOOLS" /\ agent' = "RUNNING_TURN" /\ doing' = [doing EXCEPT ![p] = "feed"]
      BY <1>0, <3>1, <3>2 DEF engineVars
    <3>3. CASE UNCHANGED agent /\ doing' = [doing EXCEPT ![p] = "advance"]
      BY <1>0, <3>1, <3>3 DEF engineVars
    <3> QED  BY <3>1, <3>2, <3>3
  <2> QED  BY <1>8, <2>1, <2>2, <2>3
<1>9. ASSUME NEW p \in Ticks, Unresolved(p) \/ TickThrow(p) \/ CloseAgent(p) \/ FinalizeNode(p)
      PROVE  Goal
  BY <1>0, <1>9 DEF Unresolved, TickThrow, FailNode, CloseAgent, FinalizeNode, rowVars, engineVars, outsideVars, Goto
<1>10. ASSUME NEW p \in Ticks, Advance(p) \/ TickDies(p)
       PROVE  Goal
  BY <1>0, <1>10 DEF Advance, TickDies, rowVars, engineVars, Leave
<1>11. ASSUME NEW p \in Procs, AppendResults(p) \/ RunTurn(p) \/ LaunchTools(p)
       PROVE  Goal
  BY <1>0, <1>11 DEF AppendResults, RunTurn, LaunchTools, rowVars, engineVars, outsideVars, Goto
<1>12. ASSUME NEW p \in Procs, Answer(p) \/ Exceed(p)
       PROVE  Goal
  BY <1>0, <1>12 DEF Answer, Exceed, EndLoop, engineVars, outsideVars, Goto
<1>13. ASSUME NEW k \in Starts, StartThrows(k)
       PROVE  Goal
  BY <1>0, <1>13 DEF StartThrows, EndLoop, rowVars, engineVars, outsideVars, Goto
<1>14. ASSUME NEW p \in Procs, Commit(p)
       PROVE  Goal
  BY <1>0, <1>14 DEF Commit, Suspend, engineVars, outsideVars, Goto
<1>15. ASSUME NEW p \in Procs, SelfResume(p)
       PROVE  Goal
  BY <1>0, <1>15 DEF SelfResume, rowVars, engineVars, Goto
<1>16. ASSUME NEW p \in Procs, NEW t \in Turns, NEW c \in Calls,
              ChildStep(p, t, c) \/ ChildCanceled(p, t, c) \/ ChildFailed(p, t, c) \/ EventDies(p, t, c)
       PROVE  Goal
  BY <1>0, <1>16 DEF ChildStep, ChildEnds, OnChildFinished, ChildCanceled, ChildFailed, EndsSilently, EventDies,
     ChildIs, rowVars, engineVars
<1>17. CASE TimeOut \/ CancelAgentRun
  BY <1>0, <1>17 DEF TimeOut, CancelAgentRun, rowVars, engineVars
<1>18. CASE UNCHANGED agentVars
  BY <1>0, <1>18 DEF agentVars, rowVars, engineVars, outsideVars
<1> QED
  BY <1>1, <1>2, <1>3, <1>4, <1>5, <1>6, <1>7, <1>8, <1>9, <1>10, <1>11, <1>12, <1>13, <1>14, <1>15, <1>16, <1>17, <1>18
  DEF AgentNext, EngineStep, StartStep, TickStep, TurnStep

-----------------------------------------------------------------------------
(* Resumes are not lost. *)

Status == StatusOf(pending)

\* The row of a suspended agent names the batch of its turn; whoever launched
\* it is not about to launch the calls of the same turn again.
Waits ==
  agent = "WAITING_TOOLS" =>
    /\ pending.turn = turn
    /\ \A p \in Procs : doing[p] \in {"think", "commit"} /\ pending.by = p => copy[p].turn + 1 # turn

\* A resume is queued, under way or about to be added.
Awake ==
  \/ resumes > 0
  \/ \E p \in Procs : doing[p] \in {"node", "claim", "resume"}
  \/ "ended" \in Status

\* NoLostResume, also between the first turn's suspension and its record.
WakesUp ==
  /\ agent = "WAITING_TOOLS" /\ "live" \notin Status /\ "silent" \notin Status /\ ~runOver
  /\ \/ node = "WAITING"
     \/ engine = "wait" /\ doing[attempt] = "finalize" /\ outcome[attempt] = "suspend"
  /\ ~(abandoned /\ crashes > 0)
  => Awake

AgentInv == Owners /\ Waits /\ WakesUp

LEMMA AgentInvInit == AgentInit => AgentInv
<1> SUFFICES ASSUME AgentInit PROVE AgentInv
  OBVIOUS
<1> USE AgentAssumption, ProcsFacts, ValuesTyped
<1>1. <<>> \in Conversations
  BY DEF Conversations
<1>2. RowTypes
  BY <1>1 DEF AgentInit, RowTypes, ChildStates, MaxResumes
<1>3. MemoryTypes
  BY DEF AgentInit, MemoryTypes, Labels, Outcomes
<1>4. EngineFits /\ LaterTurns /\ Claimed
  BY DEF AgentInit, EngineFits, LaterTurns, Claimed, Later, InTurn
<1>5. Waits /\ WakesUp
  BY DEF AgentInit, Waits, WakesUp
<1> QED  BY <1>2, <1>3, <1>4, <1>5 DEF AgentInv, Owners, Types

LEMMA WaitsStep ==
  ASSUME Types, Waits, [AgentNext]_agentVars
  PROVE  Waits'
<1>0. /\ doing \in [Procs -> Labels] /\ copy \in [Procs -> Copies] /\ turn \in Nat /\ Procs = Ticks \union Starts
      /\ 0 \in Starts
  BY ProcsFacts DEF Types, RowTypes, MemoryTypes
<1> USE DEF rowVars, engineVars, outsideVars
\* Nobody comes to think or commit, and the row changes as it may.
<1> DEFINE Still ==
      /\ \A q \in Procs : doing'[q] \in {"think", "commit"} =>
           doing[q] \in {"think", "commit"} /\ copy'[q] = copy[q]
      /\ agent' = "WAITING_TOOLS" => UNCHANGED <<agent, turn, pending>>
<1>1. ASSUME Still
      PROVE  Waits'
  BY <1>0, <1>1 DEF Waits
<1>2. ASSUME NEW p \in Procs, RunTurn(p)
      PROVE  Waits'
  <2>1. /\ copy' = [copy EXCEPT ![p] = Copy(turn, messages)] /\ doing' = [doing EXCEPT ![p] = "think"]
        /\ UNCHANGED <<agent, turn, pending>>
    BY <1>2 DEF RunTurn, Keep, Goto
  <2>2. copy'[p].turn = turn /\ \A q \in Procs : q # p => copy'[q] = copy[q] /\ doing'[q] = doing[q]
    BY <1>0, <2>1 DEF Copy
  <2> QED  BY <1>0, <2>1, <2>2 DEF Waits
<1>3. ASSUME NEW p \in Procs, Commit(p)
      PROVE  Waits'
  <2>1. turn' = copy[p].turn + 1 /\ pending' = Batch(p, copy[p].turn + 1)
    BY <1>3 DEF Commit, ThisTurn
  <2>2. pending'.turn = turn' /\ pending'.by = p
    BY <2>1 DEF Batch
  <2>3. doing'[p] \notin {"think", "commit"}
    BY <1>0, <1>3 DEF Commit, Suspend, Goto
  <2> QED  BY <2>2, <2>3 DEF Waits
<1>4. CASE EngineStep
  <2>1. Still
    BY <1>0, <1>4 DEF EngineStep, Claim, NextStart, RecordStart, RecordTimeout, RecordNode, EngineAdvance, RetryJob,
       Goto, Leave, Forget
  <2> QED  BY <1>1, <2>1
<1>5. ASSUME NEW k \in Starts, Start(k) \/ StartThrows(k) \/ ReturnUnheard(k)
      PROVE  Waits'
  <2>1. Still
    BY <1>0, <1>5 DEF Start, StartThrows, EndLoop, ReturnUnheard, Goto, Keep, Leave, Forget
  <2> QED  BY <1>1, <2>1
<1>6. ASSUME NEW p \in Ticks, TickTake(p) \/ TickNode(p) \/ TickClaim(p) \/ Unresolved(p) \/ TickThrow(p)
      PROVE  Waits'
  <2>1. Still
    BY <1>0, <1>6 DEF TickTake, TickNode, TickClaim, Unresolved, TickThrow, FailNode, Goto, Keep, KeepNothing
  <2> QED  BY <1>1, <2>1
<1>7. ASSUME NEW p \in Ticks, CloseAgent(p) \/ FinalizeNode(p) \/ Advance(p) \/ TickDies(p)
      PROVE  Waits'
  <2>1. Still
    BY <1>0, <1>7 DEF CloseAgent, FinalizeNode, Advance, TickDies, Goto, Leave, Forget
  <2> QED  BY <1>1, <2>1
<1>8. ASSUME NEW p \in Procs, AppendResults(p) \/ Answer(p) \/ Exceed(p) \/ LaunchTools(p) \/ SelfResume(p)
      PROVE  Waits'
  <2>1. Still
    BY <1>0, <1>8 DEF AppendResults, Answer, Exceed, EndLoop, LaunchTools, SelfResume, Goto, Keep, KeepNothing
  <2> QED  BY <1>1, <2>1
<1>9. ASSUME NEW p \in Procs, NEW t \in Turns, NEW c \in Calls,
             ChildStep(p, t, c) \/ ChildCanceled(p, t, c) \/ ChildFailed(p, t, c) \/ EventDies(p, t, c)
      PROVE  Waits'
  <2>1. Still
    BY <1>9 DEF ChildStep, ChildEnds, OnChildFinished, ChildCanceled, ChildFailed, EndsSilently, EventDies, ChildIs
  <2> QED  BY <1>1, <2>1
<1>10. CASE TimeOut \/ CancelAgentRun \/ WorkerDies \/ UNCHANGED agentVars
  <2>1. Still
    BY <1>0, <1>10 DEF TimeOut, CancelAgentRun, WorkerDies, agentVars, Leave, Forget
  <2> QED  BY <1>1, <2>1
<1> HIDE DEF Still
<1> QED
  BY <1>0, <1>2, <1>3, <1>4, <1>5, <1>6, <1>7, <1>8, <1>9, <1>10 DEF AgentNext, StartStep, TickStep, TurnStep

\* The statuses of the calls waited for change with the children and the batch.
LEMMA StatusKept == UNCHANGED <<child, pending>> => Status' = Status
BY DEF Status, StatusOf

\* A resume that is queued is enough.
LEMMA QueuedIsAwake == resumes > 0 => Awake
BY DEF Awake

LEMMA EnqueueQueues ==
  ASSUME RowTypes, EnqueueResume
  PROVE  resumes' > 0
BY DEF RowTypes, EnqueueResume, MaxResumes

LEMMA WakesUpStep ==
  ASSUME AgentInv, Owners', [AgentNext]_agentVars
  PROVE  WakesUp'
<1>0. /\ RowTypes /\ EngineFits /\ LaterTurns /\ (~abandoned => Claimed) /\ Waits /\ WakesUp
      /\ doing \in [Procs -> Labels] /\ copy \in [Procs -> Copies] /\ outcome \in [Procs -> Outcomes]
      /\ crashes \in Nat /\ resumes \in Nat /\ attempt \in Starts
      /\ UNCHANGED <<child, pending>> => Status' = Status
      /\ RowTypes' /\ doing' \in [Procs -> Labels]
  BY StatusKept DEF AgentInv, Owners, Types, RowTypes, MemoryTypes, MaxResumes
<1> USE ProcsFacts DEF rowVars, engineVars, outsideVars
<1>1. CASE Claim
  BY <1>0, <1>1 DEF Claim, Goto, WakesUp
<1>2. ASSUME NEW k \in Starts, Start(k)
      PROVE  WakesUp'
  BY <1>0, <1>2 DEF Start, WakesUp
<1>3. CASE NextStart
  <2>1. /\ attempt' = attempt + 1 /\ attempt + 1 \in Starts /\ agent' = agent /\ node' = "RUNNING"
    BY <1>0, <1>3, AgentAssumption DEF NextStart, Starts, EngineFits
  <2>2. doing'[attempt'] = "reset"
    BY <1>0, <1>3, <2>1 DEF NextStart
  <2> QED  BY <2>1, <2>2 DEF WakesUp
<1>4. CASE RecordStart
  <2>1. /\ engine = "wait" /\ doing[attempt] = "finalize" /\ engine' = "advance"
        /\ UNCHANGED <<rowVars, child, runOver, resumes, crashes, abandoned>>
        /\ doing' = [p \in Procs |-> IF p \in {attempt} THEN "idle" ELSE doing[p]]
    BY <1>4 DEF RecordStart, RecordNode, Returned, Leave
  <2>2. node' = "WAITING" => outcome[attempt] = "suspend"
    <3>1. outcome[attempt] \in {"suspend", "done", "failed"}
      BY <1>0, <2>1 DEF AgentInv, Owners, Types, MemoryTypes, Outcomes
    <3> QED  BY <3>1, <1>4 DEF RecordStart, RecordNode
  <2>3. Awake => Awake'
    BY <1>0, <2>1 DEF Awake
  <2> HIDE DEF Awake
  <2> QED  BY <1>0, <2>1, <2>2, <2>3 DEF WakesUp
<1>5. CASE RecordTimeout
  BY <1>0, <1>5 DEF RecordTimeout, RecordNode, WakesUp
<1>6. ASSUME NEW k \in Starts, ReturnUnheard(k)
      PROVE  WakesUp'
  <2>1. /\ UNCHANGED <<rowVars, engineVars, outsideVars>> /\ doing[k] = "finalize"
        /\ doing' = [p \in Procs |-> IF p \in {k} THEN "idle" ELSE doing[p]]
    BY <1>6 DEF ReturnUnheard, Returned, Leave
  <2>2. engine = "wait" => k # attempt /\ outcome'[attempt] = outcome[attempt]
    BY <1>0, <1>6 DEF ReturnUnheard, Returned, Leave, Forget
  <2>3. Awake => Awake'
    BY <1>0, <2>1 DEF Awake
  <2> HIDE DEF Awake
  <2> QED  BY <1>0, <2>1, <2>2, <2>3 DEF WakesUp
<1>7. CASE EngineAdvance
  BY <1>0, <1>7 DEF EngineAdvance, WakesUp, Awake
<1>8. CASE RetryJob
  <2>1. CASE runOver
    BY <1>8, <2>1 DEF RetryJob, WakesUp
  <2>2. CASE ~runOver
    BY <1>0, <1>8, <2>2, EnqueueQueues DEF RetryJob, WakesUp, Awake
  <2> QED  BY <2>1, <2>2
<1>9. CASE WorkerDies
  <2>1. /\ UNCHANGED <<rowVars, child, node, runOver, resumes, abandoned>> /\ engine' # "wait" /\ crashes' > 0
        /\ doing' = [p \in Procs |-> IF p \in Starts THEN "idle" ELSE doing[p]]
    BY <1>0, <1>9 DEF WorkerDies, Leave
  <2>2. CASE node = "WAITING" /\ ~abandoned
    <3>1. \A k \in Starts : doing[k] = "idle"
      BY <1>0, <2>2 DEF Claimed
    <3>2. Awake => Awake'
      BY <1>0, <2>1, <3>1 DEF Awake
    <3> HIDE DEF Awake
    <3> QED  BY <1>0, <2>1, <2>2, <3>2 DEF WakesUp
  <2>3. CASE ~(node = "WAITING" /\ ~abandoned)
    BY <2>1, <2>3 DEF WakesUp
  <2> QED  BY <2>2, <2>3
<1>10. ASSUME NEW p \in Ticks, TickTake(p)
       PROVE  WakesUp'
  <2>1. /\ UNCHANGED <<rowVars, engineVars, child, node, runOver, crashes, outcome>>
        /\ doing[p] = "idle"
    BY <1>10 DEF TickTake
  <2>2. CASE runOver
    BY <2>1, <2>2 DEF WakesUp
  <2>3. CASE ~runOver /\ agent = "WAITING_TOOLS" /\ AllToolsDone(pending)
    <3>1. doing'[p] = "node"
      BY <1>0, <1>10, <2>3 DEF TickTake, Goto
    <3> QED  BY <3>1 DEF WakesUp, Awake
  <2>4. CASE ~runOver /\ ~(agent = "WAITING_TOOLS" /\ AllToolsDone(pending))
    BY <1>0, <2>1, <2>4 DEF WakesUp, AllToolsDone, Status
  <2> QED  BY <2>2, <2>3, <2>4
<1>11. ASSUME NEW p \in Ticks, TickNode(p)
       PROVE  WakesUp'
  <2>1. UNCHANGED <<rowVars, engineVars, child, node, runOver, crashes>> /\ doing[p] = "node"
    BY <1>11 DEF TickNode
  <2>2. CASE node \in Settled \union {"none"}
    BY <1>0, <2>1, <2>2 DEF WakesUp, Settled, EngineFits
  <2>3. CASE node = "RUNNING" /\ EnqueueResume
    BY <1>0, <2>3, EnqueueQueues DEF WakesUp, Awake
  <2>4. CASE node = "WAITING" /\ Goto(p, "claim")
    BY <1>0, <2>4 DEF WakesUp, Awake, Goto
  <2> QED  BY <1>11, <2>2, <2>3, <2>4 DEF TickNode
<1>12. ASSUME NEW p \in Ticks, TickClaim(p)
       PROVE  WakesUp'
  BY <1>0, <1>12 DEF TickClaim, WakesUp
<1>13. ASSUME NEW p \in Ticks, Unresolved(p) \/ TickThrow(p)
       PROVE  WakesUp'
  <2>1. /\ UNCHANGED <<rowVars, engineVars, child, runOver, crashes>> /\ doing[p] \in Later
        /\ node' = IF node = "WAITING" THEN "FAILED" ELSE node
    BY <1>13 DEF Unresolved, TickThrow, FailNode, Later, InTurn
  <2>2. node # "RUNNING" /\ engine # "wait"
    BY <1>0, <2>1 DEF LaterTurns, EngineFits
  <2> QED  BY <2>1, <2>2 DEF WakesUp
<1>14. ASSUME NEW p \in Ticks, CloseAgent(p)
       PROVE  WakesUp'
  BY <1>14 DEF CloseAgent, WakesUp
<1>15. ASSUME NEW p \in Ticks, FinalizeNode(p)
       PROVE  WakesUp'
  <2>1. /\ UNCHANGED <<rowVars, engineVars, child, runOver, crashes>> /\ doing[p] \in Later
        /\ node = "WAITING" => node' # "WAITING"
        /\ node # "WAITING" => node' = node
    BY <1>15 DEF FinalizeNode, Later
  <2>2. node # "RUNNING" /\ engine # "wait"
    BY <1>0, <2>1 DEF LaterTurns, EngineFits
  <2> QED  BY <2>1, <2>2 DEF WakesUp
<1>16. ASSUME NEW p \in Ticks, Advance(p)
       PROVE  WakesUp'
  <2>1. /\ UNCHANGED <<rowVars, engineVars, child, node, resumes, crashes>> /\ doing[p] = "advance"
        /\ (runOver => runOver') /\ doing' = [q \in Procs |-> IF q \in {p} THEN "idle" ELSE doing[q]]
    BY <1>16 DEF Advance, Leave
  <2>2. outcome'[attempt] = outcome[attempt] /\ doing'[attempt] = doing[attempt]
    BY <1>0, <1>16, <2>1 DEF Advance, Leave, Forget
  <2>3. Awake => Awake'
    BY <1>0, <2>1 DEF Awake
  <2> HIDE DEF Awake
  <2> QED  BY <1>0, <2>1, <2>2, <2>3 DEF WakesUp
<1>17. ASSUME NEW p \in Ticks, TickDies(p)
       PROVE  WakesUp'
  BY <1>0, <1>17, EnqueueQueues DEF TickDies, WakesUp, Awake
<1>18. ASSUME NEW p \in Procs, AppendResults(p) \/ RunTurn(p)
       PROVE  WakesUp'
  <2>1. /\ UNCHANGED <<agent, turn, pending, engineVars, outsideVars>>
        /\ doing[p] \in {"feed", "turn"} /\ doing'[p] \in {"turn", "think"}
        /\ \A q \in Procs : q # p => doing'[q] = doing[q] /\ outcome'[q] = outcome[q]
    BY <1>0, <1>18 DEF AppendResults, RunTurn, Keep, KeepNothing, Goto
  <2>2. Awake => Awake'
    BY <1>0, <2>1 DEF Awake
  <2>3. doing'[attempt] = "finalize" => doing[attempt] = "finalize" /\ outcome'[attempt] = outcome[attempt]
    BY <1>0, <2>1
  <2> HIDE DEF Awake
  <2> QED  BY <1>0, <2>1, <2>2, <2>3 DEF WakesUp
<1>19. ASSUME NEW p \in Procs, Answer(p) \/ Exceed(p)
       PROVE  WakesUp'
  BY <1>19 DEF Answer, Exceed, EndLoop, WakesUp
<1>20. ASSUME NEW k \in Starts, StartThrows(k)
       PROVE  WakesUp'
  <2>1. CASE agent' = "DONE"
    BY <2>1 DEF WakesUp
  <2>2. CASE doing[k] = "reset" /\ Keep(k, NoCopy, NoBatch, "failed") /\ Goto(k, "finalize")
             /\ UNCHANGED <<rowVars, engineVars, outsideVars>>
    <3>1. Awake => Awake'
      BY <1>0, <2>2 DEF Awake, Goto
    <3>2. outcome'[k] = "failed" /\ \A q \in Procs : q # k => doing'[q] = doing[q] /\ outcome'[q] = outcome[q]
      BY <1>0, <2>2 DEF Keep, Goto
    <3> HIDE DEF Awake
    <3> QED  BY <1>0, <2>2, <3>1, <3>2 DEF WakesUp
  <2> QED  BY <1>20, <2>1, <2>2 DEF StartThrows, EndLoop
<1>21. ASSUME NEW p \in Procs, LaunchTools(p)
       PROVE  WakesUp'
  <2>1. /\ UNCHANGED <<rowVars, engineVars, node, runOver, resumes, crashes, outcome>> /\ doing[p] = "think"
        /\ doing' = [doing EXCEPT ![p] = "commit"]
    BY <1>21 DEF LaunchTools, Goto
  <2>2. agent = "WAITING_TOOLS" => Status' = Status
    <3> SUFFICES ASSUME agent = "WAITING_TOOLS"
                 PROVE  Status' = Status
      OBVIOUS
    <3>1. pending.turn = turn /\ (pending.by = p => copy[p].turn + 1 # turn)
      BY <1>0, <2>1 DEF Waits
    <3>2. CASE pending.turn = 0
      BY <2>1, <3>2 DEF Status, StatusOf
    <3>3. CASE pending.turn # 0
      <4>1. pending.by \in Procs /\ pending.turn \in Turns /\ <<pending.by, pending.turn>> # <<p, copy[p].turn + 1>>
        BY <1>0, <3>1, <3>3, AgentAssumption DEF RowTypes, Batches, Turns
      <4>2. copy[p].turn + 1 \in Turns
        BY <1>0, <1>21, AgentAssumption DEF LaunchTools, ThisTurn, Copies, Turns
      <4>3. PICK launched \in SUBSET Offered[ThisTurn(p)] :
              child' = [child EXCEPT ![p][copy[p].turn + 1] = [c \in Calls |-> IF c \in launched THEN "live" ELSE "none"]]
        BY <1>21 DEF LaunchTools, ThisTurn
      <4>4. [c \in Calls |-> IF c \in launched THEN "live" ELSE "none"] \in [Calls -> ChildStates]
        BY DEF ChildStates
      <4>5. child'[pending.by][pending.turn] = child[pending.by][pending.turn]
        <5> DEFINE t == copy[p].turn + 1
                   calls == [c \in Calls |-> IF c \in launched THEN "live" ELSE "none"]
        <5>1. t \in Turns /\ calls \in [Calls -> ChildStates] /\ child' = [child EXCEPT ![p][t] = calls]
              /\ <<pending.by, pending.turn>> # <<p, t>>
          BY <4>1, <4>2, <4>3, <4>4
        <5> HIDE DEF t, calls
        <5> QED  BY <1>0, <4>1, <5>1, CallsLaunched
      <4> QED  BY <2>1, <4>5 DEF Status, StatusOf
    <3> QED  BY <3>2, <3>3
  <2>3. agent = "WAITING_TOOLS" /\ Awake => Awake'
    BY <1>0, <2>1, <2>2 DEF Awake
  <2>4. doing'[attempt] = "finalize" => doing[attempt] = "finalize"
    BY <1>0, <2>1
  <2> HIDE DEF Awake
  <2> QED  BY <1>0, <2>1, <2>2, <2>3, <2>4 DEF WakesUp
<1>22. ASSUME NEW p \in Procs, Commit(p)
       PROVE  WakesUp'
  <2>1. agent' # "WAITING_TOOLS" \/ doing'[p] = "resume"
    BY <1>0, <1>22 DEF Commit, Suspend, Goto
  <2> QED  BY <2>1 DEF WakesUp, Awake
<1>23. ASSUME NEW p \in Procs, SelfResume(p)
       PROVE  WakesUp'
  BY <1>0, <1>23, EnqueueQueues DEF SelfResume, WakesUp, Awake
<1>24. ASSUME NEW p \in Procs, NEW t \in Turns, NEW c \in Calls,
              ChildStep(p, t, c) \/ ChildCanceled(p, t, c) \/ ChildFailed(p, t, c) \/ EventDies(p, t, c)
       PROVE  WakesUp'
  <2>1. /\ UNCHANGED <<rowVars, engineVars, node, runOver, doing, outcome>> /\ crashes \in Nat
        /\ crashes' = crashes \/ crashes' = crashes + 1
    BY <1>0, <1>24 DEF ChildStep, ChildEnds, OnChildFinished, ChildCanceled, ChildFailed, EndsSilently, EventDies, ChildIs
  <2>2. PICK s \in {"ended", "notified", "silent"} :
          /\ child' = [child EXCEPT ![p][t][c] = s]
          /\ resumes' = resumes \/ EnqueueResume
          /\ s = "notified" => runOver \/ EnqueueResume
          /\ s = "ended" => child[p][t][c] = "live"
    BY <1>24 DEF ChildStep, ChildEnds, OnChildFinished, ChildCanceled, ChildFailed, EndsSilently, EventDies, ChildIs
  <2>3. /\ child'[p][t][c] = s
        /\ \A q \in Procs, u \in Turns, d \in Calls : <<q, u, d>> # <<p, t, c>> => child'[q][u][d] = child[q][u][d]
    <3>1. s \in ChildStates /\ child' = [child EXCEPT ![p][t][c] = s]
      BY <2>2 DEF ChildStates
    <3>2. child \in [Procs -> [Turns -> [Calls -> ChildStates]]]
      BY <1>0 DEF RowTypes
    <3> QED  BY <3>1, <3>2
  <2>4. CASE pending = Batch(p, t)
    <3>1. pending.by = p /\ pending.turn = t /\ t # 0
      BY <2>4, AgentAssumption DEF Batch, Turns
    <3>2. Status' = {child'[p][t][d] : d \in Calls}
      BY <2>1, <3>1 DEF Status, StatusOf
    <3>3. s \in Status'
      BY <2>3, <3>2
    <3>4. CASE s = "ended"
      BY <3>3, <3>4 DEF WakesUp, Awake
    <3>5. CASE s = "silent"
      BY <3>3, <3>5 DEF WakesUp
    <3>6. CASE s = "notified"
      BY <1>0, <2>1, <2>2, <3>6, EnqueueQueues DEF WakesUp, Awake
    <3> QED  BY <3>4, <3>5, <3>6
  <2>5. CASE pending # Batch(p, t)
    <3>1. pending.turn = 0 \/ (pending.by \in Procs /\ pending.turn \in Turns /\ <<pending.by, pending.turn>> # <<p, t>>)
      <4>1. pending \in [by : Procs, turn : 0 .. MaxTurns] /\ pending = [by |-> pending.by, turn |-> pending.turn]
        BY <1>0 DEF RowTypes, Batches
      <4>2. pending.by \in Procs /\ pending.turn \in 0 .. MaxTurns
        BY <4>1
      <4>3. ~(pending.by = p /\ pending.turn = t)
        BY <2>5, <4>1 DEF Batch
      <4> QED  BY <4>2, <4>3, AgentAssumption DEF Turns
    <3>2. Status' = Status
      <4>1. CASE pending.turn = 0
        BY <2>1, <4>1 DEF Status, StatusOf
      <4>2. CASE pending.turn # 0
        <5>1. pending.by \in Procs /\ pending.turn \in Turns /\ ~(pending.by = p /\ pending.turn = t)
          BY <3>1, <4>2
        <5>2. \A d \in Calls : child'[pending.by][pending.turn][d] = child[pending.by][pending.turn][d]
          BY <2>3, <5>1
        <5> QED  BY <2>1, <5>2 DEF Status, StatusOf
      <4> QED  BY <4>1, <4>2
    <3>3. Awake => Awake'
      BY <1>0, <2>1, <2>2, <3>2, EnqueueQueues DEF Awake
    <3> HIDE DEF Awake
    <3> QED  BY <1>0, <2>1, <3>2, <3>3 DEF WakesUp
  <2> QED  BY <2>4, <2>5
<1>25. CASE TimeOut \/ CancelAgentRun
  BY <1>0, <1>25, EnqueueQueues DEF TimeOut, CancelAgentRun, WakesUp, Awake
<1>26. CASE UNCHANGED agentVars
  BY <1>0, <1>26 DEF agentVars, WakesUp, Awake
<1> QED
  BY <1>1, <1>2, <1>3, <1>4, <1>5, <1>6, <1>7, <1>8, <1>9, <1>10, <1>11, <1>12, <1>13, <1>14, <1>15, <1>16, <1>17, <1>18, <1>19, <1>20, <1>21, <1>22, <1>23, <1>24, <1>25, <1>26
  DEF AgentNext, EngineStep, StartStep, TickStep, TurnStep

LEMMA AgentInvariant == AgentSpec => []AgentInv
<1>1. ASSUME AgentInv, [AgentNext]_agentVars
      PROVE  AgentInv'
  <2>1. Types'
    BY <1>1, TypesStep DEF AgentInv, Owners
  <2>2. Owners'
    BY <1>1, <2>1, ControlStep DEF AgentInv, Owners, Types, MemoryTypes
  <2>3. Waits'
    BY <1>1, WaitsStep DEF AgentInv, Owners
  <2>4. WakesUp'
    BY <1>1, <2>2, WakesUpStep
  <2> QED  BY <2>2, <2>3, <2>4 DEF AgentInv
<1>2. AgentInv /\ [AgentNext]_agentVars => AgentInv'
  BY <1>1
<1> QED
  BY <1>2, AgentInvInit, PTL DEF AgentSpec

-----------------------------------------------------------------------------
(* Calls are answered. *)

\* Calls and results in turn.
Alternates(s) ==
  \A i \in DOMAIN s :
    /\ s[i].role = IF i % 2 = 1 THEN "call" ELSE "results"
    /\ s[i].turn = (i + 1) \div 2

\* The conversation of a suspended turn, or of one about to be fed, ends in
\* calls; that of a turn in which the model is asked, in results.
LengthFits ==
  /\ agent = "WAITING_TOOLS" => Len(messages) = 2 * turn - 1
  /\ \A p \in Procs : doing[p] = "feed" => Len(messages) = 2 * turn - 1 /\ seen[p].turn = turn
  /\ \A p \in Procs : doing[p] \in {"turn", "think", "commit"} => Len(messages) = 2 * turn
  /\ \A p \in Procs : doing[p] \in {"think", "commit"} => copy[p].turn = turn /\ copy[p].messages = messages

TalkInv == ~stale /\ ~abandoned => Alternates(messages) /\ LengthFits

\* One more message of the right kind.
LEMMA AlternatesOn ==
  ASSUME NEW s \in Conversations, Alternates(s), NEW t \in Nat \ {0}, NEW m,
         \/ Len(s) = 2 * t - 2 /\ m = Msg("call", t)
         \/ Len(s) = 2 * t - 1 /\ m = Msg("results", t)
  PROVE  Append(s, m) \in Conversations /\ Alternates(Append(s, m)) /\ Len(Append(s, m)) = Len(s) + 1
<1>1. Len(s) \in Nat /\ DOMAIN s = 1 .. Len(s)
  BY DEF Conversations
<1>2. m \in [role : {"call", "results"}, turn : Nat]
  BY DEF Msg
<1>3. /\ Append(s, m) \in Conversations /\ Len(Append(s, m)) = Len(s) + 1
      /\ DOMAIN Append(s, m) = 1 .. Len(s) + 1 /\ Append(s, m)[Len(s) + 1] = m
      /\ \A i \in 1 .. Len(s) : Append(s, m)[i] = s[i]
  BY <1>1, <1>2 DEF Conversations
<1>4. ASSUME NEW i \in 1 .. Len(s)
      PROVE  /\ Append(s, m)[i].role = IF i % 2 = 1 THEN "call" ELSE "results"
             /\ Append(s, m)[i].turn = (i + 1) \div 2
  BY <1>1, <1>3, <1>4 DEF Alternates
<1> DEFINE k == Len(s) + 1
<1>5. /\ m.role = IF k % 2 = 1 THEN "call" ELSE "results"
      /\ m.turn = (k + 1) \div 2
  <2>1. CASE Len(s) = 2 * t - 2 /\ m = Msg("call", t)
    <3>1. k = 2 * t - 1 /\ k % 2 = 1 /\ (k + 1) \div 2 = t
      BY <2>1
    <3> QED  BY <2>1, <3>1 DEF Msg
  <2>2. CASE Len(s) = 2 * t - 1 /\ m = Msg("results", t)
    <3>1. k = 2 * t /\ k % 2 = 0 /\ (k + 1) \div 2 = t
      BY <2>2
    <3> QED  BY <2>2, <3>1 DEF Msg
  <2> QED  BY <2>1, <2>2
<1> DEFINE u == Append(s, m)
<1>6. \A i \in 1 .. k : i \in 1 .. Len(s) \/ i = k
  BY <1>1
<1>7. DOMAIN u = 1 .. k /\ u[k] = m
  BY <1>3
<1>8. Alternates(u)
  <2> HIDE DEF u, k
  <2> SUFFICES ASSUME NEW i \in DOMAIN u
               PROVE  /\ u[i].role = IF i % 2 = 1 THEN "call" ELSE "results"
                      /\ u[i].turn = (i + 1) \div 2
    BY DEF Alternates
  <2>1. CASE i \in 1 .. Len(s)
    BY <1>4, <2>1 DEF u
  <2>2. CASE i = k
    BY <1>5, <1>7, <2>2
  <2> QED  BY <1>6, <1>7, <2>1, <2>2
<1> QED  BY <1>3, <1>8

LEMMA TalkStep ==
  ASSUME AgentInv, AgentInv', TalkInv, [AgentNext]_agentVars
  PROVE  TalkInv'
<1>0. /\ doing \in [Procs -> Labels] /\ copy \in [Procs -> Copies] /\ seen \in [Procs -> Batches]
      /\ turn \in Nat /\ messages \in Conversations /\ pending \in Batches
      /\ Waits /\ EngineFits /\ LaterTurns /\ (~abandoned => Claimed)
  BY DEF AgentInv, Owners, Types, RowTypes, MemoryTypes
<1> USE ProcsFacts DEF rowVars, engineVars, outsideVars
\* The turn belongs to one process.
<1>1. ASSUME ~abandoned, NEW p \in Procs, doing[p] \in InTurn
      PROVE  /\ \A q \in Procs : doing[q] \in InTurn => q = p
             /\ doing[p] # "reset" => agent # "WAITING_TOOLS"
  BY <1>0, <1>1 DEF Claimed, Later, InTurn
<1>2. CASE stale' \/ abandoned'
  BY <1>2 DEF TalkInv
\* The process in the turn moves without changing what it works on.
<1> DEFINE Still ==
      /\ UNCHANGED <<messages, turn>>
      /\ stale' = stale /\ (abandoned => abandoned')
      /\ agent' = "WAITING_TOOLS" => agent = "WAITING_TOOLS"
      /\ \A q \in Procs : doing'[q] \in {"feed", "turn", "think", "commit"} =>
           /\ copy'[q] = copy[q] /\ seen'[q] = seen[q]
           /\ \/ doing'[q] = doing[q]
              \/ doing[q] = "think" /\ doing'[q] = "commit"
<1>3. ASSUME Still
      PROVE  TalkInv'
  BY <1>0, <1>3 DEF TalkInv, LengthFits
<1>4. ASSUME ~stale', ~abandoned', NEW k \in Starts, Start(k)
      PROVE  TalkInv'
  <2>1. /\ turn' = 0 /\ messages' = <<>> /\ agent' = "RUNNING_TURN" /\ doing[k] = "reset"
        /\ doing' = [doing EXCEPT ![k] = "turn"] /\ ~abandoned
    BY <1>4 DEF Start, Goto
  <2>2. \A q \in Procs : doing[q] \in InTurn => q = k
    BY <1>1, <2>1 DEF InTurn
  <2>3. Alternates(messages') /\ Len(messages') = 0
    BY <2>1 DEF Alternates
  <2>4. \A q \in Procs : doing'[q] \in InTurn => q = k /\ doing'[q] = "turn"
    BY <1>0, <2>1, <2>2
  <2> QED  BY <2>1, <2>3, <2>4 DEF TalkInv, LengthFits, InTurn
<1>5. ASSUME ~stale', ~abandoned', NEW p \in Ticks, TickClaim(p)
      PROVE  TalkInv'
  <2>1. /\ UNCHANGED <<messages, turn, pending>> /\ ~abandoned /\ doing[p] = "claim"
        /\ \/ agent' = "RUNNING_TURN" /\ seen[p] = pending /\ ~stale /\ agent = "WAITING_TOOLS"
              /\ doing' = [doing EXCEPT ![p] = "feed"] /\ UNCHANGED <<copy, seen>>
           \/ Still
    <3>1. CASE agent = "WAITING_TOOLS"
      BY <1>0, <1>5, <3>1 DEF TickClaim, Goto
    <3>2. CASE agent # "WAITING_TOOLS"
      <4>1. /\ UNCHANGED <<messages, turn, stale, agent, pending, abandoned>>
            /\ \A q \in Procs : q # p => copy'[q] = copy[q] /\ seen'[q] = seen[q]
            /\ doing[p] = "claim" /\ doing' = [doing EXCEPT ![p] = "advance"]
        BY <1>0, <1>5, <3>2 DEF TickClaim, Goto, KeepNothing, Keep
      <4>2. Still
        BY <1>0, <4>1
      <4> HIDE DEF Still
      <4> QED  BY <1>5, <4>1, <4>2
    <3> QED  BY <3>1, <3>2
  <2>2. CASE agent' = "RUNNING_TURN" /\ seen[p] = pending /\ ~stale /\ agent = "WAITING_TOOLS"
             /\ doing' = [doing EXCEPT ![p] = "feed"] /\ UNCHANGED <<copy, seen>>
    <3>1. pending.turn = turn /\ Len(messages) = 2 * turn - 1 /\ Alternates(messages)
      BY <1>0, <2>1, <2>2 DEF Waits, TalkInv, LengthFits
    <3>2. \A q \in Procs : doing[q] \notin {"feed", "turn", "think", "commit"}
      BY <1>1, <2>1, <2>2 DEF InTurn
    <3>3. \A q \in Procs : doing'[q] \in {"feed", "turn", "think", "commit"} => q = p /\ doing'[q] = "feed"
      BY <1>0, <2>2, <3>2
    <3>4. LengthFits'
      BY <2>1, <2>2, <3>1, <3>3 DEF LengthFits
    <3> QED  BY <2>1, <3>1, <3>4 DEF TalkInv
  <2> HIDE DEF Still
  <2> QED  BY <1>3, <2>1, <2>2
<1>6. ASSUME ~stale', ~abandoned', NEW p \in Procs, AppendResults(p)
      PROVE  TalkInv'
  <2>1. /\ messages' = Append(messages, Msg("results", seen[p].turn)) /\ doing[p] = "feed"
        /\ doing' = [doing EXCEPT ![p] = "turn"] /\ UNCHANGED <<agent, turn>> /\ ~stale /\ ~abandoned
    BY <1>6 DEF AppendResults, Goto
  <2>2. Len(messages) = 2 * turn - 1 /\ seen[p].turn = turn /\ turn \in Nat \ {0} /\ Alternates(messages)
    <3>1. Len(messages) = 2 * turn - 1 /\ seen[p].turn = turn /\ Alternates(messages)
      BY <2>1 DEF TalkInv, LengthFits
    <3>2. Len(messages) \in Nat
      BY <1>0 DEF Conversations
    <3> QED  BY <1>0, <3>1, <3>2
  <2>3. Alternates(messages') /\ Len(messages') = Len(messages) + 1
    <3> DEFINE m == Msg("results", seen[p].turn)
    <3>1. m = Msg("results", turn)
      BY <2>2
    <3> HIDE DEF m
    <3> QED  BY <1>0, <2>1, <2>2, <3>1, AlternatesOn DEF m
  <2>4. Len(messages') = 2 * turn
    BY <1>0, <2>2, <2>3
  <2>5. agent # "WAITING_TOOLS" /\ \A q \in Procs : doing'[q] \in InTurn => q = p /\ doing'[q] = "turn"
    BY <1>0, <1>1, <2>1 DEF InTurn
  <2> QED  BY <2>1, <2>3, <2>4, <2>5 DEF TalkInv, LengthFits, InTurn
<1>7. ASSUME ~stale', ~abandoned', NEW p \in Procs, RunTurn(p)
      PROVE  TalkInv'
  <2>1. /\ copy' = [copy EXCEPT ![p] = Copy(turn, messages)] /\ doing[p] = "turn"
        /\ doing' = [doing EXCEPT ![p] = "think"] /\ UNCHANGED <<agent, turn, messages>> /\ ~stale /\ ~abandoned
    BY <1>7 DEF RunTurn, Goto, Keep
  <2>2. Len(messages) = 2 * turn /\ Alternates(messages)
    BY <2>1 DEF TalkInv, LengthFits
  <2>3. agent # "WAITING_TOOLS" /\ \A q \in Procs : doing'[q] \in InTurn => q = p /\ doing'[q] = "think"
    BY <1>0, <1>1, <2>1 DEF InTurn
  <2>4. copy'[p].turn = turn /\ copy'[p].messages = messages
    BY <1>0, <2>1 DEF Copy
  <2> QED  BY <2>1, <2>2, <2>3, <2>4 DEF TalkInv, LengthFits, InTurn
<1>8. ASSUME ~stale', ~abandoned', NEW p \in Procs, Commit(p)
      PROVE  TalkInv'
  <2>1. /\ doing[p] = "commit" /\ ~stale /\ ~abandoned
        /\ turn' = copy[p].turn + 1 /\ pending' = Batch(p, copy[p].turn + 1)
        /\ messages' = Append(copy[p].messages, Msg("call", copy[p].turn + 1))
    BY <1>8 DEF Commit, ThisTurn
  <2>2. Len(messages) = 2 * turn /\ Alternates(messages) /\ copy[p].turn = turn /\ copy[p].messages = messages
    BY <2>1 DEF TalkInv, LengthFits
  <2>3. turn' = turn + 1 /\ pending' = Batch(p, turn + 1) /\ messages' = Append(messages, Msg("call", turn + 1))
    BY <2>1, <2>2
  <2>4. Alternates(messages') /\ Len(messages') = 2 * turn' - 1
    <3> DEFINE t == turn + 1
               m == Msg("call", t)
    <3>1. t \in Nat \ {0} /\ Len(messages) = 2 * t - 2 /\ m = Msg("call", t)
      BY <1>0, <2>2
    <3>2. messages' = Append(messages, m) /\ turn' = t
      BY <2>3
    <3> HIDE DEF t, m
    <3>3. Alternates(messages') /\ Len(messages') = Len(messages) + 1
      BY <1>0, <2>2, <3>1, <3>2, AlternatesOn
    <3> QED  BY <3>1, <3>2, <3>3
  <2>5. \/ agent' = "WAITING_TOOLS" /\ doing' = [doing EXCEPT ![p] = "resume"]
        \/ agent' = "RUNNING_TURN" /\ doing' = [doing EXCEPT ![p] = "feed"] /\ seen' = [seen EXCEPT ![p] = pending']
    BY <1>8 DEF Commit, Suspend, Goto, Keep
  <2>6. \A q \in Procs : doing'[q] \in {"feed", "turn", "think", "commit"} => q = p /\ doing'[q] = "feed"
    BY <1>0, <1>1, <2>1, <2>5 DEF InTurn
  <2>7. doing'[p] = "feed" => seen'[p].turn = turn'
    <3>1. pending'.turn = turn'
      BY <2>3 DEF Batch
    <3> QED  BY <1>0, <2>5, <3>1
  <2> QED  BY <2>4, <2>6, <2>7 DEF TalkInv, LengthFits
<1>9. ASSUME ~stale', ~abandoned', NEW p \in Procs, Answer(p) \/ Exceed(p)
      PROVE  TalkInv'
  <2>1. /\ doing[p] = "think" /\ doing' = [doing EXCEPT ![p] = "finalize"] /\ agent' = "DONE"
        /\ UNCHANGED messages /\ ~stale /\ ~abandoned
    BY <1>9 DEF Answer, Exceed, EndLoop, Goto
  <2>2. \A q \in Procs : doing'[q] \notin {"feed", "turn", "think", "commit"}
    BY <1>0, <1>1, <2>1 DEF InTurn
  <2> QED  BY <2>1, <2>2 DEF TalkInv, LengthFits
<1>10. CASE EngineStep
  <2>1. CASE Claim \/ EngineAdvance \/ RetryJob \/ RecordTimeout
    <3>1. Still
      BY <1>0, <2>1 DEF Claim, EngineAdvance, RetryJob, RecordTimeout, RecordNode, Goto
    <3> QED  BY <1>3, <3>1
  <2>2. CASE NextStart
    <3>1. PICK ended \in SUBSET {attempt} :
            /\ copy' = [p \in Procs |-> IF p \in ended THEN NoCopy ELSE copy[p]]
            /\ seen' = [p \in Procs |-> IF p \in ended THEN NoBatch ELSE seen[p]]
            /\ doing' = [p \in Procs |-> IF p = attempt + 1 THEN "reset" ELSE IF p \in ended THEN "idle" ELSE doing[p]]
      BY <2>2 DEF NextStart, Forget
    <3>2. UNCHANGED <<messages, turn, stale, agent>> /\ (abandoned => abandoned')
      BY <2>2 DEF NextStart
    <3>3. Still
      BY <1>0, <3>1, <3>2
    <3> QED  BY <1>3, <3>3
  <2>3. CASE RecordStart
    <3>1. Leave({attempt}) /\ UNCHANGED <<messages, turn, stale, agent, abandoned>>
      BY <2>3 DEF RecordStart, RecordNode
    <3>2. Still
      BY <1>0, <3>1 DEF Leave, Forget
    <3> QED  BY <1>3, <3>2
  <2> QED  BY <1>10, <2>1, <2>2, <2>3 DEF EngineStep
<1>11. ASSUME NEW k \in Starts, StartThrows(k) \/ ReturnUnheard(k)
       PROVE  TalkInv'
  <2>1. Still
    BY <1>0, <1>11 DEF StartThrows, EndLoop, ReturnUnheard, Goto, Keep, Leave, Forget
  <2> QED  BY <1>3, <2>1
<1>12. ASSUME NEW p \in Ticks, TickTake(p) \/ TickNode(p) \/ Unresolved(p) \/ TickThrow(p)
       PROVE  TalkInv'
  <2>1. Still
    BY <1>0, <1>12 DEF TickTake, TickNode, Unresolved, TickThrow, FailNode, Goto, Keep, KeepNothing
  <2> QED  BY <1>3, <2>1
<1>13. ASSUME NEW p \in Ticks, CloseAgent(p) \/ FinalizeNode(p) \/ Advance(p) \/ TickDies(p)
       PROVE  TalkInv'
  <2>1. Still
    BY <1>0, <1>13 DEF CloseAgent, FinalizeNode, Advance, TickDies, Goto, Leave, Forget
  <2> QED  BY <1>3, <2>1
<1>14. ASSUME NEW p \in Procs, LaunchTools(p) \/ SelfResume(p)
       PROVE  TalkInv'
  <2>1. Still
    BY <1>0, <1>14 DEF LaunchTools, SelfResume, Goto
  <2> QED  BY <1>3, <2>1
<1>15. ASSUME NEW p \in Procs, NEW t \in Turns, NEW c \in Calls,
              ChildStep(p, t, c) \/ ChildCanceled(p, t, c) \/ ChildFailed(p, t, c) \/ EventDies(p, t, c)
       PROVE  TalkInv'
  <2>1. Still
    BY <1>15 DEF ChildStep, ChildEnds, OnChildFinished, ChildCanceled, ChildFailed, EndsSilently, EventDies, ChildIs
  <2> QED  BY <1>3, <2>1
<1>16. CASE TimeOut \/ CancelAgentRun \/ WorkerDies \/ UNCHANGED agentVars
  <2>1. Still
    BY <1>0, <1>16 DEF TimeOut, CancelAgentRun, WorkerDies, agentVars, Leave, Forget
  <2> QED  BY <1>3, <2>1
<1> HIDE DEF Still
<1> QED
  BY <1>2, <1>4, <1>5, <1>6, <1>7, <1>8, <1>9, <1>10, <1>11, <1>12, <1>13, <1>14, <1>15, <1>16
  DEF AgentNext, StartStep, TickStep, TurnStep

-----------------------------------------------------------------------------
(* Theorems *)

\* One job at a time runs a turn of the agent, however many resume jobs and
\* retries there are and whichever workers crash, unless the node's timeout
\* lets an attempt go on next to the following one.
THEOREM TurnsHaveOneOwner == AgentSpec => []TurnHasOneOwner
<1>1. AgentInv => TurnHasOneOwner
  <2> SUFFICES ASSUME AgentInv, ~abandoned, NEW p \in Procs, NEW q \in Procs,
                      doing[p] \in InTurn, doing[q] \in InTurn
               PROVE  p = q
    BY DEF TurnHasOneOwner
  <2> QED  BY ProcsFacts DEF AgentInv, Owners, Claimed, Later, InTurn
<1> QED  BY <1>1, AgentInvariant, PTL

\* When the calls a suspended agent waits for are resolved, a resume is on its
\* way: also if the children finished before the turn was saved, and also if
\* an abandoned attempt has saved the turn, as long as no worker dies then.
THEOREM ResumesAreNotLost == AgentSpec => []NoLostResume
<1>1. AgentInv => NoLostResume
  BY DEF AgentInv, WakesUp, Awake, NoLostResume, AllToolsDone, Silenced, Status
<1> QED  BY <1>1, AgentInvariant, PTL

\* The result of the agent's node is never overwritten, neither by a turn that
\* ends after the watchdog nor by an attempt the engine has given up.
THEOREM AgentResultsAreStable == AgentSpec => AgentResultStable
<1>1. ASSUME AgentInv, [AgentNext]_agentVars, node \in Settled
      PROVE  node' = node
  <2> USE <1>1 DEF rowVars, engineVars, outsideVars, Settled
  <2>0. engine # "wait"
    BY DEF AgentInv, Owners, EngineFits
  <2>1. CASE EngineStep
    BY <2>0, <2>1 DEF EngineStep, Claim, NextStart, RecordStart, RecordTimeout, EngineAdvance, RetryJob
  <2>2. ASSUME NEW k \in Starts, Start(k) \/ StartThrows(k) \/ ReturnUnheard(k)
        PROVE  node' = node
    BY <2>2 DEF Start, StartThrows, EndLoop, ReturnUnheard
  <2>3. ASSUME NEW p \in Ticks, TickTake(p) \/ TickNode(p) \/ TickClaim(p) \/ Unresolved(p) \/ TickThrow(p)
                                \/ CloseAgent(p) \/ FinalizeNode(p) \/ Advance(p) \/ TickDies(p)
        PROVE  node' = node
    BY <2>3 DEF TickTake, TickNode, TickClaim, Unresolved, TickThrow, FailNode, CloseAgent, FinalizeNode, Advance, TickDies
  <2>4. ASSUME NEW p \in Procs, TurnStep(p)
        PROVE  node' = node
    BY <2>4 DEF TurnStep, AppendResults, RunTurn, EndLoop, Answer, Exceed, LaunchTools, Commit, SelfResume
  <2>5. ASSUME NEW p \in Procs, NEW t \in Turns, NEW c \in Calls,
               ChildStep(p, t, c) \/ ChildCanceled(p, t, c) \/ ChildFailed(p, t, c) \/ EventDies(p, t, c)
        PROVE  node' = node
    BY <2>5 DEF ChildStep, ChildEnds, OnChildFinished, ChildCanceled, ChildFailed, EndsSilently, EventDies, ChildIs
  <2>6. CASE TimeOut \/ CancelAgentRun \/ WorkerDies
    BY <2>6 DEF TimeOut, CancelAgentRun, WorkerDies
  <2>7. CASE UNCHANGED agentVars
    BY <2>7 DEF agentVars
  <2> QED  BY <2>1, <2>2, <2>3, <2>4, <2>5, <2>6, <2>7, ProcsFacts DEF AgentNext, StartStep, TickStep
<1>2. AgentInv /\ [AgentNext]_agentVars => [(node \in Settled) => (node' = node)]_agentVars
  BY <1>1
<1> QED  BY <1>2, AgentInvariant, PTL DEF AgentSpec, AgentResultStable

\* Every tool call of the saved conversation is answered by its own results,
\* whichever of the overlapping resume jobs feeds them back, as long as none
\* claims a later turn than the one it has looked at (the `stale` history) and
\* no attempt goes on next to the following one (`abandoned`).
THEOREM CallsAreAnswered == AgentSpec => []CallsThenResults
<1>1. AgentInit => TalkInv
  BY DEF AgentInit, TalkInv, Alternates, LengthFits
<1>2. AgentInv /\ AgentInv' /\ TalkInv /\ [AgentNext]_agentVars => TalkInv'
  BY TalkStep
<1>3. TalkInv => CallsThenResults
  BY DEF TalkInv, Alternates, CallsThenResults
<1> QED  BY <1>1, <1>2, <1>3, AgentInvariant, PTL DEF AgentSpec
=============================================================================
