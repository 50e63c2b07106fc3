------------------------------ MODULE Subflows -------------------------------
(***************************************************************************)
(* Flow runs that run other flows as one of their nodes: SubflowExecutor   *)
(* launches a child run and polls it, inside a worker slot it keeps, after *)
(* subflow-cycle has searched the ancestry for the child's flow and        *)
(* checked the guardrails of the launching flow.                           *)
(***************************************************************************)
EXTENDS Naturals, FiniteSets

CONSTANTS
  Flows,      \* flows that may call each other
  MaxDepth,   \* guardrails.maxSubflowDepth of each flow, NoLimit without one
  NoLimit,
  AllowedFlows, \* guardrails.allowedToolFlows of each flow, all without one
  WalkBound,  \* ancestors findFlowCycle looks at, 50 in the code
  Slots,      \* WORKER_CONCURRENCY summed over the workers
  MaxRuns     \* bound of the number of runs

ASSUME SubflowAssumption ==
  /\ Slots \in Nat \ {0} /\ WalkBound \in Nat /\ MaxRuns \in Nat
  /\ MaxDepth \in [Flows -> Nat \union {NoLimit}]
  /\ AllowedFlows \in [Flows -> SUBSET Flows]

Ids   == 1 .. MaxRuns
NoRun == 0

VARIABLES
  flowOf,  \* FlowRun.flowId of the runs that exist
  parent,  \* FlowRun.parentRunId
  state,   \* FlowRun.status, "none" before the row exists
  at,      \* where the run's job is
  callee,  \* the flow of the sub-flow node being executed
  launched \* the run a node has launched and polls

subVars == <<flowOf, parent, state, at, callee, launched>>

Over     == {"SUCCESS", "FAILED", "CANCELED"}
Created  == {r \in Ids : state[r] # "none"}
Busy     == {r \in Ids : at[r] \in {"nodes", "launch", "poll"}}
NextId   == Cardinality(Created) + 1

SubflowTypeOK ==
  /\ flowOf \in [Ids -> Flows \union {"none"}]
  /\ parent \in [Ids -> Ids \union {NoRun}]
  /\ state \in [Ids -> {"none", "PENDING", "RUNNING"} \union Over]
  /\ at \in [Ids -> {"none", "queued", "nodes", "launch", "poll", "done"}]
  /\ callee \in [Ids -> Flows \union {"none"}]
  /\ launched \in [Ids -> Ids \union {NoRun}]

SubflowInit ==
  /\ flowOf = [r \in Ids |-> "none"]
  /\ parent = [r \in Ids |-> NoRun]
  /\ state = [r \in Ids |-> "none"]
  /\ at = [r \in Ids |-> "none"]
  /\ callee = [r \in Ids |-> "none"]
  /\ launched = [r \in Ids |-> NoRun]

\* The run i levels above r.
Above(r, i) ==
  LET up[k \in 0 .. i] ==
        IF k = 0 THEN r
        ELSE IF up[k - 1] = NoRun THEN NoRun
        ELSE parent[up[k - 1]]
  IN up[i]

Ancestry(r, n) == {Above(r, i) : i \in 0 .. n - 1} \ {NoRun}

\* Mutant: only the flow of the launching run is compared.
OwnFlowOnly(r, f) == flowOf[r] = f

\* Launching flow f from run r would recurse, as far as the walk can see.
FindFlowCycle(r, f) == \E a \in Ancestry(r, WalkBound) : flowOf[a] = f

FlowChainDepth(r) == Cardinality(Ancestry(r, MaxRuns)) - 1

\* A breach of the launching flow's own guardrails; a child inherits none.
CheckLaunchGuardrails(r, f) ==
  \/ f \notin AllowedFlows[flowOf[r]]
  \/ MaxDepth[flowOf[r]] # NoLimit /\ FlowChainDepth(r) >= MaxDepth[flowOf[r]]

-----------------------------------------------------------------------------

NewRun(c, f, p) ==
  /\ flowOf' = [flowOf EXCEPT ![c] = f]
  /\ parent' = [parent EXCEPT ![c] = p]
  /\ state' = [state EXCEPT ![c] = "PENDING"]

LaunchRoot(f) ==
  /\ NextId \in Ids
  /\ NewRun(NextId, f, NoRun)
  /\ at' = [at EXCEPT ![NextId] = "queued"]
  /\ UNCHANGED <<callee, launched>>

\* A worker with a free slot takes the job; a canceled run is dropped.
TakeRun(r) ==
  /\ at[r] = "queued" /\ Cardinality(Busy) < Slots
  /\ \/ /\ state[r] = "PENDING"
        /\ state' = [state EXCEPT ![r] = "RUNNING"]
        /\ at' = [at EXCEPT ![r] = "nodes"]
     \/ /\ state[r] \in Over
        /\ at' = [at EXCEPT ![r] = "done"]
        /\ UNCHANGED state
  /\ UNCHANGED <<flowOf, parent, callee, launched>>

\* The run's job ends, with the outcome of its nodes unless it was canceled.
EndRun(r, outcome) ==
  /\ state' = [state EXCEPT ![r] = IF @ = "RUNNING" THEN outcome ELSE @]
  /\ at' = [at EXCEPT ![r] = "done"]
  /\ UNCHANGED <<flowOf, parent, callee, launched>>

\* The run's nodes end without a sub-flow.
EndLeaf(r) == at[r] = "nodes" /\ \E outcome \in {"SUCCESS", "FAILED"} : EndRun(r, outcome)

Refused(r, f) == FindFlowCycle(r, f) \/ CheckLaunchGuardrails(r, f)

\* A sub-flow node begins: a cycle or a breach of the guardrails fails it.
Call(r, f) ==
  /\ at[r] = "nodes"
  /\ \/ Refused(r, f) /\ EndRun(r, "FAILED")
     \/ /\ ~Refused(r, f) /\ NextId \in Ids
        /\ at' = [at EXCEPT ![r] = "launch"]
        /\ callee' = [callee EXCEPT ![r] = f]
        /\ UNCHANGED <<flowOf, parent, state, launched>>

\* Without a free id the bound of the model is reached, and the launch fails.
LaunchChild(r) ==
  /\ at[r] = "launch"
  /\ \/ /\ NextId \in Ids
        /\ NewRun(NextId, callee[r], r)
        /\ at' = [at EXCEPT ![r] = "poll", ![NextId] = "queued"]
        /\ launched' = [launched EXCEPT ![r] = NextId]
        /\ UNCHANGED callee
     \/ NextId \notin Ids /\ EndRun(r, "FAILED")

\* The node succeeds if and only if the child run did.
PollDone(r) ==
  /\ at[r] = "poll" /\ state[launched[r]] \in Over
  /\ EndRun(r, IF state[launched[r]] = "SUCCESS" THEN "SUCCESS" ELSE "FAILED")

\* Mutant: the parent waits for its child without a deadline.
PollForever(r) == FALSE /\ UNCHANGED subVars

\* The node's deadline passes; the child goes on by itself.
PollTimeout(r) ==
  /\ at[r] = "poll" /\ state[launched[r]] \notin Over
  /\ EndRun(r, "FAILED")

\* RunService.cancel; neither the job nor a child is told.
CancelRun(r) ==
  /\ state[r] \in {"PENDING", "RUNNING"}
  /\ state' = [state EXCEPT ![r] = "CANCELED"]
  /\ UNCHANGED <<flowOf, parent, at, callee, launched>>

RunStep(r) ==
  TakeRun(r) \/ EndLeaf(r) \/ LaunchChild(r) \/ PollDone(r) \/ PollTimeout(r)

SubflowNext ==
  \/ \E f \in Flows : LaunchRoot(f)
  \/ \E r \in Ids : RunStep(r) \/ CancelRun(r) \/ \E f \in Flows : Call(r, f)

SubflowSpec == SubflowInit /\ [][SubflowNext]_subVars

\* Workers take and execute jobs; a node's deadline is enforced by its polling.
SubflowFairness == \A r \in Ids : WF_subVars(RunStep(r))

-----------------------------------------------------------------------------
(* Properties *)

\* Flows do not invoke themselves through each other: no flow occurs twice
\* among as many successive ancestors as the cycle guard walks, whatever the
\* flow definitions in use when each run was launched.
NoRecursion ==
  \A r \in Created : \A a \in Ancestry(parent[r], WalkBound) : flowOf[a] # flowOf[r]

\* Every run ends, although parents hold the slots their children need: the
\* deadline of a polling node frees its slot.
RunsDrain == \A r \in Ids : state[r] = "PENDING" ~> state[r] \in Over
=============================================================================
