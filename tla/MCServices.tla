----------------------------- MODULE MCServices -----------------------------
(***************************************************************************)
(* The services around a run, checked side by side: no two of them share   *)
(* state, so a behaviour is that of one of them, its part, while the       *)
(* others stay as they began.  With fairness: the safety and the liveness  *)
(* properties of each are checked in one run.                              *)
(***************************************************************************)
EXTENDS Launcher, Subflows, EventTriggers, Webhooks, Executors, AgentLoop

VARIABLE part

Parts == {"launcher", "subflows", "events", "webhooks", "executors", "agent"}

\* An executor's kind and settings are only chosen where they matter.
Init ==
  /\ part \in Parts
  /\ LauncherInit /\ SubflowInit /\ EventInit /\ WebhookInit /\ ExecInit /\ AgentInit
  /\ part # "executors" => kind = "http" /\ ~limited /\ ~deferred

Next ==
  \/ part = "launcher" /\ LauncherNext
     /\ UNCHANGED <<part, subVars, evVars, hookVars, execVars, agentVars>>
  \/ part = "subflows" /\ SubflowNext
     /\ UNCHANGED <<part, launchVars, evVars, hookVars, execVars, agentVars>>
  \/ part = "events" /\ EventNext
     /\ UNCHANGED <<part, launchVars, subVars, hookVars, execVars, agentVars>>
  \/ part = "webhooks" /\ WebhookNext
     /\ UNCHANGED <<part, launchVars, subVars, evVars, execVars, agentVars>>
  \/ part = "executors" /\ ExecNext
     /\ UNCHANGED <<part, launchVars, subVars, evVars, hookVars, agentVars>>
  \/ part = "agent" /\ AgentNext
     /\ UNCHANGED <<part, launchVars, subVars, evVars, hookVars, execVars>>

\* The fairness of each part; that of the parts which can step from their
\* initial state is asked for only when they are the one that runs.
Fairness ==
  /\ LauncherFairness /\ SubflowFairness /\ WebhookFairness
  /\ \A p \in Reloads : WF_evVars(part = "events" /\ ReloadStep(p))
  /\ \A m \in Messages : WF_evVars(part = "events" /\ MessageStep(m))
  /\ \A i \in Items : WF_execVars(part = "executors" /\ ExecStep(i))
  /\ \A t \in Attempts :
       /\ WF_execVars(part = "executors" /\ DriverStep(t))
       /\ WF_execVars(part = "executors" /\ kind = "llm" /\ WorkProceeds(t))
  /\ WF_agentVars(part = "agent" /\ EngineStep)
  /\ \A k \in Starts : WF_agentVars(StartStep(k))
  /\ \A p \in Ticks : WF_agentVars(part = "agent" /\ TickStep(p))
  /\ \A p \in Procs, t \in Turns, c \in Calls : WF_agentVars(ChildStep(p, t, c))

Spec == Init /\ [][Next]_<<part, launchVars, subVars, evVars, hookVars, execVars, agentVars>> /\ Fairness

-----------------------------------------------------------------------------
(* Values of the constants *)

\* Flows call each other; B and C limit how deep their runs may launch.
FlowLimits == [A |-> NoLimit, B |-> 1, C |-> 2]
FlowAllows == [A |-> Flows, B |-> Flows, C |-> {"A", "C"}]
Fan == [k \in Kinds |-> IF k = "job" THEN Items ELSE {CHOOSE i \in Items : TRUE}]
Topic == [t1 |-> "x", t2 |-> "y"]
TopicOfMessage == [m1 |-> "x"]
Matches == Messages \X Triggers
EveryCall == [t \in 1 .. MaxTurns |-> Calls]
=============================================================================
