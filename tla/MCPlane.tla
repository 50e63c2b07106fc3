------------------------------ MODULE MCPlane -------------------------------
(***************************************************************************)
(* The control plane, checked side by side: the scheduler with the         *)
(* launcher, the agent loop, accounts, the flow store, settings, the event *)
(* bus, the parts of the flow editor, the page of a flow, parameters and   *)
(* notifications. No two of them share state, so a behaviour is that of    *)
(* one of them, its part, while the others stay as they began. Safety      *)
(* only: no fairness.                                                      *)
(***************************************************************************)
EXTENDS Scheduler, AgentLoop, Accounts, FlowStore, Settings, RunEvents, FlowEditor, NodeForm, CronBuilder,
  RunView, Params, Notifications

VARIABLE part

\* An agent node that is retried and has a timeout, next to the one of the
\* configuration, which has neither: one tick, one call, one turn.
Bounded == INSTANCE AgentLoop WITH
  Ticks <- {CHOOSE p \in Ticks : TRUE}, Calls <- {CHOOSE c \in Calls : TRUE},
  Offered <- [t \in {1} |-> {CHOOSE c \in Calls : TRUE}], MaxTurns <- 1, AgentRetries <- 1, HasTimeout <- TRUE

\* Bound of that part: of its attempts and its tick one has launched a child.
OneLauncher ==
  \A p, q \in Bounded!Procs :
    (\E c \in DOMAIN child[p][1] : child[p][1][c] # "none") /\ (\E c \in DOMAIN child[q][1] : child[q][1][c] # "none")
      => p = q

planeVars == <<part, vars, agentVars, accVars, storeVars, settingVars, busVars, editorVars, formVars, cronVars,
               runViewVars, paramVars, noticeVars>>

\* The variables of the parts other than p.
Others(p) ==
  /\ p # "schedule" => UNCHANGED vars
  /\ p \notin {"agent", "bounded"} => UNCHANGED agentVars
  /\ p # "accounts" => UNCHANGED accVars
  /\ p # "store" => UNCHANGED storeVars
  /\ p # "settings" => UNCHANGED settingVars
  /\ p # "events" => UNCHANGED busVars
  /\ p # "editor" => UNCHANGED editorVars
  /\ p # "form" => UNCHANGED formVars
  /\ p # "cron" => UNCHANGED cronVars
  /\ p # "view" => UNCHANGED runViewVars
  /\ p # "params" => UNCHANGED paramVars
  /\ p # "notify" => UNCHANGED noticeVars

Parts == {"schedule", "agent", "bounded", "accounts", "store", "settings", "events", "editor", "form", "cron", "view", "params",
          "notify"}

\* Where a part has several initial states they are left to it; the editor has
\* one, a flow of two nodes, an edge and guardrails, from which edits reach all
\* definitions.
PlaneInit ==
  /\ part \in Parts
  /\ Init /\ AccountInit /\ StoreInit /\ SettingsInit /\ BusInit /\ EditorInit /\ FormInit /\ CronInit
  /\ RunViewInit /\ ParamsInit /\ NoticeInit
  /\ IF part = "bounded" THEN Bounded!AgentInit ELSE AgentInit
  /\ part # "settings" => channel.secret = NoText
  /\ stored.guardrails /\ stored.edges # {}
  /\ part # "cron" => mode = "simple"
  /\ part # "params" => dateParams = << >>

PlaneNext ==
  /\ UNCHANGED part /\ Others(part)
  /\ \/ part = "schedule" /\ Next
     \/ part = "agent" /\ AgentNext
     \/ part = "bounded" /\ Bounded!AgentNext /\ OneLauncher'
     \/ part = "accounts" /\ AccountNext
     \/ part = "store" /\ StoreNext
     \/ part = "settings" /\ SettingsNext
     \/ part = "events" /\ BusNext
     \/ part = "editor" /\ EditorNext
     \/ part = "form" /\ FormNext
     \/ part = "cron" /\ CronNext
     \/ part = "view" /\ RunViewNext
     \/ part = "params" /\ ParamsNext
     \/ part = "notify" /\ NoticeNext

PlaneSpec == PlaneInit /\ [][PlaneNext]_planeVars

\* Two states of a part are the same if its variables are: the others' never
\* change, and begin with one value each. TLC is given this to compare states by.
PartOfState ==
  <<part,
    CASE part = "schedule" -> vars
      [] part \in {"agent", "bounded"} -> agentVars
      [] part = "accounts" -> accVars
      [] part = "store" -> storeVars
      [] part = "settings" -> settingVars
      [] part = "events" -> busVars
      [] part = "editor" -> editorVars
      [] part = "form" -> formVars
      [] part = "cron" -> cronVars
      [] part = "view" -> runViewVars
      [] part = "params" -> paramVars
      [] part = "notify" -> noticeVars>>

-----------------------------------------------------------------------------
(* Values of the constants *)

\* The first reply may call two tools, the second one.
TwoThenOne == [t \in 1 .. MaxTurns |-> IF t = 1 THEN Calls ELSE {CHOOSE c \in Calls : TRUE}]

\* What the editor saves, a description that is cleared, and the flow's switch.
SomePatches ==
  {[NoPatch EXCEPT !.body = b] : b \in Bodies} \union {[NoPatch EXCEPT !.note = ""]}
    \union {[NoPatch EXCEPT !.enabled = e] : e \in BOOLEAN}

\* What is typed into a field of the cron expression.
SomeFields == {Star, At(0)}

\* What is typed as a parameter, what a run overrides, and what else reads them.
SomeTexts == {Plain("v"), ParamExpr("b"), ItemExpr}
SomeOverrides == {<< >>, "b" :> Broken, ("a" :> ParamExpr("b") @@ "b" :> MatchRef)}
SomeDates == {<< >>, <<[key |-> "a", valid |-> TRUE], [key |-> "b", valid |-> FALSE]>>}
HeaderOfA == ParamExpr("a")
SomePrompts == {<<ParamExpr("b"), Plain("v"), ItemExpr, ParamExpr("b")>>, <<ParamExpr("a"), Broken>>}
=============================================================================
