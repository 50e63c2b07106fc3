----------------------------- MODULE Notifications -----------------------------
(***************************************************************************)
(* Who is told that a run has finished: the listener of flow.run.finished, *)
(* NotificationService and the strategies NotificationFactory builds from  *)
(* the settings, which an admin changes meanwhile. The event lives in the  *)
(* process that finished the run. A message is its channel; what it says   *)
(* and how a channel is reached are left out. retry_exhausted, which       *)
(* nothing emits, has no action.                                           *)
(***************************************************************************)
EXTENDS Naturals, FiniteSets

CONSTANTS
  Finishes,    \* flow.run.finished events
  Channels,    \* "slack", "telegram", "discord", "email", "webhook"
  Processes,   \* processes that finish runs
  MaxConfigs   \* bound of the changes of the settings

ASSUME NoticeAssumption == Processes # {} /\ MaxConfigs \in Nat

VARIABLES
  config,   \* the stored settings: events to tell of, channels enabled and filled in
  notice,   \* each event: its step, process, status and the channels being sent to
  told,     \* how often each channel was sent to for each event, whether it failed or not
  since,    \* the channels active in all and in some settings since the event, a history
  changes   \* changes of the settings so far

noticeVars == <<config, notice, told, since, changes>>

Statuses == {"SUCCESS", "FAILED", "CANCELED"}
Events == {"failed", "completed"}
Configs == [events : SUBSET Events, enabled : SUBSET Channels, filled : SUBSET Channels]

NoticeTypeOK ==
  /\ config \in Configs /\ changes \in 0 .. MaxConfigs
  /\ \A n \in Finishes :
       /\ notice[n].step \in {"none", "listening", "sending", "lost"}
       /\ notice[n].sends \subseteq Channels
  /\ told \in [Finishes -> [Channels -> 0 .. 1]]
  /\ since \in [Finishes -> [all : SUBSET Channels, some : SUBSET Channels]]

\* isEventEnabled, for what the listener makes of a status; a canceled run is none.
EventEnabled(c, status) ==
  \/ status = "FAILED" /\ "failed" \in c.events
  \/ status = "SUCCESS" /\ "completed" \in c.events

\* NotificationFactory.build
Build(c) == c.enabled \intersect c.filled

\* The channels that settings say a status is sent to.
Wanted(c, status) == IF EventEnabled(c, status) THEN Build(c) ELSE {}

\* The default events, with the channels set up.
NoticeInit ==
  /\ config = [events |-> {"failed"}, enabled |-> Channels, filled |-> Channels]
  /\ notice = [n \in Finishes |-> [step |-> "none", by |-> CHOOSE p \in Processes : TRUE,
                                   status |-> "FAILED", sends |-> {}]]
  /\ told = [n \in Finishes |-> [c \in Channels |-> 0]]
  /\ since = [n \in Finishes |-> [all |-> {}, some |-> {}]]
  /\ changes = 0

SetNotice(n, r) == notice' = [notice EXCEPT ![n] = r]

-----------------------------------------------------------------------------
(* Actions *)

\* PUT /settings/notifications
SaveConfig(new) ==
  /\ changes < MaxConfigs /\ changes' = changes + 1
  /\ config' = new
  /\ since' = [n \in Finishes |->
       [all |-> since[n].all \intersect Wanted(new, notice[n].status),
        some |-> since[n].some \union Wanted(new, notice[n].status)]]
  /\ UNCHANGED <<notice, told>>

\* A run is over and its process emits the event.
EmitFinished(n, p, status) ==
  /\ notice[n].step = "none"
  /\ SetNotice(n, [step |-> "listening", by |-> p, status |-> status, sends |-> {}])
  /\ since' = [since EXCEPT ![n] = [all |-> Wanted(config, status), some |-> Wanted(config, status)]]
  /\ UNCHANGED <<config, told, changes>>

\* The settings are read once, and sending begins on all channels at the same time.
Notify(n) ==
  /\ notice[n].step = "listening"
  /\ SetNotice(n, [notice[n] EXCEPT !.step = "sending", !.sends = Wanted(config, notice[n].status)])
  /\ UNCHANGED <<config, told, since, changes>>

\* The settings cannot be read.
NotifyFails(n) ==
  /\ notice[n].step = "listening"
  /\ SetNotice(n, [notice[n] EXCEPT !.step = "lost"])
  /\ UNCHANGED <<config, told, since, changes>>

Try(n, c) ==
  /\ c \in notice[n].sends
  /\ told' = [told EXCEPT ![n][c] = @ + 1]
  /\ UNCHANGED <<config, since, changes>>

\* Mutant: one channel's failure keeps the rest from being sent.
SendStops(n, c) == Try(n, c) /\ SetNotice(n, [notice[n] EXCEPT !.sends = {}])

Send(n, c) == Try(n, c) /\ SetNotice(n, [notice[n] EXCEPT !.sends = @ \ {c}])

\* A failure is logged and has no other effect.
SendFails(n, c) == Try(n, c) /\ SetNotice(n, [notice[n] EXCEPT !.sends = @ \ {c}])

\* The process dies with the events it has yet to tell of.
ProcessDies(p) ==
  /\ notice' = [n \in Finishes |->
       IF notice[n].by = p /\ (notice[n].step = "listening" \/ notice[n].sends # {})
       THEN [notice[n] EXCEPT !.step = "lost", !.sends = {}] ELSE notice[n]]
  /\ UNCHANGED <<config, told, since, changes>>

NoticeNext ==
  \/ \E new \in Configs : SaveConfig(new)
  \/ \E n \in Finishes :
       \/ \E p \in Processes, status \in Statuses : EmitFinished(n, p, status)
       \/ Notify(n) \/ NotifyFails(n)
       \/ \E c \in Channels : Send(n, c) \/ SendFails(n, c)
  \/ \E p \in Processes : ProcessDies(p)

NoticeSpec == NoticeInit /\ [][NoticeNext]_noticeVars

-----------------------------------------------------------------------------
(* Properties *)

\* A channel is sent to at most once for an event, and only if some settings
\* since the event wanted it. Once sending has begun, a channel that all of
\* them wanted has been sent to or is still being tried, whatever fails, hangs
\* or is done on the others. Events whose process dies or cannot read the
\* settings are told to nobody; a channel that only some of the settings wanted
\* may be sent to or not.
ToldAsWanted ==
  \A n \in Finishes, c \in Channels :
    /\ told[n][c] <= 1
    /\ told[n][c] = 1 => c \in since[n].some
    /\ notice[n].step = "sending" /\ c \in since[n].all => (told[n][c] = 1 <=> c \notin notice[n].sends)
================================================================================
