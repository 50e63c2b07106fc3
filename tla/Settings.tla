------------------------------- MODULE Settings -------------------------------
(***************************************************************************)
(* The notification settings: SettingService keeps one document, of which  *)
(* the API shows secrets masked; SettingsPage loads it, edits it and sends *)
(* it back whole. One channel: its secret and its plain fields. Browser    *)
(* tabs save next to each other.                                           *)
(***************************************************************************)
EXTENDS Naturals

CONSTANTS
  Tabs,     \* browser tabs on the settings page
  Secrets,  \* texts a user may type as the secret
  Plains,   \* contents of the channel's plain fields
  Mask,     \* what the API shows of a secret
  NoText    \* the empty text, and a field that is not in a request

ASSUME SettingsAssumption == {Mask, NoText} \intersect Secrets = {} /\ Mask # NoText

VARIABLES
  channel,   \* the stored channel: secret and plain
  tab,       \* each tab: its step, what it shows, sends, and what its request read
  typed,     \* secrets users typed, a history
  saving     \* two saves were in progress at once, a history

settingVars == <<channel, tab, typed, saving>>

Shown == [secret : Secrets \union {Mask, NoText}, plain : Plains]

SettingsTypeOK ==
  /\ channel \in Shown
  /\ \A t \in Tabs :
       /\ tab[t].step \in {"closed", "open", "read", "write", "answer"}
       /\ {tab[t].shown, tab[t].sent, tab[t].seen} \subseteq Shown
       /\ tab[t].sends \in BOOLEAN
  /\ typed \subseteq Secrets \union {NoText} /\ saving \in BOOLEAN

SettingsInit ==
  /\ channel \in [secret : Secrets \union {NoText}, plain : Plains]
  /\ tab = [t \in Tabs |-> [step |-> "closed", shown |-> channel, sent |-> channel,
                            seen |-> channel, sends |-> FALSE]]
  /\ typed = {channel.secret} /\ saving = FALSE

\* getMaskedConfig
Masked(c) == [c EXCEPT !.secret = IF @ = NoText THEN NoText ELSE Mask]

InRequest(t) == tab[t].step \in {"read", "write", "answer"}
SetTab(t, r) == tab' = [tab EXCEPT ![t] = r]

OpenSettings(t) ==
  /\ tab[t].step = "closed"
  /\ SetTab(t, [tab[t] EXCEPT !.step = "open", !.shown = Masked(channel)])
  /\ UNCHANGED <<channel, typed, saving>>

CloseSettings(t) ==
  /\ tab[t].step = "open"
  /\ SetTab(t, [tab[t] EXCEPT !.step = "closed"])
  /\ UNCHANGED <<channel, typed, saving>>

\* patch: the inputs work while a save is in progress, too.
TypeSecret(t, s) ==
  /\ tab[t].step # "closed"
  /\ SetTab(t, [tab[t] EXCEPT !.shown.secret = s])
  /\ typed' = typed \union {s}
  /\ UNCHANGED <<channel, saving>>

TypePlain(t, p) ==
  /\ tab[t].step # "closed"
  /\ SetTab(t, [tab[t] EXCEPT !.shown.plain = p])
  /\ UNCHANGED <<channel, typed, saving>>

\* Mutant: a secret that is still masked is sent along.
SaveMasked(t) ==
  /\ tab[t].step = "open"
  /\ SetTab(t, [tab[t] EXCEPT !.step = "read", !.sent = tab[t].shown, !.sends = TRUE])
  /\ saving' = (saving \/ \E u \in Tabs : InRequest(u))
  /\ UNCHANGED <<channel, typed>>

\* save: a secret that is still masked is left out of the request.
SaveSettings(t) ==
  /\ tab[t].step = "open"
  /\ SetTab(t, [tab[t] EXCEPT !.step = "read", !.sent = tab[t].shown,
                              !.sends = tab[t].shown.secret # Mask])
  /\ saving' = (saving \/ \E u \in Tabs : InRequest(u))
  /\ UNCHANGED <<channel, typed>>

\* SettingService.update, first: getConfig.
ReadChannel(t) ==
  /\ tab[t].step = "read"
  /\ SetTab(t, [tab[t] EXCEPT !.step = "write", !.seen = channel])
  /\ UNCHANGED <<channel, typed, saving>>

\* Mutant: a secret the request leaves out becomes empty.
MergeBlank(seen, sent, sends) == [sent EXCEPT !.secret = IF sends THEN @ ELSE NoText]

\* mergeSlack and the like: a field the request leaves out keeps its value.
Merge(seen, sent, sends) == [sent EXCEPT !.secret = IF sends THEN @ ELSE seen.secret]

\* The whole document is written.
WriteChannel(t) ==
  /\ tab[t].step = "write"
  /\ channel' = Merge(tab[t].seen, tab[t].sent, tab[t].sends)
  /\ SetTab(t, [tab[t] EXCEPT !.step = "answer"])
  /\ UNCHANGED <<typed, saving>>

\* The answer is read after the write, and replaces what the page shows.
AnswerSave(t) ==
  /\ tab[t].step = "answer"
  /\ SetTab(t, [tab[t] EXCEPT !.step = "open", !.shown = Masked(channel)])
  /\ UNCHANGED <<channel, typed, saving>>

\* The request fails, or its answer is lost; the page keeps what it shows.
SaveFails(t) ==
  /\ InRequest(t)
  /\ SetTab(t, [tab[t] EXCEPT !.step = "open"])
  /\ UNCHANGED <<channel, typed, saving>>

SettingsNext == \E t \in Tabs :
  \/ OpenSettings(t) \/ CloseSettings(t)
  \/ \E s \in Secrets \union {NoText} : TypeSecret(t, s)
  \/ \E p \in Plains : TypePlain(t, p)
  \/ SaveSettings(t) \/ ReadChannel(t) \/ WriteChannel(t) \/ AnswerSave(t) \/ SaveFails(t)

SettingsSpec == SettingsInit /\ [][SettingsNext]_settingVars
-----------------------------------------------------------------------------
(* Properties *)

\* The mask that stands for a secret in the browser never comes back as the
\* secret, whatever tabs load, type and save in which order.
MaskNotStored == channel.secret \in typed

\* The stored secret changes only by a save that carries a typed one; saves
\* that overlap are left out: one may put back the secret it read before the
\* other wrote.
SecretKept ==
  [][channel'.secret # channel.secret =>
       \/ saving
       \/ \E t \in Tabs : tab[t].step = "write" /\ tab[t].sends
                            /\ channel'.secret = tab[t].sent.secret]_settingVars
=============================================================================
