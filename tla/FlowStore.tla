------------------------------- MODULE FlowStore ------------------------------
(***************************************************************************)
(* The flow on the server: FlowService keeps its row and the versions it   *)
(* had, SchedulerService of the API instance that serves a request keeps   *)
(* its cron job. One flow, which has its id once; requests run next to     *)
(* each other on several API instances. Of the row, body stands for name,  *)
(* definition and trigger, note for the description, which may be null,    *)
(* and enabled for the columns that versions do not have: enabled,         *)
(* overlapPolicy, slaMs and requiresApproval.                              *)
(***************************************************************************)
EXTENDS Naturals, FiniteSetsExt

CONSTANTS
  Bodies,       \* values of name, definition and trigger
  Cron,         \* those with a cron trigger
  Notes,        \* descriptions
  Null,         \* one of them: no description
  Patches,      \* what updates may bring: records of the fields, or Unset
  Unset,        \* a field that a patch leaves alone
  FlowEdits,    \* requests that may be in progress
  Apis,         \* API instances
  MaxVersions,  \* bound of the version numbers
  NoFlow        \* no row, no job, no request

Rows == [body : Bodies, note : Notes, enabled : BOOLEAN]
AllPatches == [body : Bodies \union {Unset}, note : Notes \union {Unset}, enabled : BOOLEAN \union {Unset}]

ASSUME StoreAssumption ==
  /\ Cron \subseteq Bodies /\ Null \in Notes /\ MaxVersions \in Nat
  /\ NoFlow \notin Bodies \union Rows
  /\ Patches \subseteq AllPatches

VARIABLES
  flow,      \* the row, or NoFlow
  versions,  \* its versions: records of a number, the body and the note
  cronJob,   \* the body each instance has a cron job for, or NoFlow
  edit,      \* what each request does: a record, or NoFlow
  past,      \* bodies and notes the flow has had, a history
  overlap,   \* two requests were in progress at once, a history
  unread,    \* a request wrote over a body or note it had not read, a history
  unheard    \* an instance serves a flow that another one changed, a history

storeVars == <<flow, versions, cronJob, edit, past, overlap, unread, unheard>>

EditSteps == {"last", "insert", "write", "register", "delete", "unregister"}

\* row is what the request last read or wrote of the flow.
EditRecord ==
  [step : EditSteps, api : Apis, row : Rows \union {NoFlow}, patch : AllPatches, number : 0 .. MaxVersions]

ASSUME NoFlowAssumption == NoFlow \notin EditRecord

\* What a version holds of a row (the snapshot's data).
Versioned(row) == [body |-> row.body, note |-> row.note]

StoreTypeOK ==
  /\ flow \in Rows \union {NoFlow}
  /\ versions \subseteq [number : 1 .. MaxVersions, kept : [body : Bodies, note : Notes]]
  /\ cronJob \in [Apis -> Cron \union {NoFlow}]
  /\ edit \in [FlowEdits -> EditRecord \union {NoFlow}]
  /\ past \subseteq [body : Bodies, note : Notes]
  /\ {overlap, unread, unheard} \subseteq BOOLEAN

JobFor(row) == IF row # NoFlow /\ row.enabled /\ row.body \in Cron THEN row.body ELSE NoFlow

NoPatch == [body |-> Unset, note |-> Unset, enabled |-> Unset]
Given(value, old) == IF value = Unset THEN old ELSE value
Patched(row, p) ==
  [body |-> Given(p.body, row.body), note |-> Given(p.note, row.note), enabled |-> Given(p.enabled, row.enabled)]

StoreInit ==
  /\ flow = NoFlow /\ versions = {} /\ cronJob = [a \in Apis |-> NoFlow]
  /\ edit = [r \in FlowEdits |-> NoFlow]
  /\ past = {} /\ overlap = FALSE /\ unread = FALSE /\ unheard = FALSE

Editing(r) == edit[r] # NoFlow
Quiet == \A r \in FlowEdits : ~Editing(r)
Begin(r, a, step, row, p) ==
  /\ ~Editing(r)
  /\ edit' = [edit EXCEPT ![r] = [step |-> step, api |-> a, row |-> row, patch |-> p, number |-> 0]]
  /\ overlap' = (overlap \/ ~Quiet)
StepTo(r, step) == edit' = [edit EXCEPT ![r].step = step]
End(r) == edit' = [edit EXCEPT ![r] = NoFlow]

\* create, importYaml: the row, then the job of the instance.
CreateFlow(r, a, row) ==
  /\ flow = NoFlow /\ past = {}
  /\ Begin(r, a, "register", row, NoPatch)
  /\ flow' = row /\ past' = {Versioned(row)}
  /\ unheard' = (unheard \/ Apis # {a})
  /\ UNCHANGED <<versions, cronJob, unread>>

\* update reads the row; restore does after it read the version it wants.
BeginEdit(r, a, p) ==
  /\ flow # NoFlow
  /\ Begin(r, a, "last", flow, p)
  /\ UNCHANGED <<flow, versions, cronJob, past, unread, unheard>>

\* A version restores what it holds; a description that is null is undefined
\* in the update and leaves the flow's as it is.
PatchOf(v) == [body |-> v.kept.body, note |-> IF v.kept.note = Null THEN Unset ELSE v.kept.note, enabled |-> Unset]

Update(r, a)  == \E p \in Patches : BeginEdit(r, a, p)
Restore(r, a) == \E v \in versions : BeginEdit(r, a, PatchOf(v))

LastNumber == Max({v.number : v \in versions} \union {0})

\* snapshot, first call: the last version's number.
FindLast(r) ==
  /\ Editing(r) /\ edit[r].step = "last" /\ LastNumber < MaxVersions
  /\ edit' = [edit EXCEPT ![r].step = "insert", ![r].number = LastNumber + 1]
  /\ UNCHANGED <<flow, versions, cronJob, past, overlap, unread, unheard>>

\* Mutant: the version holds what the request writes.
SnapshotOfNew(r) ==
  /\ Editing(r) /\ edit[r].step = "insert"
  /\ versions' = versions \union {[number |-> edit[r].number, kept |-> Versioned(Patched(edit[r].row, edit[r].patch))]}
  /\ StepTo(r, "write")
  /\ UNCHANGED <<flow, cronJob, past, overlap, unread, unheard>>

\* snapshot, second call: a number that is taken, or a flow that is gone,
\* fails the request.
InsertVersion(r) ==
  /\ Editing(r) /\ edit[r].step = "insert"
  /\ IF flow = NoFlow \/ \E v \in versions : v.number = edit[r].number
     THEN End(r) /\ UNCHANGED versions
     ELSE /\ versions' = versions \union {[number |-> edit[r].number, kept |-> Versioned(edit[r].row)]}
          /\ StepTo(r, "write")
  /\ UNCHANGED <<flow, cronJob, past, overlap, unread, unheard>>

\* The columns of the patch are written over whatever the row is by now; the
\* row that results is what is registered.
WriteFlow(r) ==
  /\ Editing(r) /\ edit[r].step = "write"
  /\ IF flow = NoFlow
     THEN End(r) /\ UNCHANGED <<flow, past, unread, unheard>>
     ELSE LET row == Patched(flow, edit[r].patch) IN
          /\ flow' = row /\ past' = past \union {Versioned(row)}
          /\ unread' = (unread \/ Versioned(flow) # Versioned(edit[r].row))
          /\ unheard' = (unheard \/ Apis # {edit[r].api})
          /\ edit' = [edit EXCEPT ![r].step = "register", ![r].row = row]
  /\ UNCHANGED <<versions, cronJob, overlap>>

\* Mutant: a flow without a cron trigger is left alone.
RegisterCron(r) ==
  /\ Editing(r) /\ edit[r].step = "register"
  /\ cronJob' = [cronJob EXCEPT ![edit[r].api] = IF edit[r].row.body \in Cron THEN JobFor(edit[r].row) ELSE @]
  /\ End(r)
  /\ UNCHANGED <<flow, versions, past, overlap, unread, unheard>>

\* SchedulerService.register: the old job is stopped first.
Register(r) ==
  /\ Editing(r) /\ edit[r].step = "register"
  /\ cronJob' = [cronJob EXCEPT ![edit[r].api] = JobFor(edit[r].row)]
  /\ End(r)
  /\ UNCHANGED <<flow, versions, past, overlap, unread, unheard>>

BeginRemove(r, a) ==
  /\ flow # NoFlow
  /\ Begin(r, a, "delete", NoFlow, NoPatch)
  /\ UNCHANGED <<flow, versions, cronJob, past, unread, unheard>>

DeleteFlow(r) ==
  /\ Editing(r) /\ edit[r].step = "delete"
  /\ IF flow = NoFlow
     THEN End(r) /\ UNCHANGED <<flow, versions, unheard>>
     ELSE /\ flow' = NoFlow /\ versions' = {}
          /\ unheard' = (unheard \/ Apis # {edit[r].api})
          /\ StepTo(r, "unregister")
  /\ UNCHANGED <<cronJob, past, overlap, unread>>

Unregister(r) ==
  /\ Editing(r) /\ edit[r].step = "unregister"
  /\ cronJob' = [cronJob EXCEPT ![edit[r].api] = NoFlow]
  /\ End(r)
  /\ UNCHANGED <<flow, versions, past, overlap, unread, unheard>>

\* An instance restarts: its requests are lost, and registerAll reads the row.
Reboot(a) ==
  /\ cronJob' = [cronJob EXCEPT ![a] = JobFor(flow)]
  /\ edit' = [r \in FlowEdits |-> IF Editing(r) /\ edit[r].api = a THEN NoFlow ELSE edit[r]]
  /\ UNCHANGED <<flow, versions, past, overlap, unread, unheard>>

EditStep(r) ==
  FindLast(r) \/ InsertVersion(r) \/ WriteFlow(r) \/ Register(r) \/ DeleteFlow(r) \/ Unregister(r)

StoreNext ==
  \/ \E r \in FlowEdits : EditStep(r)
  \/ \E r \in FlowEdits, a \in Apis :
       \/ \E row \in Rows : CreateFlow(r, a, row)
       \/ Update(r, a) \/ Restore(r, a) \/ BeginRemove(r, a)
  \/ \E a \in Apis : Reboot(a)

StoreSpec == StoreInit /\ [][StoreNext]_storeVars
-----------------------------------------------------------------------------
(* Properties *)

\* What the flow has had as name, definition, trigger and description is what
\* it has now or a version, however requests overlap, fail and are cut off
\* ("Snapshot the pre-update state", flow.service.ts); unless one of them
\* wrote over a state it had not read: nobody has snapshotted that one. The
\* other columns are in no version.
PastIsKept ==
  flow # NoFlow /\ ~unread => past \subseteq {Versioned(flow)} \union {v.kept : v \in versions}

\* Between requests the cron jobs are those of the stored flow, unless
\* requests overlapped or the change was served by another instance.
JobsFollowFlow ==
  Quiet /\ ~overlap /\ ~unheard => \A a \in Apis : cronJob[a] = JobFor(flow)

\* Between requests that never overlap, every instance schedules the flow as
\* it is stored ("safe to run as multiple API and worker instances [...]
\* every instance is stateless", docs/self-hosting.md). The code does not
\* keep this: the other instances are not told.
JobsAgree == Quiet /\ ~overlap => \A a \in Apis : cronJob[a] = JobFor(flow)

\* A request that restores a version makes the flow what the version holds
\* ("Restore a flow to a previous version", flow.service.ts). The code does
\* not keep this: a version without a description leaves the newer one.
RestoreRestores ==
  \A v \in versions : flow # NoFlow => Versioned(Patched(flow, PatchOf(v))) = v.kept
=============================================================================
