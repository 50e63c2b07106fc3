------------------------- MODULE ControlPlaneProofs --------------------------
(***************************************************************************)
(* Proofs about the stored flow and its versions, the event bus, the       *)
(* members and their roles, the settings document and the notifications,   *)
(* for every number of requests, API instances, streams, users, browser    *)
(* tabs and finished runs. The five share no state; each has its own       *)
(* inductive invariant.                                                    *)
(***************************************************************************)
EXTENDS Accounts, FlowStore, RunEvents, Settings, Notifications, FiniteSetTheorems, WellFoundedInduction, TLAPS

-----------------------------------------------------------------------------
(* The stored flow *)

LEMMA LargestNumber ==
  ASSUME NEW n \in Nat, NEW S \in SUBSET (0 .. n), S # {}
  PROVE  Max(S) \in S /\ \A k \in S : Max(S) >= k
<1>1. PICK R : IsWellFoundedOn(R, Nat) /\ \A i, j \in Nat : i < j => <<i, j>> \in R
  BY NatLessThanWellFounded DEF OpToRel
<1> DEFINE T == {n - k : k \in S}
<1>2. \A k \in S : n - k \in Nat  OBVIOUS
<1>3. T \in SUBSET Nat /\ T # {}  BY <1>2
<1> HIDE DEF T
<1>4. \E m \in T : \A y \in T : ~ (<<y, m>> \in R)
  <2>1. IsWellFoundedOn(R, Nat)  BY <1>1
  <2> QED  BY <2>1, <1>3, WFMin
<1>5. PICK m \in T : \A y \in T : ~ (<<y, m>> \in R)  BY <1>4
<1>6. PICK k \in S : m = n - k  BY DEF T
<1>7. ASSUME NEW j \in S
      PROVE  k >= j
  <2>1. n - j \in T  BY DEF T
  <2>2. ~ (n - j < m)  BY <1>1, <1>3, <1>5, <2>1
  <2> QED  BY <2>2, <1>6
<1> QED  BY <1>6, <1>7 DEF Max

\* A request that will write, or has written, holds a row of the flow.
StoreTypes ==
  /\ StoreTypeOK
  /\ \A r \in FlowEdits : Editing(r) =>
       /\ edit[r].step \in {"last", "insert", "write", "register"} => edit[r].row \in Rows
       /\ edit[r].step = "insert" => edit[r].number \in 1 .. MaxVersions

LEMMA LastNumberIs ==
  ASSUME StoreTypeOK
  PROVE  LastNumber \in 0 .. MaxVersions /\ \A v \in versions : v.number <= LastNumber
<1> DEFINE S == {v.number : v \in versions} \union {0}
<1>1. \A v \in versions : v.number \in 1 .. MaxVersions  BY DEF StoreTypeOK
<1>2. S \in SUBSET (0 .. MaxVersions) /\ S # {}  BY <1>1, StoreAssumption
<1>3. LastNumber = Max(S)  BY DEF LastNumber
<1>4. \A v \in versions : v.number \in S  OBVIOUS
<1> HIDE DEF S
<1>5. Max(S) \in S /\ \A k \in S : Max(S) >= k  BY <1>2, StoreAssumption, LargestNumber
<1> QED  BY <1>1, <1>2, <1>3, <1>4, <1>5

\* As long as no two requests were in progress at once, one is at most.
OneAtATime == \A r, u \in FlowEdits : Editing(r) /\ Editing(u) => r = u

\* What a request that is about to write has read is in a version.
ReadsKept ==
  \A r \in FlowEdits : Editing(r) /\ edit[r].step = "write" /\ flow # NoFlow =>
    \E v \in versions : v.kept = Versioned(edit[r].row)

\* Before the flow is created nothing is about it.
Untouched == past = {} => flow = NoFlow /\ Quiet

\* A request that has changed the flow and has yet to tell the scheduler.
Telling(r) == Editing(r) /\ edit[r].step \in {"register", "unregister"}

JobsUpToDate == \A a \in Apis : cronJob[a] = JobFor(flow)

\* The jobs are those of the flow, but for the request that will make them so.
JobsSettled ==
  /\ \A r \in FlowEdits : Telling(r) =>
       /\ Apis = {edit[r].api}
       /\ flow = IF edit[r].step = "register" THEN edit[r].row ELSE NoFlow
  /\ (\A r \in FlowEdits : ~Telling(r)) => JobsUpToDate

StoreInv ==
  /\ StoreTypes /\ ReadsKept /\ Untouched /\ PastIsKept
  /\ ~overlap => OneAtATime
  /\ ~overlap /\ ~unheard => JobsSettled

LEMMA JobForIs ==
  /\ JobFor(NoFlow) = NoFlow
  /\ \A row \in Rows : JobFor(row) \in Cron \union {NoFlow}
BY DEF JobFor

LEMMA PatchedIs ==
  ASSUME NEW row \in Rows, NEW p \in AllPatches
  PROVE  Patched(row, p) \in Rows /\ Patched(row, p) # NoFlow
<1>1. Given(p.body, row.body) \in Bodies      BY DEF Rows, AllPatches, Given
<1>2. Given(p.note, row.note) \in Notes       BY DEF Rows, AllPatches, Given
<1>3. Given(p.enabled, row.enabled) \in BOOLEAN
  <2>1. row.enabled \in BOOLEAN /\ p.enabled \in BOOLEAN \union {Unset}
    BY DEF Rows, AllPatches
  <2> QED  BY <2>1, Zenon DEF Given
<1> HIDE DEF Given
<1>4. Patched(row, p) \in Rows                BY <1>1, <1>2, <1>3 DEF Patched, Rows
<1> QED  BY <1>4, StoreAssumption

LEMMA VersionedIs ==
  ASSUME NEW row \in Rows
  PROVE  Versioned(row) \in [body : Bodies, note : Notes]
BY DEF Versioned, Rows

LEMMA PatchOfIs ==
  ASSUME NEW v, v.kept \in [body : Bodies, note : Notes]
  PROVE  PatchOf(v) \in AllPatches
BY DEF PatchOf, AllPatches

LEMMA NoPatchIs == NoPatch \in AllPatches
BY DEF NoPatch, AllPatches

LEMMA StoreInvInit == StoreInit => StoreInv
BY JobForIs DEF StoreInit, StoreInv, StoreTypes, StoreTypeOK, OneAtATime, ReadsKept, Untouched, PastIsKept, JobsSettled,
   JobsUpToDate, Telling, Editing, Quiet

\* One request's record is replaced by another, or by none.
LEMMA EditIs ==
  ASSUME StoreTypes, NEW r \in FlowEdits, NEW e \in EditRecord \union {NoFlow}, edit' = [edit EXCEPT ![r] = e]
  PROVE  /\ edit' \in [FlowEdits -> EditRecord \union {NoFlow}]
         /\ edit'[r] = e
         /\ \A u \in FlowEdits \ {r} : edit'[u] = edit[u]
BY DEF StoreTypes, StoreTypeOK

\* A request in progress is a record, and moves on to another step.
LEMMA StepToIs ==
  ASSUME StoreTypes, NEW r \in FlowEdits, NEW s \in EditSteps, Editing(r), StepTo(r, s)
  PROVE  /\ edit[r] \in EditRecord
         /\ [edit[r] EXCEPT !.step = s] \in EditRecord
         /\ edit' = [edit EXCEPT ![r] = [edit[r] EXCEPT !.step = s]]
BY DEF StoreTypes, StoreTypeOK, Editing, StepTo, EditRecord

\* A request begins: without overlap it is the only one.
LEMMA BeginIs ==
  ASSUME StoreTypes, NEW r \in FlowEdits, NEW a \in Apis, NEW step \in EditSteps, NEW row \in Rows \union {NoFlow},
         NEW p \in AllPatches, Begin(r, a, step, row, p)
  PROVE  /\ edit' \in [FlowEdits -> EditRecord \union {NoFlow}]
         /\ ~Editing(r) /\ Editing(r)'
         /\ edit'[r].step = step /\ edit'[r].api = a /\ edit'[r].row = row
         /\ overlap' \in BOOLEAN
         /\ ~overlap' => ~overlap /\ Quiet
         /\ ~overlap' => \A u \in FlowEdits \ {r} : edit'[u] = NoFlow
         /\ \A u \in FlowEdits \ {r} : edit'[u] = edit[u]
<1> DEFINE e == [step |-> step, api |-> a, row |-> row, patch |-> p, number |-> 0]
<1>1. e \in EditRecord /\ e.step = step /\ e.api = a /\ e.row = row
  BY StoreAssumption DEF EditRecord
<1>2. edit' = [edit EXCEPT ![r] = e] /\ ~Editing(r) /\ overlap' = (overlap \/ ~Quiet)
  BY DEF Begin
<1> HIDE DEF e
<1>3. /\ edit' \in [FlowEdits -> EditRecord \union {NoFlow}] /\ edit'[r] = e
      /\ \A u \in FlowEdits \ {r} : edit'[u] = edit[u]
  BY <1>1, <1>2, EditIs
<1>4. overlap \in BOOLEAN /\ e # NoFlow
  BY <1>1, NoFlowAssumption DEF StoreTypes, StoreTypeOK
<1> QED  BY <1>1, <1>2, <1>3, <1>4 DEF Quiet, Editing

\* What every step of a request must establish: about itself, and the jobs as
\* it leaves them when it is the only one.
LEMMA OneSettles ==
  ASSUME StoreInv, StoreTypes', NEW r \in FlowEdits,
         \A u \in FlowEdits \ {r} : edit'[u] = edit[u],
         ~overlap' => \A u \in FlowEdits \ {r} : edit'[u] = NoFlow,
         versions \subseteq versions' \/ flow' = NoFlow,
         flow' # NoFlow => flow # NoFlow \/ \A u \in FlowEdits \ {r} : edit'[u] = NoFlow,
         Editing(r)' /\ edit'[r].step = "write" /\ flow' # NoFlow => \E v \in versions' : v.kept = Versioned(edit'[r].row),
         past' # {}, PastIsKept',
         ~overlap' /\ ~unheard' =>
           IF Telling(r)'
           THEN Apis = {edit'[r].api} /\ flow' = IF edit'[r].step = "register" THEN edit'[r].row ELSE NoFlow
           ELSE JobsUpToDate'
  PROVE  StoreInv'
<1>1. ~overlap' => OneAtATime'
  BY DEF OneAtATime, Editing
<1>2. ReadsKept'
  <2>1. SUFFICES ASSUME NEW u \in FlowEdits, Editing(u)', edit'[u].step = "write", flow' # NoFlow
                 PROVE  \E v \in versions' : v.kept = Versioned(edit'[u].row)
    BY DEF ReadsKept
  <2>2. CASE u = r
    BY <2>1, <2>2
  <2>3. CASE u # r
    <3>1. edit'[u] = edit[u] /\ Editing(u) /\ edit[u].step = "write"
      BY <2>1, <2>3 DEF Editing
    <3>2. flow # NoFlow /\ versions \subseteq versions'
      BY <2>1, <2>3, <3>1 DEF Editing
    <3>3. \E v \in versions : v.kept = Versioned(edit[u].row)
      BY <3>1, <3>2 DEF StoreInv, ReadsKept
    <3> QED  BY <3>1, <3>2, <3>3
  <2> QED  BY <2>2, <2>3
<1>3. ~overlap' /\ ~unheard' => \A u \in FlowEdits \ {r} : ~Telling(u)'
  BY DEF Telling, Editing
<1>4. ~overlap' /\ ~unheard' => JobsSettled'
  BY <1>3 DEF JobsSettled
<1>5. Untouched'
  BY DEF Untouched
<1> QED  BY <1>1, <1>2, <1>4, <1>5 DEF StoreInv

LEMMA StoreInvStep ==
  ASSUME StoreInv, [StoreNext]_storeVars
  PROVE  StoreInv'
<1> USE DEF StoreInv
<1>t. StoreTypeOK  BY DEF StoreTypes
<1>p. flow # NoFlow \/ (\E u \in FlowEdits : Editing(u)) => past # {}
  BY DEF Untouched, Quiet
<1>a. ASSUME NEW r \in FlowEdits, Editing(r)
      PROVE  /\ edit[r] \in EditRecord /\ past # {}
             /\ ~overlap => \A u \in FlowEdits \ {r} : edit[u] = NoFlow
             /\ ~overlap /\ ~unheard /\ ~Telling(r) => JobsUpToDate
  <2>1. edit[r] \in EditRecord /\ past # {}  BY <1>a, <1>p, <1>t DEF StoreTypeOK, Editing
  <2>2. ~overlap => \A u \in FlowEdits \ {r} : edit[u] = NoFlow
    BY <1>a DEF OneAtATime, Editing
  <2>3. ~overlap /\ ~unheard /\ ~Telling(r) => JobsUpToDate
    BY <2>2 DEF JobsSettled, Telling, Editing
  <2> QED  BY <2>1, <2>2, <2>3
<1>e. ASSUME NEW r \in FlowEdits, Editing(r), End(r)
      PROVE  /\ edit' \in [FlowEdits -> EditRecord \union {NoFlow}]
             /\ ~Editing(r)' /\ ~Telling(r)'
             /\ \A u \in FlowEdits \ {r} : edit'[u] = edit[u]
  BY <1>e, EditIs DEF End, Editing, Telling
<1>s. ASSUME NEW r \in FlowEdits, NEW s \in EditSteps, Editing(r), StepTo(r, s)
      PROVE  /\ edit' \in [FlowEdits -> EditRecord \union {NoFlow}]
             /\ edit'[r] \in EditRecord /\ Editing(r)'
             /\ edit'[r].step = s /\ edit'[r].row = edit[r].row
             /\ edit'[r].api = edit[r].api
             /\ \A u \in FlowEdits \ {r} : edit'[u] = edit[u]
  <2>1. /\ edit[r] \in EditRecord
        /\ [edit[r] EXCEPT !.step = s] \in EditRecord
        /\ edit' = [edit EXCEPT ![r] = [edit[r] EXCEPT !.step = s]]
    BY <1>s, StepToIs
  <2>2. /\ edit' \in [FlowEdits -> EditRecord \union {NoFlow}]
        /\ edit'[r] = [edit[r] EXCEPT !.step = s]
        /\ \A u \in FlowEdits \ {r} : edit'[u] = edit[u]
    BY <2>1, EditIs
  <2>3. Editing(r)'  BY <2>1, <2>2, NoFlowAssumption DEF Editing
  <2> QED  BY <2>1, <2>2, <2>3 DEF EditRecord
<1>1. ASSUME NEW r \in FlowEdits, NEW a \in Apis, NEW row \in Rows, CreateFlow(r, a, row)
      PROVE  StoreInv'
  <2>1. /\ flow = NoFlow /\ past = {} /\ flow' = row /\ past' = {Versioned(row)}
        /\ unheard' = (unheard \/ Apis # {a}) /\ UNCHANGED <<versions, cronJob, unread>>
        /\ Begin(r, a, "register", row, NoPatch)
    BY <1>1 DEF CreateFlow
  <2>2. /\ edit' \in [FlowEdits -> EditRecord \union {NoFlow}] /\ Editing(r)'
        /\ edit'[r].step = "register" /\ edit'[r].api = a /\ edit'[r].row = row
        /\ overlap' \in BOOLEAN
        /\ \A u \in FlowEdits \ {r} : edit'[u] = edit[u]
    BY <2>1, NoPatchIs, BeginIs DEF EditSteps
  <2>3. \A u \in FlowEdits \ {r} : edit'[u] = NoFlow
    BY <2>1, <2>2 DEF Untouched, Quiet, Editing
  <2>4. StoreTypeOK'  BY <1>t, <2>1, <2>2, VersionedIs DEF StoreTypeOK
  <2>5. StoreTypes'  BY <2>2, <2>3, <2>4 DEF StoreTypes, Editing
  <2>6. PastIsKept'  BY <2>1 DEF PastIsKept
  <2>7. Telling(r)'  BY <2>2 DEF Telling
  <2> QED  BY <2>1, <2>2, <2>3, <2>5, <2>6, <2>7, OneSettles
<1>2. ASSUME NEW r \in FlowEdits, NEW a \in Apis, NEW step \in {"last", "delete"}, NEW row \in Rows \union {NoFlow},
             NEW p \in AllPatches, Begin(r, a, step, row, p), step = "last" => row \in Rows, flow # NoFlow,
             UNCHANGED <<flow, versions, cronJob, past, unread, unheard>>
      PROVE  StoreInv'
  <2>1. /\ edit' \in [FlowEdits -> EditRecord \union {NoFlow}]
        /\ edit'[r].step = step /\ edit'[r].row = row
        /\ overlap' \in BOOLEAN
        /\ ~overlap' => ~overlap /\ Quiet
        /\ ~overlap' => \A u \in FlowEdits \ {r} : edit'[u] = NoFlow
        /\ \A u \in FlowEdits \ {r} : edit'[u] = edit[u]
    BY <1>2, BeginIs DEF EditSteps
  <2>2. StoreTypeOK'  BY <1>t, <1>2, <2>1 DEF StoreTypeOK
  <2>3. StoreTypes'  BY <1>2, <2>1, <2>2 DEF StoreTypes, Editing
  <2>4. PastIsKept' /\ past' # {}  BY <1>2, <1>p DEF PastIsKept
  <2>5. ~overlap' /\ ~unheard' => JobsUpToDate'
    BY <1>2, <2>1 DEF JobsSettled, JobsUpToDate, Telling, Quiet
  <2>6. ~Telling(r)' /\ edit'[r].step # "write"  BY <1>2, <2>1 DEF Telling
  <2> QED  BY <1>2, <2>1, <2>3, <2>4, <2>5, <2>6, OneSettles
<1>3. ASSUME NEW r \in FlowEdits, NEW a \in Apis, BeginRemove(r, a)
      PROVE  StoreInv'
  BY <1>2, <1>3, NoPatchIs DEF BeginRemove
<1>4. ASSUME NEW r \in FlowEdits, NEW a \in Apis, Update(r, a) \/ Restore(r, a)
      PROVE  StoreInv'
  <2>1. PICK p \in AllPatches : BeginEdit(r, a, p)
    <3>1. CASE Update(r, a)
      BY <3>1, StoreAssumption DEF Update
    <3>2. CASE Restore(r, a)
      <4>1. PICK v \in versions : BeginEdit(r, a, PatchOf(v))
        BY <3>2 DEF Restore
      <4>2. v.kept \in [body : Bodies, note : Notes]
        BY <1>t DEF StoreTypeOK
      <4> QED  BY <4>1, <4>2, PatchOfIs
    <3> QED  BY <1>4, <3>1, <3>2
  <2>2. flow \in Rows /\ flow # NoFlow  BY <2>1, <1>t DEF BeginEdit, StoreTypeOK
  <2> QED  BY <1>2, <2>1, <2>2 DEF BeginEdit
<1>5. ASSUME NEW r \in FlowEdits, FindLast(r)
      PROVE  StoreInv'
  <2> DEFINE e == [edit[r] EXCEPT !.step = "insert", !.number = LastNumber + 1]
  <2>1. Editing(r) /\ edit[r].step = "last" /\ LastNumber < MaxVersions
        /\ UNCHANGED <<flow, versions, cronJob, past, overlap, unread, unheard>>
    BY <1>5 DEF FindLast
  <2>2. edit[r] \in EditRecord /\ past # {}  BY <2>1, <1>a
  <2>3. edit' = [edit EXCEPT ![r] = e]  BY <1>5, <1>t, <2>1, <2>2 DEF FindLast, StoreTypeOK, EditRecord
  <2>4. LastNumber + 1 \in 1 .. MaxVersions /\ LastNumber + 1 \in 0 .. MaxVersions
    BY <2>1, <1>t, LastNumberIs, StoreAssumption
  <2>5. e \in EditRecord  BY <2>2, <2>4 DEF EditRecord, EditSteps
  <2>6. e.step = "insert" /\ e.row = edit[r].row /\ e.number = LastNumber + 1
    BY <2>2 DEF EditRecord
  <2> HIDE DEF e
  <2>7. /\ edit' \in [FlowEdits -> EditRecord \union {NoFlow}] /\ edit'[r] = e
        /\ \A u \in FlowEdits \ {r} : edit'[u] = edit[u]
    BY <2>3, <2>5, EditIs
  <2>8. StoreTypeOK'  BY <1>t, <2>1, <2>7 DEF StoreTypeOK
  <2>9. edit[r].row \in Rows  BY <2>1 DEF StoreTypes
  <2>10. StoreTypes'  BY <2>4, <2>6, <2>7, <2>8, <2>9 DEF StoreTypes, Editing
  <2>11. PastIsKept'  BY <2>1 DEF PastIsKept
  <2>12. ~overlap' /\ ~unheard' => JobsUpToDate'
    BY <2>1, <1>a DEF JobsUpToDate, Telling
  <2>13. ~Telling(r)' /\ edit'[r].step # "write"  BY <2>6, <2>7 DEF Telling
  <2>14. ~overlap' => \A u \in FlowEdits \ {r} : edit'[u] = NoFlow  BY <1>a, <2>1, <2>7
  <2> QED  BY <2>1, <2>2, <2>7, <2>10, <2>11, <2>12, <2>13, <2>14, OneSettles
<1>6. ASSUME NEW r \in FlowEdits, Editing(r), End(r), UNCHANGED <<flow, versions, past, overlap, unread, unheard>>,
             cronJob' \in [Apis -> Cron \union {NoFlow}],
             ~overlap /\ ~unheard => JobsUpToDate'
      PROVE  StoreInv'
  <2>1. /\ edit' \in [FlowEdits -> EditRecord \union {NoFlow}]
        /\ ~Editing(r)' /\ ~Telling(r)'
        /\ \A u \in FlowEdits \ {r} : edit'[u] = edit[u]
    BY <1>6, <1>e
  <2>2. StoreTypeOK'  BY <1>t, <1>6, <2>1 DEF StoreTypeOK
  <2>3. StoreTypes'  BY <1>6, <2>1, <2>2 DEF StoreTypes, Editing
  <2>4. PastIsKept' /\ past' # {}  BY <1>6, <1>a DEF PastIsKept
  <2>5. ~overlap' => \A u \in FlowEdits \ {r} : edit'[u] = NoFlow  BY <1>6, <1>a, <2>1
  <2> QED  BY <1>6, <2>1, <2>3, <2>4, <2>5, OneSettles
<1>7. ASSUME NEW r \in FlowEdits, InsertVersion(r)
      PROVE  StoreInv'
  <2>1. /\ Editing(r) /\ edit[r].step = "insert"
        /\ UNCHANGED <<flow, cronJob, past, overlap, unread, unheard>>
    BY <1>7 DEF InsertVersion
  <2>2. ~overlap /\ ~unheard => JobsUpToDate  BY <2>1, <1>a DEF Telling
  <2>3. CASE flow = NoFlow \/ \E v \in versions : v.number = edit[r].number
    <3>1. End(r) /\ UNCHANGED versions  BY <1>7, <2>3 DEF InsertVersion
    <3>2. ~overlap /\ ~unheard => JobsUpToDate'  BY <2>1, <2>2 DEF JobsUpToDate
    <3> QED  BY <2>1, <3>1, <3>2, <1>6, <1>t DEF StoreTypeOK
  <2>4. CASE ~(flow = NoFlow \/ \E v \in versions : v.number = edit[r].number)
    <3> DEFINE w == [number |-> edit[r].number, kept |-> Versioned(edit[r].row)]
    <3>1. versions' = versions \union {w} /\ StepTo(r, "write")  BY <1>7, <2>4 DEF InsertVersion
    <3>2. /\ edit' \in [FlowEdits -> EditRecord \union {NoFlow}]
          /\ edit'[r] \in EditRecord /\ Editing(r)'
          /\ edit'[r].step = "write" /\ edit'[r].row = edit[r].row
          /\ \A u \in FlowEdits \ {r} : edit'[u] = edit[u]
      BY <2>1, <3>1, <1>s DEF EditSteps
    <3>3. edit[r].row \in Rows /\ edit[r].number \in 1 .. MaxVersions
      BY <2>1 DEF StoreTypes
    <3>4. /\ w \in [number : 1 .. MaxVersions, kept : [body : Bodies, note : Notes]]
          /\ w.kept = Versioned(edit[r].row)
      BY <3>3, VersionedIs
    <3> HIDE DEF w
    <3>5. StoreTypeOK'  BY <1>t, <2>1, <3>1, <3>2, <3>4 DEF StoreTypeOK
    <3>6. StoreTypes'  BY <3>2, <3>3, <3>5 DEF StoreTypes, Editing
    <3>7. PastIsKept' /\ past' # {}  BY <2>1, <3>1, <1>a DEF PastIsKept
    <3>8. \E v \in versions' : v.kept = Versioned(edit'[r].row)
      BY <3>1, <3>2, <3>4
    <3>9. ~overlap' /\ ~unheard' => JobsUpToDate'  BY <2>1, <2>2 DEF JobsUpToDate
    <3>10. ~Telling(r)'  BY <3>2 DEF Telling
    <3>11. ~overlap' => \A u \in FlowEdits \ {r} : edit'[u] = NoFlow  BY <2>1, <3>2, <1>a
    <3> QED  BY <2>1, <3>1, <3>2, <3>6, <3>7, <3>8, <3>9, <3>10, <3>11, OneSettles
  <2> QED  BY <2>3, <2>4
<1>8. ASSUME NEW r \in FlowEdits, WriteFlow(r)
      PROVE  StoreInv'
  <2>1. /\ Editing(r) /\ edit[r].step = "write"
        /\ UNCHANGED <<versions, cronJob, overlap>>
    BY <1>8 DEF WriteFlow
  <2>2. ~overlap /\ ~unheard => JobsUpToDate  BY <2>1, <1>a DEF Telling
  <2>3. CASE flow = NoFlow
    <3>1. End(r) /\ UNCHANGED <<flow, past, unread, unheard>>  BY <1>8, <2>3 DEF WriteFlow
    <3>2. ~overlap /\ ~unheard => JobsUpToDate'  BY <2>1, <2>2, <3>1 DEF JobsUpToDate
    <3> QED  BY <2>1, <3>1, <3>2, <1>6, <1>t DEF StoreTypeOK
  <2>4. CASE flow # NoFlow
    <3> DEFINE row == Patched(flow, edit[r].patch)
               e == [edit[r] EXCEPT !.step = "register", !.row = row]
    <3>1. /\ flow' = row /\ past' = past \union {Versioned(row)}
          /\ unread' = (unread \/ Versioned(flow) # Versioned(edit[r].row))
          /\ unheard' = (unheard \/ Apis # {edit[r].api})
          /\ edit' = [edit EXCEPT ![r].step = "register", ![r].row = row]
      BY <1>8, <2>4 DEF WriteFlow
    <3>2. edit[r] \in EditRecord /\ edit[r].patch \in AllPatches /\ flow \in Rows
      BY <2>1, <2>4, <1>a, <1>t DEF EditRecord, StoreTypeOK
    <3>3. row \in Rows /\ row # NoFlow
      BY <3>2, PatchedIs
    <3> HIDE DEF row
    <3>4. e \in EditRecord /\ e.step = "register" /\ e.row = row /\ e.api = edit[r].api
      BY <3>2, <3>3 DEF EditRecord, EditSteps
    <3>5. edit' = [edit EXCEPT ![r] = e]
      BY <3>1, <3>2, <1>t DEF StoreTypeOK, EditRecord
    <3> HIDE DEF e
    <3>6. /\ edit' \in [FlowEdits -> EditRecord \union {NoFlow}] /\ edit'[r] = e /\ Editing(r)'
          /\ \A u \in FlowEdits \ {r} : edit'[u] = edit[u]
      BY <3>4, <3>5, EditIs, NoFlowAssumption DEF Editing
    <3>7. StoreTypeOK'
      <4>1. Versioned(row) \in [body : Bodies, note : Notes]  BY <3>3, VersionedIs
      <4>2. unread' \in BOOLEAN /\ unheard' \in BOOLEAN  BY <3>1
      <4>3. past' \subseteq [body : Bodies, note : Notes]  BY <1>t, <3>1, <4>1 DEF StoreTypeOK
      <4> QED  BY <1>t, <2>1, <3>1, <3>3, <3>6, <4>2, <4>3 DEF StoreTypeOK
    <3>8. StoreTypes'  BY <3>3, <3>4, <3>6, <3>7 DEF StoreTypes, Editing
    <3>9. PastIsKept'
      <4>1. SUFFICES ASSUME ~unread'
                     PROVE  past' \subseteq {Versioned(flow')} \union {v.kept : v \in versions'}
        BY DEF PastIsKept
      <4>2. ~unread /\ Versioned(flow) = Versioned(edit[r].row)
        BY <1>t, <3>1, <4>1 DEF StoreTypeOK
      <4>3. \E v \in versions : v.kept = Versioned(flow)
        BY <2>1, <2>4, <4>2 DEF ReadsKept
      <4>4. past \subseteq {Versioned(flow)} \union {v.kept : v \in versions}
        BY <2>4, <4>2 DEF PastIsKept
      <4> HIDE DEF StoreInv
      <4> QED  BY <2>1, <3>1, <4>3, <4>4
    <3>10. Telling(r)'  BY <3>4, <3>6 DEF Telling
    <3>11. ~overlap' => \A u \in FlowEdits \ {r} : edit'[u] = NoFlow  BY <2>1, <3>6, <1>a
    <3>12. past' # {}  BY <3>1
    <3>13. edit'[r].step = "register" /\ flow' = edit'[r].row /\ versions \subseteq versions'
      BY <2>1, <3>1, <3>4, <3>6
    <3>14. ~unheard' => Apis = {edit'[r].api}
      BY <3>1, <3>4, <3>6, <1>t DEF StoreTypeOK
    <3> QED  BY <2>4, <3>6, <3>8, <3>9, <3>10, <3>11, <3>12, <3>13, <3>14, OneSettles
  <2> QED  BY <2>3, <2>4
<1>9. ASSUME NEW r \in FlowEdits, DeleteFlow(r)
      PROVE  StoreInv'
  <2>1. Editing(r) /\ edit[r].step = "delete" /\ UNCHANGED <<cronJob, past, overlap, unread>>
    BY <1>9 DEF DeleteFlow
  <2>2. ~overlap /\ ~unheard => JobsUpToDate  BY <2>1, <1>a DEF Telling
  <2>3. CASE flow = NoFlow
    <3>1. End(r) /\ UNCHANGED <<flow, versions, unheard>>  BY <1>9, <2>3 DEF DeleteFlow
    <3>2. ~overlap /\ ~unheard => JobsUpToDate'  BY <2>1, <2>2, <3>1 DEF JobsUpToDate
    <3> QED  BY <2>1, <3>1, <3>2, <1>6, <1>t DEF StoreTypeOK
  <2>4. CASE flow # NoFlow
    <3>1. /\ flow' = NoFlow /\ versions' = {}
          /\ unheard' = (unheard \/ Apis # {edit[r].api}) /\ StepTo(r, "unregister")
      BY <1>9, <2>4 DEF DeleteFlow
    <3>2. /\ edit' \in [FlowEdits -> EditRecord \union {NoFlow}]
          /\ edit'[r] \in EditRecord /\ Editing(r)'
          /\ edit'[r].step = "unregister" /\ edit'[r].api = edit[r].api
          /\ \A u \in FlowEdits \ {r} : edit'[u] = edit[u]
      BY <2>1, <3>1, <1>s DEF EditSteps
    <3>3. StoreTypeOK'  BY <1>t, <2>1, <3>1, <3>2 DEF StoreTypeOK
    <3>4. StoreTypes'  BY <3>2, <3>3 DEF StoreTypes, Editing
    <3>5. PastIsKept' /\ past' # {}  BY <2>1, <3>1, <1>a DEF PastIsKept
    <3>6. Telling(r)'  BY <3>2 DEF Telling
    <3>7. ~overlap' => \A u \in FlowEdits \ {r} : edit'[u] = NoFlow  BY <2>1, <3>2, <1>a
    <3> QED  BY <3>1, <3>2, <3>4, <3>5, <3>6, <3>7, OneSettles
  <2> QED  BY <2>3, <2>4
<1>10. ASSUME NEW r \in FlowEdits, Register(r) \/ Unregister(r)
       PROVE  StoreInv'
  <2>1. Editing(r) /\ End(r) /\ UNCHANGED <<flow, versions, past, overlap, unread, unheard>>
    BY <1>10 DEF Register, Unregister
  <2>2. \/ cronJob' = [cronJob EXCEPT ![edit[r].api] = JobFor(edit[r].row)] /\ edit[r].step = "register"
        \/ cronJob' = [cronJob EXCEPT ![edit[r].api] = NoFlow] /\ edit[r].step = "unregister"
    BY <1>10 DEF Register, Unregister
  <2>3. cronJob' \in [Apis -> Cron \union {NoFlow}]
    <3>1. edit[r].step = "register" => JobFor(edit[r].row) \in Cron \union {NoFlow}
      BY <2>1, JobForIs DEF StoreTypes
    <3> QED  BY <1>t, <2>2, <3>1 DEF StoreTypeOK
  <2>4. Telling(r)  BY <2>1, <2>2 DEF Telling
  <2>5. ASSUME ~overlap, ~unheard
        PROVE  JobsUpToDate'
    <3>1. Apis = {edit[r].api} /\ flow = IF edit[r].step = "register" THEN edit[r].row ELSE NoFlow
      BY <2>4, <2>5 DEF JobsSettled
    <3>2. cronJob'[edit[r].api] = JobFor(flow)
      BY <2>2, <3>1, <1>t, JobForIs DEF StoreTypeOK
    <3> QED  BY <2>1, <3>1, <3>2 DEF JobsUpToDate
  <2> QED  BY <2>1, <2>3, <2>5, <1>6
<1>11. ASSUME NEW a \in Apis, Reboot(a)
       PROVE  StoreInv'
  <2>1. /\ cronJob' = [cronJob EXCEPT ![a] = JobFor(flow)]
        /\ edit' = [r \in FlowEdits |-> IF Editing(r) /\ edit[r].api = a THEN NoFlow ELSE edit[r]]
        /\ UNCHANGED <<flow, versions, past, overlap, unread, unheard>>
    BY <1>11 DEF Reboot
  <2>2. cronJob' \in [Apis -> Cron \union {NoFlow}]
    <3>1. JobFor(flow) \in Cron \union {NoFlow}  BY <1>t, JobForIs DEF StoreTypeOK
    <3> QED  BY <1>t, <2>1, <3>1 DEF StoreTypeOK
  <2>3. \A r \in FlowEdits : edit'[r] \in {NoFlow, edit[r]} /\ (Editing(r)' => Editing(r) /\ edit'[r] = edit[r])
    BY <2>1 DEF Editing
  <2>4. edit' \in [FlowEdits -> EditRecord \union {NoFlow}]  BY <1>t, <2>1 DEF StoreTypeOK
  <2>5. StoreTypeOK'  BY <1>t, <2>1, <2>2, <2>4 DEF StoreTypeOK
  <2>6. StoreTypes'  BY <2>3, <2>5 DEF StoreTypes
  <2>7. ReadsKept' /\ PastIsKept' /\ (~overlap' => OneAtATime')
    BY <2>1, <2>3 DEF OneAtATime, ReadsKept, PastIsKept
  <2>9. Untouched'  BY <2>1, <2>3 DEF Untouched, Quiet
  <2>8. ASSUME ~overlap', ~unheard'
        PROVE  JobsSettled'
    <3>1. \A r \in FlowEdits : Telling(r)' => Telling(r) /\ edit'[r] = edit[r]  BY <2>3 DEF Telling
    <3>2. cronJob'[a] = JobFor(flow) /\ \A b \in Apis \ {a} : cronJob'[b] = cronJob[b]
      BY <1>t, <2>1 DEF StoreTypeOK
    <3>3. CASE \A r \in FlowEdits : ~Telling(r)
      BY <2>1, <2>8, <3>1, <3>2, <3>3 DEF JobsSettled, JobsUpToDate
    <3>4. CASE \E r \in FlowEdits : Telling(r)
      <4>1. PICK r \in FlowEdits : Telling(r)  BY <3>4
      <4>2. Apis = {a}  BY <2>1, <2>8, <4>1 DEF JobsSettled
      <4>3. JobsUpToDate'  BY <2>1, <3>2, <4>2 DEF JobsUpToDate
      <4> QED  BY <2>1, <2>8, <3>1, <4>3 DEF JobsSettled
    <3> QED  BY <3>3, <3>4
  <2> QED  BY <2>6, <2>7, <2>8, <2>9
<1>12. CASE UNCHANGED storeVars
  BY <1>12 DEF storeVars, StoreTypes, StoreTypeOK, OneAtATime, ReadsKept, Untouched, PastIsKept, JobsSettled,
     JobsUpToDate, Telling, Editing, Quiet
<1> QED
  BY <1>1, <1>3, <1>4, <1>5, <1>7, <1>8, <1>9, <1>10, <1>11, <1>12 DEF StoreNext, EditStep

LEMMA StoreInvariant == StoreSpec => []StoreInv
BY StoreInvInit, StoreInvStep, PTL DEF StoreSpec

\* Of name, definition, trigger and description no state the flow has had is
\* lost: each is the present one or a version, however requests overlap,
\* whichever of them fail or are cut off by a restart, as long as none wrote
\* over a state it had not read.
THEOREM PastIsInVersions == StoreSpec => []PastIsKept
<1>1. StoreInv => PastIsKept  BY DEF StoreInv
<1> QED  BY <1>1, StoreInvariant, PTL

\* Between the requests of a single API instance that never overlap, its cron
\* job is that of the flow as it is stored, also after restarts that cut one off.
THEOREM JobsAreTheStored == StoreSpec => []JobsFollowFlow
<1>1. StoreInv => JobsFollowFlow
  BY DEF StoreInv, JobsSettled, JobsUpToDate, JobsFollowFlow, Quiet, Telling
<1> QED  BY <1>1, StoreInvariant, PTL

-----------------------------------------------------------------------------
(* The event bus *)

\* A stream is in the set it thinks it is in, and in no other.
InItsSet ==
  \A s \in Streams, b \in ListenerSets \union {Global} :
    s \in listeners[b] <=> stream[s].open /\ stream[s].set = b

\* An open stream is in the set its run has now, or in the global one.
InRunsSet ==
  \A s \in Streams : stream[s].open =>
    IF stream[s].key = All THEN stream[s].set = Global
    ELSE stream[s].key \in DOMAIN byRun /\ stream[s].set = byRun[stream[s].key]

\* No two runs share a set.
SetsDiffer == \A r, x \in DOMAIN byRun : byRun[r] = byRun[x] => r = x

BusTypes == BusTypeOK /\ byRun = [r \in DOMAIN byRun |-> byRun[r]]

BusInv == BusTypes /\ InItsSet /\ InRunsSet /\ SetsDiffer /\ HeardByOpen

LEMMA BusInvInit == BusInit => BusInv
<1> SUFFICES ASSUME BusInit PROVE BusInv
  OBVIOUS
<1>1. DOMAIN byRun = {} /\ byRun = [r \in DOMAIN byRun |-> byRun[r]]  BY DEF BusInit
<1>2. \A s \in Streams : stream[s] = Closed /\ ~stream[s].open  BY DEF BusInit, Closed
<1>3. BusTypes  BY <1>1 DEF BusInit, BusTypes, BusTypeOK, Closed, Global
<1> QED  BY <1>1, <1>2, <1>3 DEF BusInit, BusInv, InItsSet, InRunsSet, SetsDiffer, HeardByOpen

\* A stream joins a set.
LEMMA JoinIs ==
  ASSUME BusTypes, InItsSet, NEW s \in Streams, ~stream[s].open, NEW k \in WatchedRuns \union {All},
         NEW b \in ListenerSets \union {Global}, Join(s, k, b)
  PROVE  /\ listeners' \in [ListenerSets \union {Global} -> SUBSET Streams]
         /\ stream' \in [Streams -> [key : WatchedRuns \union {All}, set : ListenerSets \union {Global},
                                     open : BOOLEAN]]
         /\ redis' \in {"none", "pending", "done"} /\ heard' = heard
         /\ stream'[s] = [key |-> k, set |-> b, open |-> TRUE]
         /\ \A u \in Streams \ {s} : stream'[u] = stream[u]
         /\ InItsSet'
<1>1. /\ listeners' = [listeners EXCEPT ![b] = @ \union {s}]
      /\ stream' = [stream EXCEPT ![s] = [key |-> k, set |-> b, open |-> TRUE]]
      /\ redis' \in {"none", "pending", "done"} /\ heard' = heard
  BY DEF Join, Ensured, BusTypes, BusTypeOK
<1>2. /\ listeners' \in [ListenerSets \union {Global} -> SUBSET Streams]
      /\ listeners'[b] = listeners[b] \union {s}
      /\ \A c \in (ListenerSets \union {Global}) \ {b} : listeners'[c] = listeners[c]
  BY <1>1 DEF BusTypes, BusTypeOK
<1>3. /\ stream' \in [Streams -> [key : WatchedRuns \union {All}, set : ListenerSets \union {Global},
                                  open : BOOLEAN]]
      /\ stream'[s] = [key |-> k, set |-> b, open |-> TRUE]
      /\ \A u \in Streams \ {s} : stream'[u] = stream[u]
  BY <1>1 DEF BusTypes, BusTypeOK
<1>4. InItsSet'  BY <1>2, <1>3 DEF InItsSet
<1> QED  BY <1>1, <1>2, <1>3, <1>4

LEMMA BusInvStep ==
  ASSUME BusInv, [BusNext]_busVars
  PROVE  BusInv'
<1> USE DEF BusInv
<1>t. BusTypeOK  BY DEF BusTypes
<1>1. ASSUME NEW s \in Streams, NEW r \in WatchedRuns, OpenStream(s, r)
      PROVE  BusInv'
  <2>0. ~stream[s].open /\ r # All  BY <1>1, BusAssumption DEF OpenStream
  <2>1. PICK b \in ListenerSets :
          /\ Join(s, r, b)
          /\ \/ r \in DOMAIN byRun /\ b = byRun[r] /\ byRun' = byRun
             \/ /\ r \notin DOMAIN byRun /\ b \in FreshSets
                /\ byRun' = [x \in DOMAIN byRun \union {r} |-> IF x = r THEN b ELSE byRun[x]]
    <3>1. CASE r \in DOMAIN byRun
      BY <1>1, <1>t, <3>1 DEF OpenStream, BusTypeOK
    <3>2. CASE r \notin DOMAIN byRun
      <4> DEFINE b == CHOOSE b \in FreshSets : TRUE
      <4>1. FreshSets # {} /\ Join(s, r, b)
            /\ byRun' = [x \in DOMAIN byRun \union {r} |-> IF x = r THEN b ELSE byRun[x]]
        BY <1>1, <3>2 DEF OpenStream
      <4>2. b \in FreshSets  BY <4>1
      <4>3. b \in ListenerSets  BY <4>2 DEF FreshSets
      <4> HIDE DEF b
      <4> QED  BY <3>2, <4>1, <4>2, <4>3
    <3> QED  BY <3>1, <3>2
  <2>2. /\ listeners' \in [ListenerSets \union {Global} -> SUBSET Streams]
        /\ stream' \in [Streams -> [key : WatchedRuns \union {All}, set : ListenerSets \union {Global},
                                    open : BOOLEAN]]
        /\ redis' \in {"none", "pending", "done"} /\ heard' = heard
        /\ stream'[s] = [key |-> r, set |-> b, open |-> TRUE]
        /\ \A u \in Streams \ {s} : stream'[u] = stream[u]
        /\ InItsSet'
    BY <2>0, <2>1, JoinIs
  <2>3. /\ DOMAIN byRun' = DOMAIN byRun \union {r} /\ byRun'[r] = b
        /\ \A x \in DOMAIN byRun : byRun'[x] = byRun[x]
        /\ byRun' = [x \in DOMAIN byRun' |-> byRun'[x]]
    BY <2>1 DEF BusTypes
  <2>4. BusTypes'  BY <1>t, <2>2, <2>3 DEF BusTypes, BusTypeOK
  <2>5. InRunsSet'  BY <2>0, <2>2, <2>3 DEF InRunsSet
  <2>6. SetsDiffer'
    <3>1. CASE r \in DOMAIN byRun  BY <2>3, <3>1 DEF SetsDiffer
    <3>2. CASE r \notin DOMAIN byRun
      <4>1. \A x \in DOMAIN byRun : byRun[x] # b  BY <2>1, <3>2 DEF FreshSets
      <4> QED  BY <2>3, <4>1 DEF SetsDiffer
    <3> QED  BY <3>1, <3>2
  <2>7. HeardByOpen'  BY <2>2 DEF HeardByOpen
  <2> QED  BY <2>2, <2>4, <2>5, <2>6, <2>7
<1>2. ASSUME NEW s \in Streams, OpenAll(s)
      PROVE  BusInv'
  <2>1. ~stream[s].open /\ Join(s, All, Global) /\ byRun' = byRun  BY <1>2 DEF OpenAll
  <2>2. /\ listeners' \in [ListenerSets \union {Global} -> SUBSET Streams]
        /\ stream' \in [Streams -> [key : WatchedRuns \union {All}, set : ListenerSets \union {Global},
                                    open : BOOLEAN]]
        /\ redis' \in {"none", "pending", "done"} /\ heard' = heard
        /\ stream'[s] = [key |-> All, set |-> Global, open |-> TRUE]
        /\ \A u \in Streams \ {s} : stream'[u] = stream[u]
        /\ InItsSet'
    BY <2>1, JoinIs
  <2>3. BusTypes'  BY <1>t, <2>1, <2>2 DEF BusTypes, BusTypeOK
  <2>4. InRunsSet'  BY <2>1, <2>2 DEF InRunsSet
  <2> QED  BY <2>1, <2>2, <2>3, <2>4 DEF SetsDiffer, HeardByOpen
<1>3. ASSUME NEW s \in Streams, CloseStream(s)
      PROVE  BusInv'
  <2> DEFINE b == stream[s].set  k == stream[s].key
  <2>1. /\ stream[s].open /\ listeners' = [listeners EXCEPT ![b] = @ \ {s}]
        /\ byRun' = IF k # All /\ listeners[b] = {s} THEN Restrict(byRun, DOMAIN byRun \ {k}) ELSE byRun
        /\ stream' = [stream EXCEPT ![s] = Closed] /\ redis' = redis /\ heard' = heard
    BY <1>3 DEF CloseStream
  <2>2. b \in ListenerSets \union {Global} /\ k \in WatchedRuns \union {All}  BY <1>t DEF BusTypeOK
  <2> HIDE DEF b, k
  <2>3. /\ listeners' \in [ListenerSets \union {Global} -> SUBSET Streams]
        /\ listeners'[b] = listeners[b] \ {s}
        /\ \A c \in (ListenerSets \union {Global}) \ {b} : listeners'[c] = listeners[c]
    BY <1>t, <2>1, <2>2 DEF BusTypeOK
  <2>4. /\ stream' \in [Streams -> [key : WatchedRuns \union {All}, set : ListenerSets \union {Global},
                                    open : BOOLEAN]]
        /\ ~stream'[s].open
        /\ \A u \in Streams \ {s} : stream'[u] = stream[u]
    BY <1>t, <2>1 DEF BusTypeOK, Closed, Global
  <2>5. InItsSet'  BY <2>2, <2>3, <2>4 DEF InItsSet, b
  <2>6. /\ DOMAIN byRun' \subseteq DOMAIN byRun
        /\ \A x \in DOMAIN byRun' : byRun'[x] = byRun[x]
        /\ byRun' = [x \in DOMAIN byRun' |-> byRun'[x]]
    <3>1. CASE k # All /\ listeners[b] = {s}  BY <2>1, <3>1 DEF Restrict
    <3>2. CASE ~(k # All /\ listeners[b] = {s})  BY <2>1, <3>2 DEF BusTypes
    <3> QED  BY <3>1, <3>2
  <2>7. BusTypes'  BY <1>t, <2>1, <2>3, <2>4, <2>6 DEF BusTypes, BusTypeOK
  <2>8. ASSUME NEW u \in Streams \ {s}, stream[u].open, stream[u].key # All
        PROVE  stream[u].key \in DOMAIN byRun'
    <3>1. stream[u].key \in DOMAIN byRun /\ stream[u].set = byRun[stream[u].key]  BY <2>8 DEF InRunsSet
    <3>2. CASE k # All /\ listeners[b] = {s}
      <4>1. b = byRun[k]  BY <2>1, <3>2 DEF InRunsSet, b, k
      <4>2. stream[u].key # k  BY <2>2, <2>8, <3>1, <3>2, <4>1 DEF InItsSet
      <4> QED  BY <2>1, <3>1, <3>2, <4>2 DEF Restrict
    <3>3. CASE ~(k # All /\ listeners[b] = {s})  BY <2>1, <3>1, <3>3
    <3> QED  BY <3>2, <3>3
  <2>9. InRunsSet'  BY <2>4, <2>6, <2>8 DEF InRunsSet
  <2>10. SetsDiffer'  BY <2>6 DEF SetsDiffer
  <2>11. HeardByOpen'  BY <2>1 DEF HeardByOpen
  <2> QED  BY <2>5, <2>7, <2>9, <2>10, <2>11
<1>4. ASSUME NEW r \in WatchedRuns, Dispatch(r)
      PROVE  BusInv'
  <2> DEFINE open == {s \in Streams : stream[s].open /\ stream[s].key \in {r, All}}
             got == listeners[Global] \union IF r \in DOMAIN byRun THEN listeners[byRun[r]] ELSE {}
  <2>1. heard' = [open |-> open, got |-> got] /\ UNCHANGED <<redis, listeners, byRun, stream>>
    BY <1>4 DEF Dispatch
  <2>2. got \subseteq Streams  BY <1>t DEF BusTypeOK
  <2>3. ASSUME NEW s \in Streams
        PROVE  s \in open <=> s \in got
    <3>1. Global \notin ListenerSets /\ r # All  BY BusAssumption DEF Global
    <3>2. s \in listeners[Global] <=> stream[s].open /\ stream[s].key = All
      BY <1>t, <3>1 DEF InItsSet, InRunsSet, BusTypeOK
    <3>3. ASSUME r \in DOMAIN byRun
          PROVE  s \in listeners[byRun[r]] <=> stream[s].open /\ stream[s].key = r
      <4>1. byRun[r] \in ListenerSets  BY <1>t, <3>3 DEF BusTypeOK
      <4>2. s \in listeners[byRun[r]] <=> stream[s].open /\ stream[s].set = byRun[r]
        BY <4>1 DEF InItsSet
      <4>3. stream[s].open => (stream[s].set = byRun[r] <=> stream[s].key = r)
        BY <3>1, <3>3, <4>1 DEF InRunsSet, SetsDiffer
      <4> QED  BY <4>2, <4>3
    <3>4. r \notin DOMAIN byRun => ~(stream[s].open /\ stream[s].key = r)  BY <3>1 DEF InRunsSet
    <3> QED  BY <3>2, <3>3, <3>4
  <2>4. open = got  BY <2>2, <2>3
  <2> HIDE DEF open, got
  <2>5. open \subseteq Streams  BY DEF open
  <2>6. BusTypes'  BY <1>t, <2>1, <2>2, <2>5 DEF BusTypes, BusTypeOK
  <2> QED  BY <2>1, <2>4, <2>6 DEF InItsSet, InRunsSet, SetsDiffer, HeardByOpen
<1>5. CASE Psubscribed
  BY <1>5 DEF Psubscribed, BusTypes, BusTypeOK, InItsSet, InRunsSet, SetsDiffer, HeardByOpen
<1>6. CASE UNCHANGED busVars
  BY <1>6 DEF busVars, BusTypes, BusTypeOK, InItsSet, InRunsSet, SetsDiffer, HeardByOpen
<1> QED  BY <1>1, <1>2, <1>3, <1>4, <1>5, <1>6 DEF BusNext

\* An event that reaches the instance is given to exactly the streams open for
\* its run or for all, after any sequence of streams opened and closed.
THEOREM EventsReachTheOpen == BusSpec => []HeardByOpen
<1>1. BusInv => HeardByOpen  BY DEF BusInv
<1> QED  BY <1>1, BusInvInit, BusInvStep, PTL DEF BusSpec

-----------------------------------------------------------------------------
(* Members and roles *)

Requests ==
  [step : {"count", "look", "write"}, op : {"active", "remove", "password"}, user : Users, arg : {{}, {TRUE}}]
    \union [step : {"count", "look", "write", "insert"}, op : {"roles"}, user : Users, arg : SUBSET Roles]

SignIns ==
  [step : {"find", "upsert", "clear", "grant", "load"}, user : Users, roles : SUBSET Roles,
   was : {"none", "local", "sso"}]

AccountTypes ==
  /\ AccountTypeOK
  /\ change \in [Changes -> Requests \union {NoChange}]
  /\ login \in [Logins -> SignIns \union {NoLogin}]

\* A request that takes an administrator away if its user is one.
Removes(q) ==
  \/ change[q].op = "active" /\ TRUE \notin change[q].arg
  \/ change[q].op = "remove"
  \/ change[q].op = "roles" /\ Admin \notin change[q].arg

Inserting(q) == change[q].step = "insert"

\* Some administrator is active, and one other than the user of any request
\* that has passed the guard.
AdminSpared ==
  (\A q \in Changes : ~Inserting(q)) =>
    /\ ActiveAdmins # {}
    /\ \A q \in Changes : change[q].step = "write" /\ Removes(q) => ActiveAdmins \ {change[q].user} # {}

\* While a user's new roles are not yet inserted there is an administrator, or
\* the user becomes one.
AdminReturns ==
  \A q \in Changes : Inserting(q) =>
    /\ Exists(change[q].user)
    /\ ActiveAdmins # {} \/ (Admin \in change[q].arg /\ active[change[q].user])

\* A sign-in that changes roles has found no local user.
ManagedOnly == \A l \in Logins : login[l].step \in {"clear", "grant"} => login[l].was # "local"

AccountInv ==
  /\ AccountTypes
  /\ ~unguarded => AdminSpared /\ AdminReturns
  /\ ManagedOnly /\ LocalRolesKept

LEMMA AccountInvInit == AccountInit => AccountInv
<1> SUFFICES ASSUME AccountInit PROVE AccountInv
  OBVIOUS
<1>1. AccountTypes
  <2>1. \A u \in Users : (u = Founder) \in BOOLEAN  BY Zenon
  <2>2. active \in [Users -> BOOLEAN]  BY <2>1, Zenon DEF AccountInit
  <2>3. roles \in [Users -> SUBSET Roles] /\ adminSet = roles  BY AccountAssumption DEF AccountInit
  <2>4. account \in [Users -> {"none", "local", "sso"}]  BY DEF AccountInit
  <2>5. csrf \subseteq States /\ given \in 0 .. MaxStates /\ unguarded \in BOOLEAN /\ overtaken \in BOOLEAN
    <3>1. csrf = {} /\ given = 0 /\ unguarded = FALSE /\ overtaken = FALSE  BY Zenon DEF AccountInit
    <3>2. given \in 0 .. MaxStates
      <4>1. MaxStates \in Nat  BY AccountAssumption
      <4> QED  BY <3>1, <4>1
    <3> QED  BY <3>1, <3>2, Zenon
  <2>6. AccountTypeOK  BY <2>2, <2>3, <2>4, <2>5 DEF AccountTypeOK
  <2> QED  BY <2>6 DEF AccountInit, AccountTypes
<1>2. Founder \in ActiveAdmins  BY AccountAssumption DEF AccountInit, ActiveAdmins, Exists
<1>3. \A q \in Changes : change[q].step = "idle"  BY DEF AccountInit, NoChange
<1>4. \A l \in Logins : login[l].step = "idle"  BY DEF AccountInit, NoLogin
<1>5. LocalRolesKept  BY DEF AccountInit, LocalRolesKept
<1> QED
  BY <1>1, <1>2, <1>3, <1>4, <1>5 DEF AccountInv, AdminSpared, AdminReturns, ManagedOnly, Inserting

\* One request's record is replaced.
LEMMA ChangeIs ==
  ASSUME AccountTypes, NEW q \in Changes, NEW c \in Requests \union {NoChange}, SetChange(q, c)
  PROVE  /\ change' \in [Changes -> Requests \union {NoChange}]
         /\ change'[q] = c
         /\ \A p \in Changes \ {q} : change'[p] = change[p]
BY DEF AccountTypes, SetChange

\* A request in progress goes on to another step.
LEMMA ChangeGoesOn ==
  ASSUME AccountTypes, NEW q \in Changes, change[q].step # "idle",
         NEW s \in {"count", "look", "write", "insert"}, s = "insert" => change[q].op = "roles",
         SetChange(q, [change[q] EXCEPT !.step = s])
  PROVE  /\ change' \in [Changes -> Requests \union {NoChange}]
         /\ change'[q].step = s /\ change'[q].op = change[q].op /\ change'[q].user = change[q].user
         /\ change'[q].arg = change[q].arg
         /\ \A p \in Changes \ {q} : change'[p] = change[p]
<1>1. change[q] \in Requests  BY DEF AccountTypes, NoChange
<1>2. [change[q] EXCEPT !.step = s] \in Requests  BY <1>1 DEF Requests
<1>3. /\ change' \in [Changes -> Requests \union {NoChange}]
      /\ change'[q] = [change[q] EXCEPT !.step = s]
      /\ \A p \in Changes \ {q} : change'[p] = change[p]
  BY <1>2, ChangeIs
<1> QED  BY <1>1, <1>3 DEF Requests

\* A sign-in's record is replaced.
LEMMA LoginIs ==
  ASSUME AccountTypes, NEW l \in Logins, NEW v \in SignIns \union {NoLogin}, SetLogin(l, v)
  PROVE  /\ login' \in [Logins -> SignIns \union {NoLogin}]
         /\ login'[l] = v
         /\ \A m \in Logins \ {l} : login'[m] = login[m]
BY DEF AccountTypes, SetLogin

\* With more than one active administrator one is left whoever is taken away.
LEMMA SeveralAreEnough ==
  ASSUME NEW S, Cardinality(S) > 1, NEW u
  PROVE  S \ {u} # {}
<1> SUFFICES ASSUME S \ {u} = {} PROVE FALSE
  OBVIOUS
<1>1. S = {} \/ S = {u}  OBVIOUS
<1>2. Cardinality({}) = 0 /\ Cardinality({u}) = 1  BY FS_EmptySet, FS_Singleton
<1> QED  BY <1>1, <1>2

\* A step that ends a request, or takes it one step further, and changes no
\* user, when what the guard promises holds for it.
LEMMA ChangeMoves ==
  ASSUME AccountInv, NEW q \in Changes, UNCHANGED <<accRows, accRest>>,
         change' \in [Changes -> Requests \union {NoChange}],
         \A p \in Changes \ {q} : change'[p] = change[p],
         unguarded' \in BOOLEAN, unguarded => unguarded',
         ~unguarded' => ~Inserting(q) /\ ~Inserting(q)',
         ~unguarded' /\ (\A p \in Changes : ~Inserting(p)) /\ change'[q].step = "write" /\ Removes(q)' =>
           ActiveAdmins \ {change'[q].user} # {}
  PROVE  AccountInv'
<1>1. AccountTypes'
  BY DEF AccountInv, AccountTypes, AccountTypeOK, accRows, accRest
<1>2. ActiveAdmins' = ActiveAdmins /\ \A u \in Users : Exists(u)' = Exists(u)
  BY DEF ActiveAdmins, Exists, accRows
<1>3. ManagedOnly' /\ LocalRolesKept'  BY DEF AccountInv, ManagedOnly, LocalRolesKept, accRows, accRest
<1>4. ASSUME ~unguarded'
      PROVE  AdminSpared' /\ AdminReturns'
  <2>1. AdminSpared /\ AdminReturns /\ ~Inserting(q) /\ ~Inserting(q)'  BY <1>4 DEF AccountInv, AccountTypes, AccountTypeOK
  <2>2. \A p \in Changes : Inserting(p)' = Inserting(p)
    BY <2>1 DEF Inserting
  <2>3. \A p \in Changes \ {q} : Removes(p)' = Removes(p)  BY DEF Removes
  <2>4. AdminSpared'  BY <1>2, <1>4, <2>1, <2>2, <2>3 DEF AdminSpared, Inserting
  <2>5. AdminReturns'  BY <1>2, <2>1, <2>2 DEF AdminReturns, Exists, Inserting, accRows
  <2> QED  BY <2>4, <2>5
<1> QED  BY <1>1, <1>3, <1>4 DEF AccountInv

\* A request writes: unless others have passed the guard with it, what it
\* leaves is all there is to look at.
LEMMA ChangeWrites ==
  ASSUME AccountInv, NEW q \in Changes, AccountTypeOK', UNCHANGED accRest,
         change' \in [Changes -> Requests \union {NoChange}],
         \A p \in Changes \ {q} : change'[p] = change[p],
         change'[q].step \in {"idle", "insert"},
         ~unguarded' => ~OthersPastGuard(q),
         ~unguarded' /\ change'[q].step = "idle" => ActiveAdmins' # {},
         ~unguarded' /\ change'[q].step = "insert" =>
           /\ change'[q].user = change[q].user /\ account'[change[q].user] # "none"
           /\ ActiveAdmins' # {} \/ (Admin \in change'[q].arg /\ active'[change[q].user]),
         LocalRolesKept'
  PROVE  AccountInv'
<1>1. AccountTypes' /\ ManagedOnly'
  BY DEF AccountInv, AccountTypes, ManagedOnly, accRest
<1>2. ASSUME ~unguarded'
      PROVE  AdminSpared' /\ AdminReturns'
  <2>1. \A p \in Changes \ {q} : change'[p].step \notin {"write", "insert"}
    BY <1>2 DEF OthersPastGuard, PastGuard
  <2>2. AdminSpared'  BY <1>2, <2>1 DEF AdminSpared, Inserting
  <2>3. AdminReturns'  BY <1>2, <2>1 DEF AdminReturns, Inserting, Exists
  <2> QED  BY <2>2, <2>3
<1> QED  BY <1>1, <1>2 DEF AccountInv

\* A step that no member request takes, and that leaves every active
\* administrator one, or is counted as losing one.
LEMMA OthersStep ==
  ASSUME AccountInv, AccountTypes', UNCHANGED change, unguarded => unguarded',
         ~unguarded' => /\ ActiveAdmins \subseteq ActiveAdmins'
                        /\ \A u \in Users : Exists(u) => Exists(u)' /\ active'[u] = active[u],
         ManagedOnly', LocalRolesKept'
  PROVE  AccountInv'
<1>1. ASSUME ~unguarded'
      PROVE  AdminSpared' /\ AdminReturns'
  <2>1. AdminSpared /\ AdminReturns  BY <1>1 DEF AccountInv, AccountTypes, AccountTypeOK
  <2>2. AdminSpared'  BY <1>1, <2>1 DEF AdminSpared, Inserting, Removes
  <2>3. ASSUME NEW q \in Changes, Inserting(q)
        PROVE  change[q].user \in Users
    <3>1. change[q] \in Requests  BY <2>3 DEF AccountInv, AccountTypes, Inserting, NoChange
    <3> QED  BY <3>1 DEF Requests
  <2>4. AdminReturns'  BY <1>1, <2>1, <2>3 DEF AdminReturns, Inserting, Exists
  <2> QED  BY <2>2, <2>4
<1> QED  BY <1>1 DEF AccountInv

\* A user's roles are replaced by a role change.
LEMMA SetByAdminKeeps ==
  ASSUME AccountTypeOK, LocalRolesKept, NEW u \in Users, NEW rs \in SUBSET Roles,
         roles' = [roles EXCEPT ![u] = rs], SetByAdmin(u, rs), UNCHANGED <<account, overtaken>>
  PROVE  /\ roles' \in [Users -> SUBSET Roles] /\ adminSet' \in [Users -> SUBSET Roles]
         /\ LocalRolesKept'
BY DEF AccountTypeOK, LocalRolesKept, SetByAdmin

LEMMA AccountInvStep ==
  ASSUME AccountInv, [AccountNext]_accVars
  PROVE  AccountInv'
<1>t. AccountTypes /\ AccountTypeOK  BY DEF AccountInv, AccountTypes
<1>u. unguarded \in BOOLEAN  BY <1>t DEF AccountTypeOK
\* The requests, up to what they write.
<1>1. ASSUME NEW q \in Changes, NEW op \in {"active", "remove", "roles", "password"}, NEW u \in Users,
             NEW arg, NEW s \in {"count", "write"}, BeginChange(q, op, u, arg, s),
             arg \in IF op = "roles" THEN SUBSET Roles ELSE {{}, {TRUE}},
             s = "write" => \/ op = "active" /\ TRUE \in arg
                            \/ op = "roles" /\ Admin \in arg
                            \/ op = "password"
      PROVE  AccountInv'
  <2> DEFINE c == Request(op, u, arg, s)
  <2>1. SetChange(q, c) /\ UNCHANGED <<accRows, accRest, unguarded>> /\ change[q] = NoChange
    BY <1>1 DEF BeginChange
  <2>2. c \in Requests /\ c.step = s /\ c.op = op /\ c.arg = arg
    <3>1. CASE op = "roles"  BY <1>1, <3>1 DEF Requests, Request
    <3>2. CASE op # "roles"  BY <1>1, <3>2 DEF Requests, Request
    <3> QED  BY <3>1, <3>2
  <2> HIDE DEF c
  <2>3. /\ change' \in [Changes -> Requests \union {NoChange}] /\ change'[q] = c
        /\ \A p \in Changes \ {q} : change'[p] = change[p]
    BY <1>t, <2>1, <2>2, ChangeIs
  <2>4. ~Inserting(q) /\ ~Inserting(q)'  BY <2>1, <2>2, <2>3 DEF Inserting, NoChange
  <2>5. ~(change'[q].step = "write" /\ Removes(q)')  BY <1>1, <2>2, <2>3 DEF Removes
  <2> QED  BY <1>u, <2>1, <2>3, <2>4, <2>5, ChangeMoves
<1>2. ASSUME NEW q \in Changes, NEW u \in Users, ToggleActive(q, u) \/ ConfirmDelete(q, u) \/ SetPassword(q, u)
      PROVE  AccountInv'
  <2>1. PICK op \in {"active", "remove", "password"}, arg \in {{}, {TRUE}}, s \in {"count", "write"} :
          /\ BeginChange(q, op, u, arg, s)
          /\ s = "write" => \/ op = "active" /\ TRUE \in arg
                            \/ op = "roles" /\ Admin \in arg
                            \/ op = "password"
    <3>1. CASE BeginChange(q, "active", u, {}, "count")  BY <3>1
    <3>2. CASE BeginChange(q, "active", u, {TRUE}, "write")  BY <3>2
    <3>3. CASE BeginChange(q, "remove", u, {}, "count")  BY <3>3
    <3>4. CASE BeginChange(q, "password", u, {}, "write")  BY <3>4
    <3> QED  BY <1>2, <3>1, <3>2, <3>3, <3>4 DEF ToggleActive, ConfirmDelete, SetPassword
  <2> QED  BY <2>1, <1>1
<1>3. ASSUME NEW q \in Changes, NEW u \in Users, NEW rs \in SUBSET Roles, SaveRoles(q, u, rs)
      PROVE  AccountInv'
  <2>1. CASE Admin \in rs
    <3>1. BeginChange(q, "roles", u, rs, "write")  BY <1>3, <2>1 DEF SaveRoles
    <3> QED  BY <2>1, <3>1, <1>1
  <2>2. CASE Admin \notin rs
    <3>1. BeginChange(q, "roles", u, rs, "count")  BY <1>3, <2>2 DEF SaveRoles
    <3> QED  BY <3>1, <1>1
  <2> QED  BY <2>1, <2>2
<1>4. ASSUME NEW q \in Changes, CountAdmins(q)
      PROVE  AccountInv'
  <2>1. PICK s \in {"write", "look"} :
          /\ SetChange(q, [change[q] EXCEPT !.step = s])
          /\ s = "write" => Cardinality(ActiveAdmins) > 1
    BY <1>4 DEF CountAdmins
  <2>2. change[q].step = "count" /\ UNCHANGED <<accRows, accRest, unguarded>>  BY <1>4 DEF CountAdmins
  <2>3. /\ change' \in [Changes -> Requests \union {NoChange}]
        /\ change'[q].step = s
        /\ \A p \in Changes \ {q} : change'[p] = change[p]
    BY <1>t, <2>1, <2>2, ChangeGoesOn
  <2>4. change'[q].step = "write" => ActiveAdmins \ {change'[q].user} # {}
    BY <2>1, <2>3, SeveralAreEnough
  <2> QED  BY <1>u, <2>1, <2>2, <2>3, <2>4, ChangeMoves DEF Inserting
<1>5. ASSUME NEW q \in Changes, LookAtTarget(q)
      PROVE  AccountInv'
  <2>1. change[q].step = "look" /\ UNCHANGED <<accRows, accRest, unguarded>>  BY <1>5 DEF LookAtTarget
  <2>2. CASE Exists(change[q].user) /\ Admin \in roles[change[q].user]
    <3>1. SetChange(q, NoChange)  BY <1>5, <2>2 DEF LookAtTarget
    <3>2. /\ change' \in [Changes -> Requests \union {NoChange}] /\ change'[q].step = "idle"
          /\ \A p \in Changes \ {q} : change'[p] = change[p]
      BY <1>t, <3>1, ChangeIs DEF NoChange
    <3> QED  BY <1>u, <2>1, <3>2, ChangeMoves DEF Inserting
  <2>3. CASE ~(Exists(change[q].user) /\ Admin \in roles[change[q].user])
    <3>1. SetChange(q, [change[q] EXCEPT !.step = "write"])  BY <1>5, <2>3 DEF LookAtTarget
    <3>2. /\ change' \in [Changes -> Requests \union {NoChange}]
          /\ change'[q].step = "write" /\ change'[q].user = change[q].user
          /\ \A p \in Changes \ {q} : change'[p] = change[p]
      BY <1>t, <2>1, <3>1, ChangeGoesOn
    <3>3. ActiveAdmins \ {change[q].user} = ActiveAdmins  BY <2>3 DEF ActiveAdmins
    <3>4. ~unguarded /\ (\A p \in Changes : ~Inserting(p)) => ActiveAdmins # {}
      BY DEF AccountInv, AdminSpared
    <3> QED  BY <1>u, <2>1, <3>2, <3>3, <3>4, ChangeMoves DEF Inserting
  <2> QED  BY <2>2, <2>3
<1>6. ASSUME NEW q \in Changes, ChangeFails(q) \/ ChangeDies(q)
      PROVE  AccountInv'
  <2>1. /\ SetChange(q, NoChange) /\ UNCHANGED <<accRows, accRest>>
        /\ \/ unguarded' = unguarded /\ ~Exists(change[q].user)
           \/ unguarded' = (unguarded \/ Inserting(q))
    BY <1>6 DEF ChangeFails, ChangeDies, Inserting
  <2>2. /\ change' \in [Changes -> Requests \union {NoChange}] /\ change'[q].step = "idle"
        /\ \A p \in Changes \ {q} : change'[p] = change[p]
    BY <1>t, <2>1, ChangeIs DEF NoChange
  <2>3. unguarded' \in BOOLEAN /\ (unguarded => unguarded') /\ (~unguarded' => ~Inserting(q))
    <3>1. ~unguarded /\ ~Exists(change[q].user) => ~Inserting(q)  BY DEF AccountInv, AdminReturns
    <3>2. CASE unguarded' = unguarded /\ ~Exists(change[q].user)  BY <1>u, <3>1, <3>2, Zenon
    <3>3. CASE unguarded' = (unguarded \/ Inserting(q))
      <4>1. (unguarded \/ Inserting(q)) \in BOOLEAN  BY Zenon
      <4> QED  BY <3>3, <4>1, Zenon
    <3> QED  BY <2>1, <3>2, <3>3, Zenon
  <2> QED  BY <2>1, <2>2, <2>3, ChangeMoves DEF Inserting
\* The requests' writes.
<1>7. ASSUME NEW q \in Changes, NEW u \in Users, NEW rs \in SUBSET Roles, CreateMember(q, u, rs)
      PROVE  AccountInv'
  <2>1. /\ account[u] = "none" /\ account' = [account EXCEPT ![u] = "local"]
        /\ active' = [active EXCEPT ![u] = TRUE] /\ roles' = [roles EXCEPT ![u] = rs]
        /\ adminSet' = [adminSet EXCEPT ![u] = rs] /\ UNCHANGED <<change, accRest, unguarded>>
    BY <1>7 DEF CreateMember
  <2>2. AccountTypeOK'  BY <1>t, <2>1 DEF AccountTypeOK, accRest
  <2>3. AccountTypes'  BY <1>t, <2>1, <2>2 DEF AccountTypes, accRest
  <2>4. LocalRolesKept'  BY <1>t, <2>1 DEF AccountInv, AccountTypeOK, LocalRolesKept, accRest
  <2>5. /\ ActiveAdmins \subseteq ActiveAdmins'
        /\ \A v \in Users : Exists(v) => Exists(v)' /\ active'[v] = active[v]
    BY <1>t, <2>1 DEF AccountTypeOK, ActiveAdmins, Exists
  <2>6. ManagedOnly'  BY <2>1 DEF AccountInv, ManagedOnly, accRest
  <2> QED  BY <2>1, <2>3, <2>4, <2>5, <2>6, OthersStep
<1>8. ASSUME NEW q \in Changes, PastGuard(q), Writes(q)
      PROVE  /\ unguarded' \in BOOLEAN
             /\ ~unguarded' => /\ ~unguarded /\ ~OthersPastGuard(q)
                               /\ \A p \in Changes \ {q} : ~Inserting(p)
             /\ change[q] \in Requests
  <2>1. (unguarded \/ OthersPastGuard(q)) \in BOOLEAN /\ (~(unguarded \/ OthersPastGuard(q)) => ~unguarded /\ ~OthersPastGuard(q))
    BY Zenon
  <2>2. unguarded' \in BOOLEAN /\ (~unguarded' => ~unguarded /\ ~OthersPastGuard(q))
    BY <1>8, <2>1, Zenon DEF Writes
  <2>3. ~OthersPastGuard(q) => \A p \in Changes \ {q} : ~Inserting(p)
    BY DEF OthersPastGuard, PastGuard, Inserting
  <2>4. change[q] \in Requests  BY <1>t, <1>8 DEF AccountTypes, PastGuard, NoChange
  <2> QED  BY <2>2, <2>3, <2>4, Zenon
<1>9. ASSUME NEW q \in Changes, WriteUser(q)
      PROVE  AccountInv'
  <2> DEFINE u == change[q].user
  <2>1. /\ change[q].step = "write" /\ Exists(u) /\ SetChange(q, NoChange) /\ Writes(q) /\ UNCHANGED accRest
        /\ PastGuard(q)
    BY <1>9 DEF WriteUser, PastGuard
  <2>2. /\ unguarded' \in BOOLEAN
        /\ ~unguarded' => /\ ~unguarded /\ ~OthersPastGuard(q)
                          /\ \A p \in Changes \ {q} : ~Inserting(p)
        /\ change[q] \in Requests
    BY <1>8, <2>1
  <2>3. u \in Users  BY <2>2 DEF Requests
  <2>4. /\ change' \in [Changes -> Requests \union {NoChange}] /\ change'[q].step = "idle"
        /\ \A p \in Changes \ {q} : change'[p] = change[p]
    BY <1>t, <2>1, ChangeIs DEF NoChange
  <2>5. ~unguarded' => ActiveAdmins # {} /\ (Removes(q) => ActiveAdmins \ {u} # {})
    BY <2>1, <2>2 DEF AccountInv, AdminSpared, Inserting
  <2>6. CASE change[q].op = "active" /\ active' = [active EXCEPT ![u] = (TRUE \in change[q].arg)]
             /\ UNCHANGED <<account, roles, adminSet>>
    <3>1. (TRUE \in change[q].arg) \in BOOLEAN  BY SMT
    <3>2. active' \in [Users -> BOOLEAN]  BY <1>t, <2>6, <3>1, Zenon DEF AccountTypeOK
    <3>3. AccountTypeOK'  BY <1>t, <2>1, <2>2, <2>6, <3>2 DEF AccountTypeOK, accRest
    <3>4. LocalRolesKept'  BY <2>1, <2>6 DEF AccountInv, LocalRolesKept, accRest
    <3>5. \A v \in Users \ {u} : active'[v] = active[v]  BY <1>t, <2>6 DEF AccountTypeOK
    <3>6. TRUE \in change[q].arg => active'[u] = TRUE
      <4>1. active'[u] = (TRUE \in change[q].arg)  BY <1>t, <2>3, <2>6, Zenon DEF AccountTypeOK
      <4> QED  BY <4>1, Zenon
    <3>7. TRUE \in change[q].arg => ActiveAdmins \subseteq ActiveAdmins'
      BY <2>6, <3>5, <3>6 DEF ActiveAdmins, Exists
    <3>8. ActiveAdmins \ {u} \subseteq ActiveAdmins'  BY <2>6, <3>5 DEF ActiveAdmins, Exists
    <3>9. ~unguarded' => ActiveAdmins' # {}  BY <2>5, <2>6, <3>7, <3>8 DEF Removes
    <3> QED  BY <2>1, <2>2, <2>4, <3>3, <3>4, <3>9, ChangeWrites
  <2>7. CASE change[q].op = "remove" /\ account' = [account EXCEPT ![u] = "none"]
             /\ active' = [active EXCEPT ![u] = FALSE] /\ roles' = [roles EXCEPT ![u] = {}]
             /\ adminSet' = [adminSet EXCEPT ![u] = {}]
    <3>1. AccountTypeOK'  BY <1>t, <2>1, <2>2, <2>7 DEF AccountTypeOK, accRest
    <3>2. LocalRolesKept'  BY <1>t, <2>1, <2>7 DEF AccountInv, AccountTypeOK, LocalRolesKept, accRest
    <3>3. ActiveAdmins \ {u} \subseteq ActiveAdmins'
      BY <1>t, <2>7 DEF AccountTypeOK, ActiveAdmins, Exists
    <3>4. ~unguarded' => ActiveAdmins' # {}  BY <2>5, <2>7, <3>3 DEF Removes
    <3> QED  BY <2>1, <2>2, <2>4, <3>1, <3>2, <3>4, ChangeWrites
  <2>8. CASE change[q].op = "password" /\ account' = [account EXCEPT ![u] = "local"]
             /\ adminSet' = [adminSet EXCEPT ![u] = roles[u]] /\ UNCHANGED <<active, roles>>
    <3>1. AccountTypeOK'  BY <1>t, <2>1, <2>2, <2>3, <2>8 DEF AccountTypeOK, accRest
    <3>2. LocalRolesKept'  BY <1>t, <2>1, <2>8 DEF AccountInv, AccountTypeOK, LocalRolesKept, accRest
    <3>3. ActiveAdmins \subseteq ActiveAdmins'  BY <1>t, <2>8 DEF AccountTypeOK, ActiveAdmins, Exists
    <3>4. ~unguarded' => ActiveAdmins' # {}  BY <2>5, <3>3
    <3> QED  BY <2>1, <2>2, <2>4, <3>1, <3>2, <3>4, ChangeWrites
  <2> HIDE DEF u
  <2> QED  BY <1>9, <2>6, <2>7, <2>8 DEF WriteUser, u
<1>10. ASSUME NEW q \in Changes, DeleteRoles(q)
       PROVE  AccountInv'
  <2> DEFINE u == change[q].user
  <2>1. /\ change[q].step = "write" /\ change[q].op = "roles" /\ Exists(u)
        /\ roles' = [roles EXCEPT ![u] = {}] /\ SetByAdmin(u, {})
        /\ SetChange(q, [change[q] EXCEPT !.step = "insert"]) /\ Writes(q)
        /\ UNCHANGED <<account, active, accRest>> /\ PastGuard(q)
    BY <1>10 DEF DeleteRoles, PastGuard
  <2>2. /\ unguarded' \in BOOLEAN
        /\ ~unguarded' => /\ ~unguarded /\ ~OthersPastGuard(q)
                          /\ \A p \in Changes \ {q} : ~Inserting(p)
        /\ change[q] \in Requests
    BY <1>8, <2>1
  <2>3. u \in Users  BY <2>2 DEF Requests
  <2>4. /\ change' \in [Changes -> Requests \union {NoChange}]
        /\ change'[q].step = "insert" /\ change'[q].arg = change[q].arg /\ change'[q].user = u
        /\ \A p \in Changes \ {q} : change'[p] = change[p]
    BY <1>t, <2>1, ChangeGoesOn
  <2>5. ~unguarded' => ActiveAdmins # {} /\ (Removes(q) => ActiveAdmins \ {u} # {})
    BY <2>1, <2>2 DEF AccountInv, AdminSpared, Inserting
  <2> HIDE DEF u
  <2>6. /\ roles' \in [Users -> SUBSET Roles] /\ adminSet' \in [Users -> SUBSET Roles]
        /\ LocalRolesKept'
    BY <1>t, <2>1, <2>3, SetByAdminKeeps DEF AccountInv, accRest
  <2>7. AccountTypeOK'  BY <1>t, <2>1, <2>2, <2>6 DEF AccountTypeOK, accRest
  <2>8. ActiveAdmins \ {u} \subseteq ActiveAdmins'
    BY <1>t, <2>1 DEF AccountTypeOK, ActiveAdmins, Exists
  <2>9. ~unguarded' => ActiveAdmins' # {} \/ (Admin \in change[q].arg /\ active'[u])
    <3>1. CASE Removes(q)  BY <2>5, <2>8, <3>1
    <3>2. CASE ~Removes(q)
      <4>1. Admin \in change[q].arg  BY <2>1, <3>2 DEF Removes
      <4>2. ActiveAdmins # {} /\ ActiveAdmins \ {u} = {} => active[u]  BY DEF ActiveAdmins
      <4> QED  BY <2>1, <2>5, <2>8, <4>1, <4>2
    <3> QED  BY <3>1, <3>2
  <2>10. account'[u] # "none"  BY <2>1 DEF Exists
  <2> QED  BY <2>1, <2>2, <2>4, <2>6, <2>7, <2>9, <2>10, ChangeWrites DEF u
<1>11. ASSUME NEW q \in Changes, InsertRoles(q)
       PROVE  AccountInv'
  <2> DEFINE u == change[q].user
             rs == IF roles[u] \intersect change[q].arg = {} THEN roles[u] \union change[q].arg ELSE roles[u]
  <2>1. /\ change[q].step = "insert" /\ Exists(u)
        /\ roles' = [roles EXCEPT ![u] = rs] /\ SetByAdmin(u, rs)
        /\ unguarded' = (unguarded \/ Admin \in change[q].arg \ rs \/ OthersPastGuard(q))
        /\ SetChange(q, NoChange) /\ UNCHANGED <<account, active, accRest>>
    BY <1>11 DEF InsertRoles
  <2>2. change[q] \in Requests  BY <1>t, <2>1 DEF AccountTypes, NoChange
  <2>3. u \in Users  BY <2>2 DEF Requests
  <2>4. /\ change' \in [Changes -> Requests \union {NoChange}] /\ change'[q].step = "idle"
        /\ \A p \in Changes \ {q} : change'[p] = change[p]
    BY <1>t, <2>1, ChangeIs DEF NoChange
  <2>5. rs \in SUBSET Roles /\ roles[u] \subseteq rs
    <3>1. change[q].arg \in SUBSET Roles  BY <2>1, <2>2 DEF Requests
    <3>2. roles[u] \in SUBSET Roles  BY <1>t, <2>3 DEF AccountTypeOK
    <3> QED  BY <3>1, <3>2
  <2>6. unguarded' \in BOOLEAN
        /\ (~unguarded' => ~unguarded /\ Admin \notin change[q].arg \ rs /\ ~OthersPastGuard(q))
    <3> DEFINE lost == unguarded \/ Admin \in change[q].arg \ rs \/ OthersPastGuard(q)
    <3>1. lost \in BOOLEAN  BY Zenon
    <3>2. ~lost => ~unguarded /\ Admin \notin change[q].arg \ rs /\ ~OthersPastGuard(q)  BY Zenon
    <3>3. unguarded' = lost  BY <2>1
    <3> QED  BY <3>1, <3>2, <3>3, Zenon
  <2> HIDE DEF u, rs
  <2>7. /\ roles' \in [Users -> SUBSET Roles] /\ adminSet' \in [Users -> SUBSET Roles]
        /\ LocalRolesKept'
    BY <1>t, <2>1, <2>3, <2>5, SetByAdminKeeps DEF AccountInv, accRest
  <2>8. AccountTypeOK'  BY <1>t, <2>1, <2>6, <2>7 DEF AccountTypeOK, accRest
  <2>9. ActiveAdmins \subseteq ActiveAdmins'
    BY <1>t, <2>1, <2>5 DEF AccountTypeOK, ActiveAdmins, Exists
  <2>10. ASSUME ~unguarded'
         PROVE  ActiveAdmins' # {}
    <3>1. ActiveAdmins # {} \/ (Admin \in change[q].arg /\ active[u])
      BY <2>1, <2>6, <2>10 DEF AccountInv, AdminReturns, Inserting, u
    <3>2. CASE Admin \in change[q].arg /\ active[u]
      <4>1. Admin \in rs  BY <2>6, <2>10, <3>2
      <4>2. u \in ActiveAdmins'  BY <1>t, <2>1, <2>3, <3>2, <4>1 DEF AccountTypeOK, ActiveAdmins, Exists
      <4> QED  BY <4>2
    <3> QED  BY <2>9, <3>1, <3>2
  <2> QED  BY <2>1, <2>4, <2>6, <2>7, <2>8, <2>10, ChangeWrites
\* The sign-ins.
<1>12. ASSUME UNCHANGED <<accRows, change, unguarded, overtaken>>, AccountTypes', ManagedOnly'
       PROVE  AccountInv'
  <2>1. LocalRolesKept'  BY <1>12 DEF AccountInv, LocalRolesKept, accRows
  <2>2. /\ ActiveAdmins \subseteq ActiveAdmins'
        /\ \A u \in Users : Exists(u) => Exists(u)' /\ active'[u] = active[u]
    BY <1>12 DEF ActiveAdmins, Exists, accRows
  <2> QED  BY <1>12, <2>1, <2>2, OthersStep
<1>13. CASE AuthorizationUrl \/ \E s \in States : StateExpires(s)
  <2>1. UNCHANGED <<accRows, change, login, unguarded, overtaken>>
    BY <1>13 DEF AuthorizationUrl, StateExpires
  <2>2. csrf' \subseteq States /\ given' \in 0 .. MaxStates
    <3>1. CASE AuthorizationUrl
      <4>1. given' = given + 1 /\ csrf' = csrf \union {given + 1} /\ given < MaxStates
            /\ given \in 0 .. MaxStates /\ csrf \subseteq States /\ MaxStates \in Nat
        BY <1>t, <3>1, AccountAssumption DEF AuthorizationUrl, AccountTypeOK
      <4> QED  BY <4>1 DEF States
    <3>2. CASE \E s \in States : StateExpires(s)  BY <1>t, <3>2 DEF StateExpires, AccountTypeOK
    <3> QED  BY <1>13, <3>1, <3>2
  <2>3. AccountTypes'  BY <1>t, <2>1, <2>2 DEF AccountTypes, AccountTypeOK, accRows
  <2>4. ManagedOnly'  BY <2>1 DEF AccountInv, ManagedOnly
  <2> QED  BY <2>1, <2>3, <2>4, <1>12
\* A sign-in goes on and changes no row.
<1>14. ASSUME NEW l \in Logins, NEW v \in SignIns \union {NoLogin}, SetLogin(l, v),
              v.step \in {"clear", "grant"} => v.was # "local",
              UNCHANGED <<accRows, change, given, unguarded, overtaken>>, csrf' \subseteq States
       PROVE  AccountInv'
  <2>1. /\ login' \in [Logins -> SignIns \union {NoLogin}] /\ login'[l] = v
        /\ \A m \in Logins \ {l} : login'[m] = login[m]
    BY <1>t, <1>14, LoginIs
  <2>2. AccountTypes'  BY <1>t, <1>14, <2>1 DEF AccountTypes, AccountTypeOK, accRows
  <2>3. ManagedOnly'  BY <1>14, <2>1 DEF AccountInv, ManagedOnly
  <2> QED  BY <1>14, <2>2, <2>3, <1>12
<1>15. ASSUME NEW l \in Logins, login[l].step # "idle"
       PROVE  login[l] \in SignIns
  BY <1>t, <1>15 DEF AccountTypes, NoLogin
<1>16. ASSUME NEW l \in Logins, NEW s \in States, Callback(l, s)
       PROVE  AccountInv'
  <2>1. PICK u \in Users, rs \in SUBSET Roles :
          SetLogin(l, [step |-> "find", user |-> u, roles |-> rs, was |-> "none"])
    BY <1>16 DEF Callback
  <2> DEFINE v == [step |-> "find", user |-> u, roles |-> rs, was |-> "none"]
  <2>2. v \in SignIns /\ v.step = "find"  BY DEF SignIns
  <2>3. UNCHANGED <<accRows, change, given, unguarded, overtaken>> /\ csrf' = csrf \ {s}
    BY <1>16 DEF Callback
  <2>4. csrf' \subseteq States  BY <1>t, <2>3 DEF AccountTypeOK
  <2>5. SetLogin(l, v)  BY <2>1
  <2> HIDE DEF v
  <2> QED  BY <2>2, <2>3, <2>4, <2>5, <1>14
<1>17. ASSUME NEW l \in Logins, FindUser(l)
       PROVE  AccountInv'
  <2> DEFINE v == [login[l] EXCEPT !.step = "upsert", !.was = account[login[l].user]]
  <2>1. /\ login[l].step = "find" /\ SetLogin(l, v)
        /\ UNCHANGED <<accRows, change, csrf, given, unguarded, overtaken>>
    BY <1>17 DEF FindUser
  <2>2. login[l] \in SignIns  BY <2>1, <1>15
  <2>3. account[login[l].user] \in {"none", "local", "sso"}  BY <1>t, <2>2 DEF AccountTypeOK, SignIns
  <2>4. v \in SignIns /\ v.step = "upsert"  BY <2>2, <2>3 DEF SignIns
  <2>5. csrf' \subseteq States  BY <1>t, <2>1 DEF AccountTypeOK
  <2> HIDE DEF v
  <2> QED  BY <2>1, <2>4, <2>5, <1>14
<1>18. ASSUME NEW l \in Logins, FinishLogin(l) \/ LoginDies(l)
       PROVE  AccountInv'
  <2>1. SetLogin(l, NoLogin) /\ UNCHANGED <<accRows, change, csrf, given, unguarded, overtaken>>
    BY <1>18 DEF FinishLogin, LoginDies
  <2>2. csrf' \subseteq States /\ NoLogin.step = "idle"  BY <1>t, <2>1 DEF AccountTypeOK, NoLogin
  <2> QED  BY <2>1, <2>2, <1>14
<1>19. ASSUME NEW l \in Logins, Upsert(l)
       PROVE  AccountInv'
  <2> DEFINE v == [login[l] EXCEPT !.step = IF Manages(l) THEN "clear" ELSE "load"]
             u == login[l].user
  <2>1. /\ login[l].step = "upsert" /\ SetLogin(l, v)
        /\ UNCHANGED <<change, csrf, given, unguarded, overtaken, adminSet>>
    BY <1>19 DEF Upsert, accRows
  <2>2. login[l] \in SignIns  BY <2>1, <1>15
  <2>3. v \in SignIns /\ (v.step \in {"clear", "grant"} => v.was # "local")
    BY <2>2 DEF SignIns, Manages
  <2>4. u \in Users  BY <2>2 DEF SignIns
  <2>5. csrf' \subseteq States  BY <1>t, <2>1 DEF AccountTypeOK
  <2>6. CASE Exists(u)
    <3>1. UNCHANGED accRows  BY <1>19, <2>6 DEF Upsert
    <3> HIDE DEF v
    <3> QED  BY <2>1, <2>3, <2>5, <3>1, <1>14
  <2>7. CASE ~Exists(u)
    <3>1. /\ account' = [account EXCEPT ![u] = "sso"] /\ active' = [active EXCEPT ![u] = TRUE]
          /\ roles' = [roles EXCEPT ![u] = {}]
      BY <1>19, <2>7 DEF Upsert
    <3> HIDE DEF u, v
    <3>2. AccountTypeOK'  BY <1>t, <2>1, <3>1 DEF AccountTypeOK
    <3>3. /\ login' \in [Logins -> SignIns \union {NoLogin}] /\ login'[l] = v
          /\ \A m \in Logins \ {l} : login'[m] = login[m]
      BY <1>t, <2>1, <2>3, LoginIs
    <3>4. AccountTypes'  BY <1>t, <2>1, <3>2, <3>3 DEF AccountTypes
    <3>5. ManagedOnly'  BY <2>3, <3>3 DEF AccountInv, ManagedOnly
    <3>6. LocalRolesKept'  BY <1>t, <2>1, <3>1 DEF AccountInv, AccountTypeOK, LocalRolesKept
    <3>7. /\ ActiveAdmins \subseteq ActiveAdmins'
          /\ \A w \in Users : Exists(w) => Exists(w)' /\ active'[w] = active[w]
      BY <1>t, <2>7, <3>1 DEF AccountTypeOK, ActiveAdmins, Exists
    <3> QED  BY <2>1, <3>4, <3>5, <3>6, <3>7, OthersStep
  <2> QED  BY <2>6, <2>7
\* What a sign-in that changes roles may do to local users.
<1>20. ASSUME NEW l \in Logins, login[l].step \in {"clear", "grant"}, Overtakes(l), NEW rs \in SUBSET Roles,
              roles' = [roles EXCEPT ![login[l].user] = rs], UNCHANGED <<account, adminSet>>
       PROVE  overtaken' \in BOOLEAN /\ LocalRolesKept'
  <2> DEFINE late == overtaken \/ (account[login[l].user] = "local" /\ login[l].was # "local")
  <2>1. late \in BOOLEAN  BY Zenon
  <2>2. ~late => ~overtaken /\ ~(account[login[l].user] = "local" /\ login[l].was # "local")  BY Zenon
  <2>3. overtaken' = late  BY <1>20 DEF Overtakes
  <2> HIDE DEF late
  <2>4. login[l].was # "local"  BY <1>20 DEF AccountInv, ManagedOnly
  <2>5. ~overtaken' => ~overtaken /\ account[login[l].user] # "local"  BY <2>1, <2>2, <2>3, <2>4
  <2>6. LocalRolesKept'  BY <1>t, <1>20, <2>5 DEF AccountInv, AccountTypeOK, LocalRolesKept
  <2> QED  BY <2>1, <2>3, <2>6
<1>21. ASSUME NEW l \in Logins, ClearRoles(l)
       PROVE  AccountInv'
  <2> DEFINE u == login[l].user  v == [login[l] EXCEPT !.step = "grant"]
  <2>1. /\ login[l].step = "clear" /\ roles' = [roles EXCEPT ![u] = {}]
        /\ unguarded' = (unguarded \/ Admin \in roles[u]) /\ Overtakes(l) /\ SetLogin(l, v)
        /\ UNCHANGED <<account, active, adminSet, change, csrf, given>>
    BY <1>21 DEF ClearRoles
  <2>2. login[l] \in SignIns  BY <2>1, <1>15
  <2>3. v \in SignIns /\ v.was = login[l].was  BY <2>2 DEF SignIns
  <2>4. unguarded' \in BOOLEAN /\ (unguarded => unguarded') /\ (~unguarded' => Admin \notin roles[u])
    <3>1. (unguarded \/ Admin \in roles[u]) \in BOOLEAN  BY Zenon
    <3> QED  BY <2>1, <3>1, Zenon
  <2>5. overtaken' \in BOOLEAN /\ LocalRolesKept'
    <3>1. {} \in SUBSET Roles  OBVIOUS
    <3> QED  BY <2>1, <3>1, <1>20
  <2> HIDE DEF v
  <2>6. /\ login' \in [Logins -> SignIns \union {NoLogin}] /\ login'[l] = v
        /\ \A m \in Logins \ {l} : login'[m] = login[m]
    BY <1>t, <2>1, <2>3, LoginIs
  <2>7. AccountTypes'
    <3>1. AccountTypeOK'  BY <1>t, <2>1, <2>4, <2>5 DEF AccountTypeOK
    <3> QED  BY <1>t, <2>1, <2>6, <3>1 DEF AccountTypes
  <2>8. ManagedOnly'  BY <2>1, <2>3, <2>6 DEF AccountInv, ManagedOnly
  <2>9. ~unguarded' => ActiveAdmins \subseteq ActiveAdmins'
    BY <1>t, <2>1, <2>4 DEF AccountTypeOK, ActiveAdmins, Exists
  <2>10. \A w \in Users : Exists(w) => Exists(w)' /\ active'[w] = active[w]
    BY <2>1 DEF Exists
  <2> QED  BY <2>1, <2>4, <2>5, <2>7, <2>8, <2>9, <2>10, OthersStep
<1>22. ASSUME NEW l \in Logins, GrantRole(l)
       PROVE  AccountInv'
  <2> DEFINE u == login[l].user
  <2>1. login[l].step = "grant" /\ UNCHANGED <<account, active, adminSet, change, csrf, given, unguarded>>
    BY <1>22 DEF GrantRole
  <2>2. login[l] \in SignIns  BY <2>1, <1>15
  <2>3. csrf' \subseteq States  BY <1>t, <2>1 DEF AccountTypeOK
  <2>4. CASE login[l].roles = {} /\ SetLogin(l, [login[l] EXCEPT !.step = "load"]) /\ UNCHANGED <<roles, overtaken>>
    <3> DEFINE v == [login[l] EXCEPT !.step = "load"]
    <3>1. v \in SignIns /\ v.step = "load" /\ SetLogin(l, v)  BY <2>2, <2>4 DEF SignIns
    <3> HIDE DEF v
    <3> QED  BY <2>1, <2>3, <2>4, <3>1, <1>14 DEF accRows
  <2>5. CASE SetLogin(l, NoLogin) /\ UNCHANGED <<roles, overtaken>>
    <3>1. NoLogin.step = "idle"  BY DEF NoLogin
    <3> QED  BY <2>1, <2>3, <2>5, <3>1, <1>14 DEF accRows
  <2>6. ASSUME NEW r \in login[l].roles, roles' = [roles EXCEPT ![u] = @ \union {r}], Overtakes(l),
               SetLogin(l, [login[l] EXCEPT !.roles = @ \ {r}])
        PROVE  AccountInv'
    <3> DEFINE v == [login[l] EXCEPT !.roles = @ \ {r}]  rs == roles[u] \union {r}
    <3>1. v \in SignIns /\ v.was = login[l].was  BY <2>2 DEF SignIns
    <3>2. rs \in SUBSET Roles /\ roles' = [roles EXCEPT ![u] = rs]
      BY <1>t, <2>2, <2>6 DEF SignIns, AccountTypeOK
    <3> HIDE DEF v, rs
    <3>3. overtaken' \in BOOLEAN /\ LocalRolesKept'  BY <2>1, <2>6, <3>2, <1>20
    <3>4. SetLogin(l, v)  BY <2>6 DEF v
    <3>5. /\ login' \in [Logins -> SignIns \union {NoLogin}] /\ login'[l] = v
          /\ \A m \in Logins \ {l} : login'[m] = login[m]
      BY <1>t, <3>1, <3>4, LoginIs
    <3>6. AccountTypeOK'  BY <1>t, <2>1, <3>2, <3>3 DEF AccountTypeOK
    <3>7. AccountTypes'  BY <1>t, <2>1, <3>5, <3>6 DEF AccountTypes
    <3>8. ManagedOnly'  BY <2>1, <3>1, <3>5 DEF AccountInv, ManagedOnly
    <3>9. /\ ActiveAdmins \subseteq ActiveAdmins'
          /\ \A w \in Users : Exists(w) => Exists(w)' /\ active'[w] = active[w]
      BY <1>t, <2>1, <2>6 DEF AccountTypeOK, ActiveAdmins, Exists
    <3> QED  BY <2>1, <3>3, <3>7, <3>8, <3>9, OthersStep
  <2> QED  BY <1>22, <2>4, <2>5, <2>6 DEF GrantRole
<1>23. CASE UNCHANGED accVars
  <2>1. UNCHANGED <<accRows, change, login, csrf, given, unguarded, overtaken>>  BY <1>23 DEF accVars, accRows
  <2>2. AccountTypes'  BY <1>t, <2>1 DEF AccountTypes, AccountTypeOK, accRows
  <2>3. ManagedOnly'  BY <2>1 DEF AccountInv, ManagedOnly
  <2> QED  BY <2>1, <2>2, <2>3, <1>12
<1> QED
  BY <1>2, <1>3, <1>4, <1>5, <1>6, <1>7, <1>9, <1>10, <1>11, <1>13, <1>16, <1>17, <1>18, <1>19, <1>21, <1>22, <1>23
     DEF AccountNext, ChangeStep, LoginStep

LEMMA AccountInvariant == AccountSpec => []AccountInv
BY AccountInvInit, AccountInvStep, PTL DEF AccountSpec

\* Some active user is an administrator as long as the guard sees what it
\* guards against: requests that pass it one at a time, role changes that are
\* not cut off between their two statements, sign-ins that do not take the
\* role away.
THEOREM SomeAdminRemains == AccountSpec => []AdminRemains
<1>1. AccountInv => AdminRemains  BY DEF AccountInv, AdminSpared, AdminRemains, Inserting
<1> QED  BY <1>1, AccountInvariant, PTL

\* The roles of a local user are those an administrator gave, whoever signs in
\* with the same address.
THEOREM LocalRolesAreKept == AccountSpec => []LocalRolesKept
<1>1. AccountInv => LocalRolesKept  BY DEF AccountInv
<1> QED  BY <1>1, AccountInvariant, PTL

-----------------------------------------------------------------------------
(* The settings document: the mask the browser shows in place of the secret *)
(* is never stored, and only a save that carries a typed secret changes it. *)

TabStates == [step : {"closed", "open", "read", "write", "answer"},
              shown : Shown, sent : Shown, seen : Shown, sends : BOOLEAN]

\* SettingsTypeOK, with the tabs as a function of records.
SettingTypes == /\ channel \in Shown /\ tab \in [Tabs -> TabStates]
         /\ typed \subseteq Secrets \union {NoText} /\ saving \in BOOLEAN

\* Every secret a tab shows, sends or has read was typed by somebody; only
\* what is shown may be the mask.
TypedOrMasked ==
  \A t \in Tabs :
    /\ tab[t].shown.secret \in typed \union {Mask}
    /\ tab[t].seen.secret \in typed
    /\ tab[t].sends => tab[t].sent.secret \in typed

\* Without overlapping saves one tab is in a request, and what the server has
\* read for it is what is stored.
AloneReads ==
  ~saving =>
    /\ \A t, u \in Tabs : InRequest(t) /\ InRequest(u) => t = u
    /\ \A t \in Tabs : tab[t].step = "write" => tab[t].seen = channel

SettingsInv == SettingTypes /\ MaskNotStored /\ TypedOrMasked /\ AloneReads

\* One tab's state is replaced.
LEMMA SetTabIs ==
  ASSUME SettingTypes, NEW t \in Tabs, NEW r \in TabStates, SetTab(t, r)
  PROVE  /\ tab' \in [Tabs -> TabStates] /\ tab'[t] = r
         /\ \A u \in Tabs \ {t} : tab'[u] = tab[u]
BY DEF SettingTypes, SetTab

LEMMA MaskedIs ==
  ASSUME NEW c \in Shown
  PROVE  Masked(c) \in Shown /\ Masked(c).secret \in {c.secret, Mask}
BY DEF Masked, Shown

LEMMA MergeIs ==
  ASSUME NEW seen \in Shown, NEW sent \in Shown, NEW sends \in BOOLEAN
  PROVE  /\ Merge(seen, sent, sends) \in Shown
         /\ Merge(seen, sent, sends).secret = IF sends THEN sent.secret ELSE seen.secret
BY DEF Merge, Shown

LEMMA SettingsInvInit == SettingsInit => SettingsInv
<1> SUFFICES ASSUME SettingsInit PROVE SettingsInv
  OBVIOUS
<1>1. channel \in Shown /\ channel.secret \in Secrets \union {NoText} /\ typed = {channel.secret}
  BY DEF SettingsInit, Shown
<1>2. \A t \in Tabs : tab[t] = [step |-> "closed", shown |-> channel, sent |-> channel,
                                seen |-> channel, sends |-> FALSE]
  BY DEF SettingsInit
<1>3. SettingTypes  BY <1>1 DEF SettingsInit, SettingTypes, TabStates
<1> QED  BY <1>1, <1>2, <1>3 DEF SettingsInv, MaskNotStored, TypedOrMasked, AloneReads, InRequest

\* A step of one tab that leaves the stored document alone and begins no save.
LEMMA TabStep ==
  ASSUME SettingsInv, NEW t \in Tabs, NEW r \in TabStates, SetTab(t, r), UNCHANGED <<channel, saving>>,
         typed \subseteq typed', typed' \subseteq Secrets \union {NoText},
         r.shown.secret \in typed' \union {Mask}, r.seen.secret \in typed',
         r.sends => r.sent.secret \in typed',
         r.step \in {"read", "write", "answer"} => InRequest(t),
         r.step = "write" => r.seen = channel \/ (tab[t].step = "write" /\ r.seen = tab[t].seen)
  PROVE  SettingsInv'
<1> USE DEF SettingsInv
<1>1. /\ tab' \in [Tabs -> TabStates] /\ tab'[t] = r
      /\ \A u \in Tabs \ {t} : tab'[u] = tab[u]
  BY SetTabIs
<1>2. SettingTypes'  BY <1>1 DEF SettingTypes
<1>3. MaskNotStored'  BY DEF MaskNotStored
<1>4. TypedOrMasked'  BY <1>1 DEF TypedOrMasked
<1>5. \A u \in Tabs : InRequest(u)' => InRequest(u)  BY <1>1 DEF InRequest
<1>6. AloneReads'  BY <1>1, <1>5 DEF AloneReads
<1> QED  BY <1>2, <1>3, <1>4, <1>6

LEMMA SettingsInvStep ==
  ASSUME SettingsInv, [SettingsNext]_settingVars
  PROVE  SettingsInv'
<1> USE SettingsAssumption
<1>0. \A t \in Tabs : tab[t] \in TabStates  BY DEF SettingsInv, SettingTypes
<1>1. ASSUME NEW t \in Tabs, OpenSettings(t) \/ AnswerSave(t)
      PROVE  SettingsInv'
  <2> DEFINE r == [tab[t] EXCEPT !.step = "open", !.shown = Masked(channel)]
  <2>1. channel \in Shown /\ channel.secret \in typed  BY DEF SettingsInv, SettingTypes, MaskNotStored
  <2>2. r \in TabStates  BY <1>0, <2>1, MaskedIs DEF TabStates
  <2>3. SetTab(t, r) /\ UNCHANGED <<channel, saving, typed>>
    <3>1. CASE OpenSettings(t)  BY <3>1 DEF OpenSettings
    <3>2. CASE AnswerSave(t)
      <4>1. r = [tab[t] EXCEPT !.step = "open", !.shown = Masked(channel)]  OBVIOUS
      <4> QED  BY <3>2 DEF AnswerSave
    <3> QED  BY <1>1, <3>1, <3>2
  <2>4. r.shown = Masked(channel) /\ r.seen = tab[t].seen /\ r.sent = tab[t].sent
        /\ r.sends = tab[t].sends /\ r.step = "open"
    BY <1>0 DEF TabStates
  <2>5. typed' \subseteq Secrets \union {NoText}  BY <2>3 DEF SettingsInv, SettingTypes
  <2>6. /\ r.shown.secret \in typed' \union {Mask} /\ r.seen.secret \in typed'
        /\ (r.sends => r.sent.secret \in typed')
    BY <2>1, <2>3, <2>4, MaskedIs DEF SettingsInv, TypedOrMasked
  <2> HIDE DEF r
  <2> QED  BY <2>2, <2>3, <2>4, <2>5, <2>6, TabStep
<1>2. ASSUME NEW t \in Tabs, CloseSettings(t) \/ SaveFails(t)
      PROVE  SettingsInv'
  <2>1. PICK s \in {"open", "closed"} : SetTab(t, [tab[t] EXCEPT !.step = s])
    BY <1>2 DEF CloseSettings, SaveFails
  <2> DEFINE r == [tab[t] EXCEPT !.step = s]
  <2>2. UNCHANGED <<channel, saving, typed>>  BY <1>2 DEF CloseSettings, SaveFails
  <2>3. r \in TabStates  BY <1>0 DEF TabStates
  <2>4. r.shown = tab[t].shown /\ r.seen = tab[t].seen /\ r.sent = tab[t].sent
        /\ r.sends = tab[t].sends /\ r.step \in {"open", "closed"}
    BY <1>0 DEF TabStates
  <2>5. typed' \subseteq Secrets \union {NoText}  BY <2>2 DEF SettingsInv, SettingTypes
  <2>6. /\ r.shown.secret \in typed' \union {Mask} /\ r.seen.secret \in typed'
        /\ (r.sends => r.sent.secret \in typed')
    BY <2>2, <2>4 DEF SettingsInv, TypedOrMasked
  <2>7. SetTab(t, r)  BY <2>1
  <2> HIDE DEF r
  <2> QED  BY <2>2, <2>3, <2>4, <2>5, <2>6, <2>7, TabStep
<1>3. ASSUME NEW t \in Tabs, NEW s \in Secrets \union {NoText}, TypeSecret(t, s)
      PROVE  SettingsInv'
  <2> DEFINE r == [tab[t] EXCEPT !.shown.secret = s]
  <2>1. UNCHANGED <<channel, saving>> /\ typed' = typed \union {s} /\ SetTab(t, r)
    BY <1>3 DEF TypeSecret
  <2>2. r \in TabStates  BY <1>0 DEF TabStates, Shown
  <2>3. r.shown.secret = s /\ r.seen = tab[t].seen /\ r.sent = tab[t].sent
        /\ r.sends = tab[t].sends /\ r.step = tab[t].step
    BY <1>0 DEF TabStates, Shown
  <2>4. typed' \subseteq Secrets \union {NoText}  BY <2>1 DEF SettingsInv, SettingTypes
  <2>5. /\ r.shown.secret \in typed' \union {Mask} /\ r.seen.secret \in typed'
        /\ (r.sends => r.sent.secret \in typed')
    BY <2>1, <2>3 DEF SettingsInv, TypedOrMasked
  <2>6. typed \subseteq typed' /\ (r.step \in {"read", "write", "answer"} => InRequest(t))
    BY <2>1, <2>3 DEF InRequest
  <2> HIDE DEF r
  <2> QED  BY <2>1, <2>2, <2>3, <2>4, <2>5, <2>6, TabStep
<1>4. ASSUME NEW t \in Tabs, NEW p \in Plains, TypePlain(t, p)
      PROVE  SettingsInv'
  <2> DEFINE r == [tab[t] EXCEPT !.shown.plain = p]
  <2>1. UNCHANGED <<channel, saving, typed>> /\ SetTab(t, r)
    BY <1>4 DEF TypePlain
  <2>2. r \in TabStates  BY <1>0 DEF TabStates, Shown
  <2>3. r.shown.secret = tab[t].shown.secret /\ r.seen = tab[t].seen /\ r.sent = tab[t].sent
        /\ r.sends = tab[t].sends /\ r.step = tab[t].step
    BY <1>0 DEF TabStates, Shown
  <2>4. typed' \subseteq Secrets \union {NoText}  BY <2>1 DEF SettingsInv, SettingTypes
  <2>5. /\ r.shown.secret \in typed' \union {Mask} /\ r.seen.secret \in typed'
        /\ (r.sends => r.sent.secret \in typed')
    BY <2>1, <2>3 DEF SettingsInv, TypedOrMasked
  <2>6. r.step \in {"read", "write", "answer"} => InRequest(t)
    BY <2>3 DEF InRequest
  <2> HIDE DEF r
  <2> QED  BY <2>1, <2>2, <2>3, <2>4, <2>5, <2>6, TabStep
<1>5. ASSUME NEW t \in Tabs, ReadChannel(t)
      PROVE  SettingsInv'
  <2> DEFINE r == [tab[t] EXCEPT !.step = "write", !.seen = channel]
  <2>1. UNCHANGED <<channel, saving, typed>> /\ SetTab(t, r) /\ tab[t].step = "read"
    BY <1>5 DEF ReadChannel
  <2>2. channel \in Shown /\ channel.secret \in typed  BY DEF SettingsInv, SettingTypes, MaskNotStored
  <2>3. r \in TabStates  BY <1>0, <2>2 DEF TabStates
  <2>4. r.shown = tab[t].shown /\ r.seen = channel /\ r.sent = tab[t].sent
        /\ r.sends = tab[t].sends /\ r.step = "write"
    BY <1>0 DEF TabStates
  <2>5. typed' \subseteq Secrets \union {NoText}  BY <2>1 DEF SettingsInv, SettingTypes
  <2>6. /\ r.shown.secret \in typed' \union {Mask} /\ r.seen.secret \in typed'
        /\ (r.sends => r.sent.secret \in typed')
    BY <2>1, <2>2, <2>4 DEF SettingsInv, TypedOrMasked
  <2>7. InRequest(t)  BY <2>1 DEF InRequest
  <2> HIDE DEF r
  <2> QED  BY <2>1, <2>3, <2>4, <2>5, <2>6, <2>7, TabStep
<1>6. ASSUME NEW t \in Tabs, SaveSettings(t)
      PROVE  SettingsInv'
  <2> DEFINE r == [tab[t] EXCEPT !.step = "read", !.sent = tab[t].shown,
                                 !.sends = tab[t].shown.secret # Mask]
  <2>1. /\ UNCHANGED <<channel, typed>> /\ SetTab(t, r) /\ tab[t].step = "open"
        /\ saving' = (saving \/ \E u \in Tabs : InRequest(u))
    BY <1>6 DEF SaveSettings
  <2>2. r \in TabStates  BY <1>0 DEF TabStates
  <2>3. r.shown = tab[t].shown /\ r.seen = tab[t].seen /\ r.sent = tab[t].shown
        /\ r.sends = (tab[t].shown.secret # Mask) /\ r.step = "read"
    BY <1>0 DEF TabStates
  <2> HIDE DEF r
  <2>4. /\ tab' \in [Tabs -> TabStates] /\ tab'[t] = r
        /\ \A u \in Tabs \ {t} : tab'[u] = tab[u]
    BY <2>1, <2>2, SetTabIs DEF SettingsInv
  <2>5. SettingTypes'  BY <2>1, <2>4 DEF SettingsInv, SettingTypes
  <2>6. MaskNotStored'  BY <2>1 DEF SettingsInv, MaskNotStored
  <2>7. TypedOrMasked'  BY <2>1, <2>3, <2>4 DEF SettingsInv, TypedOrMasked
  <2>8. \A u \in Tabs \ {t} : InRequest(u)' = InRequest(u)  BY <2>4 DEF InRequest
  <2>9. ~saving' => ~saving /\ \A u \in Tabs : ~InRequest(u)  BY <2>1
  <2>10. AloneReads'  BY <2>1, <2>3, <2>4, <2>8, <2>9 DEF SettingsInv, AloneReads, InRequest
  <2> QED  BY <2>5, <2>6, <2>7, <2>10 DEF SettingsInv
<1>7. ASSUME NEW t \in Tabs, WriteChannel(t)
      PROVE  SettingsInv'
  <2> DEFINE r == [tab[t] EXCEPT !.step = "answer"]
             c == Merge(tab[t].seen, tab[t].sent, tab[t].sends)
  <2>1. UNCHANGED <<saving, typed>> /\ SetTab(t, r) /\ tab[t].step = "write" /\ channel' = c
    BY <1>7 DEF WriteChannel
  <2>2. r \in TabStates  BY <1>0 DEF TabStates
  <2>3. r.shown = tab[t].shown /\ r.seen = tab[t].seen /\ r.sent = tab[t].sent
        /\ r.sends = tab[t].sends /\ r.step = "answer"
    BY <1>0 DEF TabStates
  <2>4. /\ c \in Shown
        /\ c.secret = IF tab[t].sends THEN tab[t].sent.secret ELSE tab[t].seen.secret
    <3>1. tab[t].seen \in Shown /\ tab[t].sent \in Shown /\ tab[t].sends \in BOOLEAN
      BY <1>0 DEF TabStates
    <3> QED  BY <3>1, MergeIs
  <2>5. c.secret \in typed  BY <2>4 DEF SettingsInv, TypedOrMasked
  <2> HIDE DEF r, c
  <2>6. /\ tab' \in [Tabs -> TabStates] /\ tab'[t] = r
        /\ \A u \in Tabs \ {t} : tab'[u] = tab[u]
    BY <2>1, <2>2, SetTabIs DEF SettingsInv
  <2>7. SettingTypes'  BY <2>1, <2>4, <2>6 DEF SettingsInv, SettingTypes
  <2>8. MaskNotStored'  BY <2>1, <2>5 DEF MaskNotStored
  <2>9. TypedOrMasked'  BY <2>1, <2>3, <2>6 DEF SettingsInv, TypedOrMasked
  <2>10. \A u \in Tabs : InRequest(u)' = InRequest(u)  BY <2>1, <2>3, <2>6 DEF InRequest
  <2>11. ~saving => \A u \in Tabs \ {t} : ~InRequest(u)
    BY <2>1 DEF SettingsInv, AloneReads, InRequest
  <2>12. AloneReads'  BY <2>1, <2>3, <2>6, <2>10, <2>11 DEF SettingsInv, AloneReads, InRequest
  <2> QED  BY <2>7, <2>8, <2>9, <2>12 DEF SettingsInv
<1>8. CASE UNCHANGED settingVars
  BY <1>8 DEF settingVars, SettingsInv, SettingTypes, MaskNotStored, TypedOrMasked, AloneReads, InRequest
<1> QED
  BY <1>1, <1>2, <1>3, <1>4, <1>5, <1>6, <1>7, <1>8 DEF SettingsNext

LEMMA SettingsInvariant == SettingsSpec => []SettingsInv
BY SettingsInvInit, SettingsInvStep, PTL DEF SettingsSpec

\* The text that stands for a secret in the browser is never stored as one.
THEOREM MaskIsNeverStored == SettingsSpec => []MaskNotStored
<1>1. SettingsInv => MaskNotStored  BY DEF SettingsInv
<1> QED  BY <1>1, SettingsInvariant, PTL

\* Without overlapping saves the stored secret is replaced only by a typed one.
THEOREM SecretIsKept == SettingsSpec => SecretKept
<1>1. ASSUME SettingsInv, [SettingsNext]_settingVars, channel'.secret # channel.secret, ~saving
      PROVE  \E t \in Tabs : tab[t].step = "write" /\ tab[t].sends /\ channel'.secret = tab[t].sent.secret
  <2>1. PICK t \in Tabs : WriteChannel(t)
    BY <1>1 DEF SettingsNext, settingVars, OpenSettings, CloseSettings, TypeSecret, TypePlain, SaveSettings,
       ReadChannel, AnswerSave, SaveFails
  <2>2. tab[t].step = "write" /\ tab[t].seen = channel
    BY <1>1, <2>1 DEF WriteChannel, SettingsInv, AloneReads
  <2>3. tab[t].seen \in Shown /\ tab[t].sent \in Shown /\ tab[t].sends \in BOOLEAN
    BY <1>1 DEF SettingsInv, SettingTypes, TabStates
  <2>4. channel'.secret = IF tab[t].sends THEN tab[t].sent.secret ELSE tab[t].seen.secret
    BY <2>1, <2>3, MergeIs DEF WriteChannel
  <2> QED  BY <1>1, <2>2, <2>4
<1>2. SettingsInv /\ [SettingsNext]_settingVars =>
        [channel'.secret # channel.secret =>
           \/ saving
           \/ \E t \in Tabs : tab[t].step = "write" /\ tab[t].sends
                                /\ channel'.secret = tab[t].sent.secret]_settingVars
  BY <1>1
<1> QED  BY <1>2, SettingsInvariant, PTL DEF SettingsSpec, SecretKept

-----------------------------------------------------------------------------
(* Notifications *)

NoticeSet == [step : {"none", "listening", "sending", "lost"}, by : Processes, status : Statuses,
              sends : SUBSET Channels]
SinceSet == [all : SUBSET Channels, some : SUBSET Channels]

NoticeTypes ==
  /\ config \in Configs
  /\ notice \in [Finishes -> NoticeSet] /\ since \in [Finishes -> SinceSet]
  /\ told \in [Finishes -> [Channels -> 0 .. 1]]

\* Until the settings are read nothing is sent, and they want no channel that
\* the history does not know of; what is being sent has not been sent before.
NoticeKept(n) ==
  /\ \A c \in Channels : told[n][c] > 0 => c \in since[n].some
  /\ \A c \in notice[n].sends : told[n][c] = 0 /\ c \in since[n].some
  /\ notice[n].step = "sending" => \A c \in since[n].all : c \in notice[n].sends \/ told[n][c] = 1
  /\ notice[n].step \in {"none", "listening"} => notice[n].sends = {} /\ \A c \in Channels : told[n][c] = 0
  /\ notice[n].step = "listening" =>
       /\ since[n].all \subseteq Wanted(config, notice[n].status)
       /\ Wanted(config, notice[n].status) \subseteq since[n].some

NoticeInv == NoticeTypes /\ \A n \in Finishes : NoticeKept(n)

LEMMA WantedIsChannels ==
  ASSUME NEW c \in Configs, NEW status PROVE Wanted(c, status) \subseteq Channels
BY DEF Configs, Wanted, Build

LEMMA NoticeInvInit == NoticeInit => NoticeInv
<1> SUFFICES ASSUME NoticeInit PROVE NoticeInv
  OBVIOUS
<1>1. (CHOOSE p \in Processes : TRUE) \in Processes
  BY NoticeAssumption
<1>2. NoticeTypes
  BY <1>1 DEF NoticeInit, NoticeTypes, NoticeSet, SinceSet, Configs, Events, Statuses
<1>3. \A n \in Finishes : NoticeKept(n)
  BY DEF NoticeInit, NoticeKept
<1> QED  BY <1>2, <1>3 DEF NoticeInv

\* A step about one event leaves the others as they were.
LEMMA OneNotice ==
  ASSUME NoticeInv, NoticeTypes', NEW n \in Finishes, UNCHANGED config, NoticeKept(n)',
         \A m \in Finishes \ {n} : notice'[m] = notice[m] /\ since'[m] = since[m] /\ told'[m] = told[m]
  PROVE  NoticeInv'
BY DEF NoticeInv, NoticeKept

LEMMA NoticeInvStep == NoticeInv /\ [NoticeNext]_noticeVars => NoticeInv'
<1> SUFFICES ASSUME NoticeInv, [NoticeNext]_noticeVars PROVE NoticeInv'
  OBVIOUS
<1>0. NoticeTypes /\ \A n \in Finishes : NoticeKept(n)
  BY DEF NoticeInv
<1>1. CASE UNCHANGED noticeVars
  BY <1>1 DEF noticeVars, NoticeInv, NoticeTypes, NoticeKept
<1>2. ASSUME NEW new \in Configs, SaveConfig(new) PROVE NoticeInv'
  <2>1. /\ config' = new /\ UNCHANGED <<notice, told>>
        /\ since' = [n \in Finishes |->
             [all |-> since[n].all \intersect Wanted(new, notice[n].status),
              some |-> since[n].some \union Wanted(new, notice[n].status)]]
    BY <1>2 DEF SaveConfig
  <2>2. \A n \in Finishes : Wanted(new, notice[n].status) \subseteq Channels
    BY WantedIsChannels
  <2>3. NoticeTypes'
    BY <1>0, <2>1, <2>2 DEF NoticeTypes, SinceSet
  <2>4. ASSUME NEW n \in Finishes PROVE NoticeKept(n)'
    <3> DEFINE w == Wanted(new, notice[n].status)
    <3>1. since'[n].all = since[n].all \intersect w /\ since'[n].some = since[n].some \union w
      BY <2>1
    <3>2. Wanted(config, notice[n].status)' = w
      BY <2>1 DEF Wanted, EventEnabled, Build
    <3> HIDE DEF w
    <3> QED  BY <1>0, <2>1, <3>1, <3>2 DEF NoticeKept
  <2> QED  BY <2>3, <2>4 DEF NoticeInv
<1>3. ASSUME NEW n \in Finishes, NEW p \in Processes, NEW status \in Statuses, EmitFinished(n, p, status)
      PROVE  NoticeInv'
  <2> DEFINE w == Wanted(config, status)
  <2>1. /\ notice[n].step = "none" /\ UNCHANGED <<config, told>>
        /\ notice' = [notice EXCEPT ![n] = [step |-> "listening", by |-> p, status |-> status, sends |-> {}]]
        /\ since' = [since EXCEPT ![n] = [all |-> w, some |-> w]]
    BY <1>3 DEF EmitFinished, SetNotice
  <2>2. w \subseteq Channels
    BY <1>0, WantedIsChannels DEF NoticeTypes
  <2>3. Wanted(config, status)' = w
    BY <2>1 DEF Wanted, EventEnabled, Build
  <2> HIDE DEF w
  <2>4. NoticeTypes'
    BY <1>0, <2>1, <2>2 DEF NoticeTypes, NoticeSet, SinceSet
  <2>5. notice'[n].status = status /\ notice'[n].step = "listening" /\ notice'[n].sends = {}
    BY <1>0, <2>1 DEF NoticeTypes
  <2>6. since'[n].all = w /\ since'[n].some = w
    BY <1>0, <2>1 DEF NoticeTypes
  <2>7. \A c \in Channels : told'[n][c] = 0
    BY <1>0, <2>1 DEF NoticeKept
  <2>8. NoticeKept(n)'
    BY <2>3, <2>5, <2>6, <2>7 DEF NoticeKept
  <2> QED  BY <1>0, <2>1, <2>4, <2>8, OneNotice DEF NoticeTypes
<1>4. ASSUME NEW n \in Finishes, Notify(n) PROVE NoticeInv'
  <2> DEFINE w == Wanted(config, notice[n].status)
  <2>1. /\ notice[n].step = "listening" /\ UNCHANGED <<config, told, since>>
        /\ notice' = [notice EXCEPT ![n] = [notice[n] EXCEPT !.step = "sending", !.sends = w]]
    BY <1>4 DEF Notify, SetNotice
  <2>2. w \subseteq Channels
    BY <1>0, WantedIsChannels DEF NoticeTypes
  <2>3. since[n].all \subseteq w /\ w \subseteq since[n].some
    BY <1>0, <2>1 DEF NoticeKept
  <2> HIDE DEF w
  <2>4. notice[n] \in NoticeSet  BY <1>0 DEF NoticeTypes
  <2>5. NoticeTypes'
    BY <1>0, <2>1, <2>2, <2>4 DEF NoticeTypes, NoticeSet
  <2>6. notice'[n].step = "sending" /\ notice'[n].sends = w
    BY <1>0, <2>1, <2>4 DEF NoticeTypes, NoticeSet
  <2>7. NoticeKept(n)'
    BY <1>0, <2>1, <2>2, <2>3, <2>6 DEF NoticeKept
  <2> QED  BY <1>0, <2>1, <2>5, <2>7, OneNotice DEF NoticeTypes
<1>5. ASSUME NEW n \in Finishes, NotifyFails(n) PROVE NoticeInv'
  <2>1. /\ notice[n].step = "listening" /\ UNCHANGED <<config, told, since>>
        /\ notice' = [notice EXCEPT ![n] = [notice[n] EXCEPT !.step = "lost"]]
    BY <1>5 DEF NotifyFails, SetNotice
  <2>2. notice[n] \in NoticeSet  BY <1>0 DEF NoticeTypes
  <2>3. NoticeTypes'
    BY <1>0, <2>1, <2>2 DEF NoticeTypes, NoticeSet
  <2>4. notice'[n].step = "lost" /\ notice'[n].sends = notice[n].sends
    BY <1>0, <2>1, <2>2 DEF NoticeTypes, NoticeSet
  <2>5. NoticeKept(n)'
    BY <1>0, <2>1, <2>4 DEF NoticeKept
  <2> QED  BY <1>0, <2>1, <2>3, <2>5, OneNotice DEF NoticeTypes
<1>6. ASSUME NEW n \in Finishes, NEW c \in Channels, Send(n, c) \/ SendFails(n, c) PROVE NoticeInv'
  <2>1. /\ c \in notice[n].sends /\ UNCHANGED <<config, since>>
        /\ told' = [told EXCEPT ![n][c] = @ + 1]
        /\ notice' = [notice EXCEPT ![n] = [notice[n] EXCEPT !.sends = @ \ {c}]]
    BY <1>6 DEF Send, SendFails, Try, SetNotice
  <2>2. notice[n] \in NoticeSet  BY <1>0 DEF NoticeTypes
  <2>3. told[n][c] = 0 /\ c \in since[n].some /\ notice[n].step \notin {"none", "listening"}
    BY <1>0, <2>1 DEF NoticeKept
  <2>4. /\ told'[n] = [told[n] EXCEPT ![c] = 1]
        /\ \A m \in Finishes \ {n} : told'[m] = told[m]
    BY <1>0, <2>1, <2>3 DEF NoticeTypes
  <2>5. told[n] \in [Channels -> 0 .. 1]
    BY <1>0 DEF NoticeTypes
  <2>6. told' \in [Finishes -> [Channels -> 0 .. 1]]
    BY <1>0, <2>1, <2>4, <2>5 DEF NoticeTypes
  <2>7. NoticeTypes'
    BY <1>0, <2>1, <2>2, <2>6 DEF NoticeTypes, NoticeSet
  <2>8. notice'[n].step = notice[n].step /\ notice'[n].sends = notice[n].sends \ {c}
    BY <1>0, <2>1, <2>2 DEF NoticeTypes, NoticeSet
  <2>9. NoticeKept(n)'
    BY <1>0, <2>1, <2>2, <2>3, <2>4, <2>5, <2>8 DEF NoticeKept, NoticeSet
  <2> QED  BY <1>0, <2>1, <2>4, <2>7, <2>9, OneNotice DEF NoticeTypes
<1>7. ASSUME NEW p \in Processes, ProcessDies(p) PROVE NoticeInv'
  <2>1. /\ UNCHANGED <<config, told, since>>
        /\ notice' = [n \in Finishes |->
             IF notice[n].by = p /\ (notice[n].step = "listening" \/ notice[n].sends # {})
             THEN [notice[n] EXCEPT !.step = "lost", !.sends = {}] ELSE notice[n]]
    BY <1>7 DEF ProcessDies
  <2>2. \A n \in Finishes : /\ notice[n] \in NoticeSet /\ notice'[n] \in NoticeSet
                            /\ \/ notice'[n] = notice[n]
                               \/ notice'[n].step = "lost" /\ notice'[n].sends = {}
    BY <1>0, <2>1 DEF NoticeTypes, NoticeSet
  <2>3. NoticeTypes'
    BY <1>0, <2>1, <2>2 DEF NoticeTypes
  <2>4. \A n \in Finishes : NoticeKept(n)'
    BY <1>0, <2>1, <2>2 DEF NoticeKept
  <2> QED  BY <2>3, <2>4 DEF NoticeInv
<1> QED  BY <1>1, <1>2, <1>3, <1>4, <1>5, <1>6, <1>7 DEF NoticeNext

\* For every number of runs, channels, processes and changes of the settings: a
\* channel is sent to at most once for a finished run and never when no
\* settings since wanted it, and once sending has begun, those that all settings
\* wanted have been sent to or are still being tried. An event that is lost
\* before is told to nobody.
THEOREM EventsAreToldAsWanted == NoticeSpec => []ToldAsWanted
<1>1. NoticeInv => ToldAsWanted
  <2> SUFFICES ASSUME NoticeInv, NEW n \in Finishes, NEW c \in Channels
               PROVE  /\ told[n][c] <= 1
                      /\ told[n][c] = 1 => c \in since[n].some
                      /\ notice[n].step = "sending" /\ c \in since[n].all =>
                           (told[n][c] = 1 <=> c \notin notice[n].sends)
    BY DEF ToldAsWanted
  <2>1. told[n][c] \in 0 .. 1
    BY DEF NoticeInv, NoticeTypes
  <2>2. NoticeKept(n)
    BY DEF NoticeInv
  <2>3. told[n][c] = 1 => c \notin notice[n].sends
    BY <2>2 DEF NoticeKept
  <2>4. notice[n].step = "sending" /\ c \in since[n].all => c \in notice[n].sends \/ told[n][c] = 1
    BY <2>2 DEF NoticeKept
  <2> QED  BY <2>1, <2>2, <2>3, <2>4 DEF NoticeKept
<1> QED  BY <1>1, NoticeInvInit, NoticeInvStep, PTL DEF NoticeSpec
=============================================================================
