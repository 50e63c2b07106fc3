------------------------------- MODULE WebProofs -------------------------------
(***************************************************************************)
(* Proofs about the pages: the cron builder, whose two views show what     *)
(* will be saved; the form of a node, whose refusals have a cause on the   *)
(* form; the page of a run, which ends up with the rows of the server; and *)
(* the flow editor, whose edges join nodes it has. For every sequence of   *)
(* inputs and answers, and every value typed. And about what is done with  *)
(* what the pages send: the validation of a flow misses no cycle, and an   *)
(* executor is given the parameters as written.                            *)
(***************************************************************************)
EXTENDS CronBuilder, NodeForm, RunView, FlowEditor, Params,
        SequenceTheorems, FiniteSetTheorems, WellFoundedInduction, TLAPS

-----------------------------------------------------------------------------
(* Numbers *)

LEMMA Induction ==
  ASSUME NEW S \in SUBSET Nat, 0 \in S, \A n \in S : n + 1 \in S
  PROVE  S = Nat
<1>1. PICK R : IsWellFoundedOn(R, Nat) /\ \A i, j \in Nat : i < j => <<i, j>> \in R
  BY NatLessThanWellFounded DEF OpToRel
<1> SUFFICES ASSUME Nat \ S # {} PROVE FALSE
  OBVIOUS
<1>2. \E m \in Nat \ S : \A n \in Nat \ S : ~ (<<n, m>> \in R)
  <2>1. IsWellFoundedOn(R, Nat) /\ Nat \ S \subseteq Nat  BY <1>1
  <2> QED  BY <2>1, WFMin
<1>3. PICK m \in Nat \ S : \A n \in Nat \ S : ~ (<<n, m>> \in R)
  BY <1>2
<1>4. m - 1 \in Nat /\ m - 1 < m  OBVIOUS
<1>5. m - 1 \in S  BY <1>1, <1>3, <1>4
<1> QED  BY <1>4, <1>5

LEMMA UpTo == ASSUME NEW n \in Nat PROVE IsFiniteSet(1 .. n) /\ Cardinality(1 .. n) = n
<1>1. 1 \in Int /\ n \in Int /\ (1 > n => n = 0) /\ n - 1 + 1 = n
  OBVIOUS
<1> QED  BY <1>1, FS_Interval

\* The least of some numbers.
LEMMA LeastIs ==
  ASSUME NEW A \in SUBSET Nat, A # {}
  PROVE  Min(A) \in A /\ \A k \in A : Min(A) <= k
<1>1. PICK R : IsWellFoundedOn(R, Nat) /\ \A a, b \in Nat : a < b => <<a, b>> \in R
  BY NatLessThanWellFounded DEF OpToRel
<1>2. \E m \in A : \A k \in A : ~ (<<k, m>> \in R)
  <2>1. IsWellFoundedOn(R, Nat) /\ A \subseteq Nat /\ A # {}
    BY <1>1
  <2> QED  BY <2>1, WFMin
<1>3. PICK m \in A : \A k \in A : ~ (<<k, m>> \in R)
  BY <1>2
<1>4. \A k \in A : k \in Nat /\ m \in Nat /\ ~(k < m)
  BY <1>1, <1>3
<1>5. \E x \in A : \A k \in A : x <= k
  BY <1>4
<1> QED  BY <1>5 DEF Min

\* The greatest of some numbers from 1 to n.
LEMMA GreatestIs ==
  ASSUME NEW n \in Nat, NEW A \in SUBSET (1 .. n), A # {}
  PROVE  Max(A) \in A /\ \A k \in A : Max(A) >= k
<1> DEFINE S == {m \in Nat : \A B \in SUBSET (1 .. m) : B # {} => \E x \in B : \A k \in B : x >= k}
<1>1. 0 \in S
  <2>1. 1 .. 0 = {}  OBVIOUS
  <2> QED  BY <2>1
<1>2. ASSUME NEW m \in S PROVE m + 1 \in S
  <2>1. m \in Nat /\ \A B \in SUBSET (1 .. m) : B # {} => \E x \in B : \A k \in B : x >= k
    OBVIOUS
  <2> HIDE DEF S
  <2>2. ASSUME NEW B \in SUBSET (1 .. m + 1), B # {} PROVE \E x \in B : \A k \in B : x >= k
    <3>1. CASE m + 1 \in B
      <4>1. \A k \in B : m + 1 >= k  BY <2>1
      <4> QED  BY <3>1, <4>1
    <3>2. CASE m + 1 \notin B
      <4>1. B \in SUBSET (1 .. m)  BY <2>1, <3>2
      <4> QED  BY <2>1, <2>2, <4>1
    <3> QED  BY <3>1, <3>2
  <2>3. m + 1 \in Nat  BY <2>1
  <2> QED  BY <2>2, <2>3 DEF S
<1> HIDE DEF S
<1>3. S \in SUBSET Nat  BY DEF S
<1>4. S = Nat  BY <1>1, <1>2, <1>3, Induction
<1>5. \E x \in A : \A k \in A : x >= k  BY <1>4 DEF S
<1> QED  BY <1>5 DEF Max

-----------------------------------------------------------------------------
(* The cron builder *)

SimpleViews ==
  [type : SimpleTypes, every : Nat, hour : Nat, minute : Nat, dow : Nat, dom : Nat]

\* The expression is the one the view of the present mode shows.
ShowsExpr ==
  /\ mode = "simple" /\ Len(expr) = 6 /\ (\A i \in 1 .. 6 : expr[i].kind # "steps") => expr = ToExpr(simple)
  /\ mode = "advanced" /\ Len(expr) = 6 => expr = fields6

CronTypes ==
  /\ expr \in Seq(CronFields) /\ mode \in {"simple", "advanced"} /\ simple \in SimpleViews
  /\ fields6 \in Seq(CronFields) /\ Len(fields6) = 6

CronInv == CronTypes /\ ShowsExpr

LEMMA FieldsAre ==
  /\ Star \in CronFields
  /\ \A n \in Nat : At(n) \in CronFields /\ Every(n) \in CronFields /\ StepList(n) \in CronFields
  /\ Span \in CronFields
BY DEF Star, At, Every, StepList, Span, CronFields

LEMMA SixFields ==
  ASSUME NEW S, NEW a \in S, NEW b \in S, NEW c \in S, NEW d \in S, NEW e \in S, NEW f \in S
  PROVE  <<a, b, c, d, e, f>> \in Seq(S) /\ Len(<<a, b, c, d, e, f>>) = 6
OBVIOUS

LEMMA SixElements ==
  ASSUME NEW S, NEW e \in Seq(S), Len(e) = 6
  PROVE  (\A i \in 1 .. 6 : e[i] \in S) /\ e = <<e[1], e[2], e[3], e[4], e[5], e[6]>>
<1>1. \A i \in 1 .. 6 : e[i] \in S
  BY ElementOfSeq
<1> DEFINE t == <<e[1], e[2], e[3], e[4], e[5], e[6]>>
<1>2. t \in Seq(S) /\ Len(t) = 6
  BY <1>1, SixFields
<1>3. \A i \in 1 .. 6 : t[i] = e[i]
  OBVIOUS
<1> HIDE DEF t
<1>4. e = t
  BY <1>2, <1>3, SeqEqual
<1> QED  BY <1>1, <1>4 DEF t

LEMMA LengthStays ==
  ASSUME NEW S, NEW n \in Nat, NEW s \in Seq(S), Len(s) = n, NEW i \in 1 .. n, NEW f \in S
  PROVE  [s EXCEPT ![i] = f] \in Seq(S) /\ Len([s EXCEPT ![i] = f]) = n
OBVIOUS

LEMMA ExprTyped == ASSUME NEW s \in SimpleViews PROVE ToExpr(s) \in Seq(CronFields)
<1>1. /\ s.type \in SimpleTypes /\ s.every \in Nat /\ s.hour \in Nat /\ s.minute \in Nat
      /\ s.dow \in Nat /\ s.dom \in Nat
  BY DEF SimpleViews
<1>2. /\ Star \in CronFields /\ At(0) \in CronFields /\ Every(s.every) \in CronFields
      /\ At(s.hour) \in CronFields /\ At(s.minute) \in CronFields
      /\ At(s.dow) \in CronFields /\ At(s.dom) \in CronFields
  BY <1>1, FieldsAre
<1> QED  BY <1>1, <1>2, SixFields DEF ToExpr, SimpleTypes

\* An expression that has the pattern of a simple type is read and written
\* back as it was, if none of its fields is a list.
LEMMA RoundTrip ==
  ASSUME NEW e \in Seq(CronFields), IsSimple(e)
  PROVE  /\ ParseSimple(e) \in SimpleViews
         /\ (\A i \in 1 .. 6 : e[i].kind # "steps") => ToExpr(ParseSimple(e)) = e
<1> DEFINE t == CHOOSE t \in MatchingTypes(e) : TRUE
<1>1. t \in MatchingTypes(e) /\ Len(e) = 6
  BY DEF IsSimple
<1> HIDE DEF t
<1>2. (\A i \in 1 .. 6 : e[i] \in CronFields) /\ e = <<e[1], e[2], e[3], e[4], e[5], e[6]>>
  BY <1>1, SixElements
<1>3. \A i \in 1 .. 6 : /\ e[i].n \in Nat
                        /\ e[i].kind = "every" => e[i] = Every(e[i].n)
                        /\ e[i].kind = "at" => e[i] = At(e[i].n)
                        /\ e[i].kind \in {"any", "at", "every", "steps", "range"}
  BY <1>2 DEF CronFields, Every, At
<1> DEFINE timed == t \in {"daily", "weekly", "monthly"}
           s == [type |-> t,
                 every |-> CASE t = "seconds" -> e[1].n [] t = "minutes" -> e[2].n
                             [] t = "hours" -> e[3].n [] OTHER -> 1,
                 hour |-> IF timed THEN e[3].n ELSE 0, minute |-> IF timed THEN e[2].n ELSE 0,
                 dow |-> IF t = "weekly" THEN e[6].n ELSE 1, dom |-> IF t = "monthly" THEN e[4].n ELSE 1]
<1>4. ParseSimple(e) = s
  BY DEF ParseSimple, t
<1>5. t \in SimpleTypes
  BY <1>1 DEF MatchingTypes
<1>6. s \in SimpleViews
  <2>1. /\ (CASE t = "seconds" -> e[1].n [] t = "minutes" -> e[2].n [] t = "hours" -> e[3].n [] OTHER -> 1) \in Nat
        /\ (IF timed THEN e[3].n ELSE 0) \in Nat /\ (IF timed THEN e[2].n ELSE 0) \in Nat
        /\ (IF t = "weekly" THEN e[6].n ELSE 1) \in Nat /\ (IF t = "monthly" THEN e[4].n ELSE 1) \in Nat
    BY <1>3
  <2> HIDE DEF timed
  <2> QED  BY <2>1, <1>5 DEF SimpleViews
<1>7. ASSUME \A i \in 1 .. 6 : e[i].kind # "steps" PROVE ToExpr(s) = e
  <2> USE DEF MatchingTypes, IsStep, IsAt
  <2>1. CASE t = "seconds"
    <3>1. e[1] = Every(e[1].n) /\ \A i \in 2 .. 6 : e[i] = Star  BY <1>1, <1>3, <1>7, <2>1
    <3> QED  BY <1>2, <2>1, <3>1 DEF ToExpr
  <2>2. CASE t = "minutes"
    <3>1. e[1] = At(0) /\ e[2] = Every(e[2].n) /\ \A i \in 3 .. 6 : e[i] = Star  BY <1>1, <1>3, <1>7, <2>2
    <3> QED  BY <1>2, <2>2, <3>1 DEF ToExpr
  <2>3. CASE t = "hours"
    <3>1. e[1] = At(0) /\ e[2] = At(0) /\ e[3] = Every(e[3].n) /\ \A i \in 4 .. 6 : e[i] = Star
      BY <1>1, <1>3, <1>7, <2>3
    <3> QED  BY <1>2, <2>3, <3>1 DEF ToExpr
  <2>4. CASE t = "daily"
    <3>1. e[1] = At(0) /\ e[2] = At(e[2].n) /\ e[3] = At(e[3].n) /\ \A i \in 4 .. 6 : e[i] = Star
      BY <1>1, <1>3, <2>4
    <3> QED  BY <1>2, <2>4, <3>1 DEF ToExpr
  <2>5. CASE t = "weekly"
    <3>1. /\ e[1] = At(0) /\ e[2] = At(e[2].n) /\ e[3] = At(e[3].n) /\ e[4] = Star /\ e[5] = Star
          /\ e[6] = At(e[6].n)
      BY <1>1, <1>3, <2>5
    <3> QED  BY <1>2, <2>5, <3>1 DEF ToExpr
  <2>6. CASE t = "monthly"
    <3>1. /\ e[1] = At(0) /\ e[2] = At(e[2].n) /\ e[3] = At(e[3].n) /\ e[4] = At(e[4].n)
          /\ e[5] = Star /\ e[6] = Star
      BY <1>1, <1>3, <2>6
    <3> QED  BY <1>2, <2>6, <3>1 DEF ToExpr
  <2> QED  BY <1>5, <2>1, <2>2, <2>3, <2>4, <2>5, <2>6 DEF SimpleTypes
<1> QED  BY <1>4, <1>6, <1>7

\* Whatever the expression, the builder shows it when it is opened.
LEMMA Opened ==
  ASSUME NEW e \in Seq(CronFields)
  PROVE  /\ ModeOf(e) \in {"simple", "advanced"} /\ SimpleOf(e) \in SimpleViews
         /\ FieldsOf(e) \in Seq(CronFields) /\ Len(FieldsOf(e)) = 6
         /\ Len(e) = 6 => FieldsOf(e) = e
         /\ ModeOf(e) = "simple" /\ (\A i \in 1 .. 6 : e[i].kind # "steps") => ToExpr(SimpleOf(e)) = e
<1>1. DefaultSimple \in SimpleViews
  BY DEF DefaultSimple, SimpleViews, SimpleTypes
<1>2. DefaultFields \in Seq(CronFields) /\ Len(DefaultFields) = 6
  BY FieldsAre, SixFields DEF DefaultFields
<1>3. CASE IsSimple(e)
  BY <1>3, <1>2, RoundTrip DEF ModeOf, SimpleOf, FieldsOf
<1>4. CASE ~ IsSimple(e)
  BY <1>4, <1>1, <1>2 DEF ModeOf, SimpleOf, FieldsOf
<1> QED  BY <1>3, <1>4

LEMMA CronInvInit == CronInit => CronInv
<1> SUFFICES ASSUME CronInit PROVE CronInv
  OBVIOUS
<1>1. expr \in Seq(CronFields)
  <2>1. ToExpr(DefaultSimple) \in Seq(CronFields)
    BY ExprTyped DEF DefaultSimple, SimpleViews, SimpleTypes
  <2>2. <<Every(5), Star, Star, Star, Star>> \in Seq(CronFields)
    BY FieldsAre
  <2> QED  BY <2>1, <2>2 DEF CronInit
<1> QED  BY <1>1, Opened DEF CronInit, CronInv, CronTypes, ShowsExpr

LEMMA CronInvStep == CronInv /\ [CronNext]_cronVars => CronInv'
<1> SUFFICES ASSUME CronInv, [CronNext]_cronVars PROVE CronInv'
  OBVIOUS
<1> USE DEF CronInv, CronTypes, ShowsExpr
<1>1. CASE UNCHANGED cronVars
  BY <1>1 DEF cronVars
<1>2. CASE Mount
  BY <1>2, Opened DEF Mount
<1>3. CASE SwitchToSimple
  BY <1>3, Opened, ExprTyped DEF SwitchToSimple
<1>4. CASE SwitchToAdvanced
  BY <1>4, Opened DEF SwitchToAdvanced
<1>5. ASSUME NEW patched \in SimpleViews, PatchSimple(patched) PROVE CronInv'
  BY <1>5, ExprTyped DEF PatchSimple
<1>6. ASSUME NEW t \in SimpleTypes, PatchSimple([simple EXCEPT !.type = t]) PROVE CronInv'
  <2>1. [simple EXCEPT !.type = t] \in SimpleViews
    BY DEF SimpleViews
  <2> QED  BY <1>5, <1>6, <2>1
<1>7. ASSUME NEW n \in Intervals, PatchSimple([simple EXCEPT !.every = n]) PROVE CronInv'
  <2>1. [simple EXCEPT !.every = n] \in SimpleViews
    BY CronAssumption DEF SimpleViews
  <2> QED  BY <1>5, <1>7, <2>1
<1>8. ASSUME NEW i \in 1 .. 6, NEW f \in Typed, PatchField(i, f) PROVE CronInv'
  <2> DEFINE g == [fields6 EXCEPT ![i] = f]
  <2>1. mode = "advanced" /\ fields6' = g /\ expr' = g /\ UNCHANGED <<mode, simple>>
    BY <1>8 DEF PatchField
  <2>2. g \in Seq(CronFields) /\ Len(g) = 6
    <3>1. f \in CronFields  BY CronAssumption
    <3>2. PICK n \in Nat : n = 6  OBVIOUS
    <3>3. Len(fields6) = n /\ i \in 1 .. n  BY <3>2
    <3>4. g \in Seq(CronFields) /\ Len(g) = n  BY <3>1, <3>3, LengthStays
    <3> QED  BY <3>2, <3>4
  <2> HIDE DEF g
  <2> QED  BY <2>1, <2>2
<1> QED  BY <1>1, <1>2, <1>3, <1>4, <1>6, <1>7, <1>8 DEF CronNext

\* The view the builder shows is the expression that will be saved, whatever
\* is typed, in whatever order the views are switched and opened again.
THEOREM BuilderShowsWhatIsSaved == CronSpec => []ShownIsSaved
<1>1. CronInv => ShownIsSaved
  BY DEF CronInv, CronTypes, ShowsExpr, ShownIsSaved
<1> QED  BY <1>1, CronInvInit, CronInvStep, PTL DEF CronSpec

-----------------------------------------------------------------------------
(* The form of a node *)

Numbered == {"positive", "zero"}

FormValues ==
  /\ type \in Types
  /\ texts \in [{"id", "name"} -> FormTexts]
  /\ tools \in Seq(FormTexts) /\ dates \in Seq(FormTexts)
  /\ \A n \in DOMAIN numbers : numbers[n] \in Numbered

\* Of an executor of type t with fields f: a field that must be there is, and
\* one that may be left out is never empty.
Fits(t, f) ==
  /\ Required[t] \subseteq DOMAIN f
  /\ DOMAIN f \subseteq Required[t] \union Optional[t]
  /\ \A x \in DOMAIN f : f[x] \in FieldTexts
  /\ \A x \in DOMAIN f \ Required[t] : f[x] = "text"

FieldsKept == Fits(type, fields)

FormInv == FormValues /\ FieldsKept

\* The form and the schema agree on what there must be.
LEMMA SchemaFitsForm == \A t \in Types : Schema[t].has \subseteq Required[t]
BY DEF Types, Schema, HttpSchema, K8sSchema, SubflowSchema, ScriptSchema, LlmSchema, BatchSchema,
       Required, Panel, HttpPanel, K8sPanel, SubflowPanel, ScriptPanel, LlmPanel, BatchPanel

LEMMA RestrictedIs ==
  ASSUME NEW f, NEW S
  PROVE  DOMAIN Restrict(f, S) = S /\ \A x \in S : Restrict(f, S)[x] = f[x]
BY DEF Restrict

LEMMA DefaultFits ==
  ASSUME NEW t \in Types
  PROVE  Fits(t, Default(t))
<1>1. t = "llm" => "model" \in Optional[t]
  BY DEF Types, Optional, Panel, LlmPanel
<1>2. t = "subflow" => Required[t] = {"flowId"}
  BY DEF Types, Required, Panel, SubflowPanel
<1> QED  BY <1>1, <1>2 DEF Default, FieldTexts, FormTexts, Fits

\* An http executor cannot be without its URL, and no other has one.
LEMMA UrlIsRequired == \A t \in Types : "url" \in Required[t] \union Optional[t] => "url" \in Required[t]
BY DEF Types, Required, Optional, Panel, HttpPanel, K8sPanel, SubflowPanel, ScriptPanel, LlmPanel, BatchPanel

LEMMA PatchedFits ==
  ASSUME NEW t, NEW g, Fits(t, g), NEW k \in Required[t] \union Optional[t]
  PROVE  /\ Fits(t, With(g, k, "text"))
         /\ \A v \in FieldTexts : k \in Required[t] => Fits(t, With(g, k, v))
BY DEF Fits, With, FieldTexts, FormTexts

LEMMA RestrictedFits ==
  ASSUME NEW t, NEW g, Fits(t, g), NEW k \in DOMAIN g \ Required[t]
  PROVE  Fits(t, Restrict(g, DOMAIN g \ {k}))
BY DEF Fits, Restrict

LEMMA FormInvInit == FormInit => FormInv
<1> SUFFICES ASSUME FormInit PROVE FormInv
  OBVIOUS
<1>1. "http" \in Types  BY DEF Types
<1>2. FieldsKept  BY <1>1, DefaultFits DEF FormInit, FieldsKept
<1>3. FormValues  BY <1>1 DEF FormInit, FormValues, FormTexts
<1> QED  BY <1>2, <1>3 DEF FormInv

LEMMA SequencesStay ==
  ASSUME NEW S, NEW s \in Seq(S), NEW v \in S
  PROVE  /\ Append(s, v) \in Seq(S)
         /\ \A i \in DOMAIN s : RemoveAt(s, i) \in Seq(S) /\ [s EXCEPT ![i] = v] \in Seq(S)
<1>1. Append(s, v) \in Seq(S)
  OBVIOUS
<1>2. ASSUME NEW i \in DOMAIN s PROVE [s EXCEPT ![i] = v] \in Seq(S)
  BY <1>2
<1>3. ASSUME NEW i \in DOMAIN s PROVE RemoveAt(s, i) \in Seq(S)
  <2>1. SubSeq(s, 1, i - 1) \in Seq(S) /\ SubSeq(s, i + 1, Len(s)) \in Seq(S)
    BY <1>3
  <2> QED  BY <2>1 DEF RemoveAt
<1> QED  BY <1>1, <1>2, <1>3

LEMMA FormInvStep == FormInv /\ [FormNext]_formVars => FormInv'
<1> SUFFICES ASSUME FormInv, [FormNext]_formVars PROVE FormInv'
  OBVIOUS
<1> USE DEF FormInv
<1>0. "text" \in FormTexts /\ "empty" \in FormTexts
  BY DEF FormTexts
<1>1. CASE UNCHANGED formVars
  BY <1>1 DEF formVars, FormValues, FieldsKept
<1>2. ASSUME NEW t \in DOMAIN texts, NEW v \in FormTexts, TypeText(t, v) PROVE FormInv'
  <2>1. texts' \in [{"id", "name"} -> FormTexts]
    BY <1>2 DEF TypeText, FormValues
  <2>2. UNCHANGED <<type, fields, tools, dates, numbers, waits>>
    BY <1>2 DEF TypeText
  <2> QED  BY <2>1, <2>2 DEF FormValues, FieldsKept
<1>3. ASSUME NEW t \in FormTypes, SwitchType(t) PROVE FormInv'
  <2>1. t \in Types /\ type' = t /\ fields' = Default(t) /\ UNCHANGED <<texts, dates>>
    BY <1>3, FormAssumption DEF SwitchType
  <2>2. FieldsKept'
    BY <2>1, DefaultFits DEF FieldsKept
  <2>3. \A n \in DOMAIN numbers' : numbers'[n] \in Numbered
    BY <1>3, RestrictedIs DEF SwitchType, FormValues
  <2>4. tools' \in Seq(FormTexts)
    BY <1>3 DEF SwitchType
  <2> QED  BY <2>1, <2>2, <2>3, <2>4 DEF FormValues
<1>4. ASSUME NEW f \in Required[type] \union Optional[type], NEW v \in {"text", "malformed"},
             EnterField(f, v)
      PROVE  FormInv'
  <2>1. /\ fields' = With(fields, f, v) /\ UNCHANGED <<texts, type, tools, dates, numbers, waits>>
        /\ v = "malformed" => f = "url"
    BY <1>4 DEF EnterField
  <2>2. v # "text" => v \in FieldTexts /\ f \in Required[type]
    BY <1>4, <2>1, UrlIsRequired DEF FormValues, FieldTexts
  <2>3. Fits(type, With(fields, f, v))
    BY <2>2, PatchedFits DEF FieldsKept
  <2>4. FieldsKept'
    BY <2>1, <2>3 DEF FieldsKept
  <2> QED  BY <2>1, <2>4 DEF FormValues
<1>5. ASSUME NEW f \in Required[type] \union Optional[type], ClearField(f) PROVE FormInv'
  <2>1. f \in DOMAIN fields /\ UNCHANGED <<texts, type, tools, dates, numbers, waits>>
    BY <1>5 DEF ClearField
  <2>2. CASE f \in Required[type]
    <3>1. fields' = With(fields, f, "empty")  BY <1>5, <2>2 DEF ClearField
    <3>2. FieldsKept'  BY <2>1, <2>2, <3>1, PatchedFits DEF FieldsKept, FieldTexts, FormTexts
    <3> QED  BY <2>1, <3>2 DEF FormValues
  <2>3. CASE f \notin Required[type]
    <3>1. fields' = Restrict(fields, DOMAIN fields \ {f})  BY <1>5, <2>3 DEF ClearField
    <3>2. FieldsKept'  BY <2>1, <2>3, <3>1, RestrictedFits DEF FieldsKept
    <3> QED  BY <2>1, <3>2 DEF FormValues
  <2> QED  BY <2>2, <2>3
<1>6. ASSUME tools' \in Seq(FormTexts), UNCHANGED <<texts, type, fields, dates, numbers, waits>>
      PROVE  FormInv'
  BY <1>6 DEF FormValues, FieldsKept
<1>14. CASE AddTool
  <2>1. tools' = Append(tools, "empty")  BY <1>14 DEF AddTool
  <2>2. tools' \in Seq(FormTexts)  BY <1>0, <2>1, SequencesStay DEF FormValues
  <2> QED  BY <1>6, <1>14, <2>2 DEF AddTool
<1>15. ASSUME NEW i \in DOMAIN tools, RemoveTool(i) PROVE FormInv'
  <2>1. tools' = RemoveAt(tools, i)  BY <1>15 DEF RemoveTool
  <2>2. tools' \in Seq(FormTexts)  BY <1>0, <2>1, SequencesStay DEF FormValues
  <2> QED  BY <1>6, <1>15, <2>2 DEF RemoveTool
<1>16. ASSUME NEW i \in DOMAIN tools, NEW v \in FormTexts, PatchTool(i, v) PROVE FormInv'
  <2>1. tools' = [tools EXCEPT ![i] = v]  BY <1>16 DEF PatchTool
  <2>2. tools' \in Seq(FormTexts)  BY <2>1, SequencesStay DEF FormValues
  <2> QED  BY <1>6, <1>16, <2>2 DEF PatchTool
<1>7. ASSUME NEW s \in Seq(FormTexts), SetDates(s) PROVE FormInv'
  BY <1>7 DEF SetDates, FormValues, FieldsKept
<1>8. ASSUME NEW i \in DOMAIN dates, SetDates(RemoveAt(dates, i)) PROVE FormInv'
  <2>1. RemoveAt(dates, i) \in Seq(FormTexts)
    BY <1>0, SequencesStay DEF FormValues
  <2> QED  BY <1>7, <1>8, <2>1
<1>9. ASSUME NEW i \in DOMAIN dates, NEW v \in FormTexts, SetDates([dates EXCEPT ![i] = v]) PROVE FormInv'
  <2>1. [dates EXCEPT ![i] = v] \in Seq(FormTexts)
    BY SequencesStay DEF FormValues
  <2> QED  BY <1>7, <1>9, <2>1
<1>10. ASSUME SetDates(Append(dates, "empty")) PROVE FormInv'
  <2>1. Append(dates, "empty") \in Seq(FormTexts)
    BY <1>0, SequencesStay DEF FormValues
  <2> QED  BY <1>7, <1>10, <2>1
<1>11. ASSUME NEW n \in NumberFields, NEW v \in Numbered, EnterNumber(n, v) PROVE FormInv'
  <2>1. numbers' = With(numbers, n, v) /\ UNCHANGED <<texts, type, fields, tools, dates, waits>>
    BY <1>11 DEF EnterNumber
  <2>2. \A m \in DOMAIN numbers' : numbers'[m] \in Numbered
    BY <2>1 DEF FormValues, With
  <2> QED  BY <2>1, <2>2 DEF FormValues, FieldsKept
<1>12. ASSUME NEW n \in NumberFields, ClearNumber(n) PROVE FormInv'
  BY <1>12, RestrictedIs DEF ClearNumber, FormValues, FieldsKept
<1>13. ASSUME NEW w \in BOOLEAN, SetCompletion(w) PROVE FormInv'
  BY <1>13 DEF SetCompletion, FormValues, FieldsKept
<1> QED
  BY <1>1, <1>2, <1>3, <1>4, <1>5, <1>8, <1>9, <1>10, <1>11, <1>12, <1>13, <1>14, <1>15, <1>16
  DEF FormNext, Numbered

\* A node that the server refuses has a cause on the form, whatever is typed,
\* cleared and switched: an empty text, a URL that is none or a zero. What may
\* be left out never refuses it.
THEOREM RefusalsAreExplained == FormSpec => []RefusalExplained
<1>1. FormInv => RefusalExplained
  <2> SUFFICES ASSUME FormInv,
                      \A t \in DOMAIN texts : texts[t] # "empty",
                      \A f \in Required[type] : fields[f] \notin {"empty", "malformed"},
                      \A s \in {tools, dates} : \A i \in DOMAIN s : s[i] # "empty",
                      \A n \in DOMAIN numbers : numbers[n] # "zero"
               PROVE  NodeAccepted
    BY DEF RefusalExplained
  <2>1. Schema[type].has \subseteq DOMAIN fields
    BY SchemaFitsForm DEF FormInv, FormValues, FieldsKept, Fits
  <2>2. \A f \in DOMAIN fields : fields[f] = "text"
    BY DEF FormInv, FieldsKept, Fits, FieldTexts, FormTexts
  <2>3. \A s \in {tools, dates} : \A i \in DOMAIN s : s[i] = "text"
    <3>1. ASSUME NEW s \in Seq(FormTexts), NEW i \in DOMAIN s PROVE s[i] \in FormTexts
      BY <3>1
    <3>2. \A s \in {tools, dates} : s \in Seq(FormTexts)
      BY DEF FormInv, FormValues
    <3> QED  BY <3>1, <3>2 DEF FormTexts
  <2>4. \A t \in DOMAIN texts : texts[t] = "text"
    BY DEF FormInv, FormValues, FormTexts
  <2>5. \A n \in DOMAIN numbers : numbers[n] = "positive"
    BY DEF FormInv, FormValues, Numbered
  <2> QED  BY <2>1, <2>2, <2>3, <2>4, <2>5 DEF NodeAccepted, ExecutorAccepted
<1> QED  BY <1>1, FormInvInit, FormInvStep, PTL DEF FormSpec

-----------------------------------------------------------------------------
(* The page of a run *)

RowStates == [Fields -> Nat]
RowEvents == [run : ViewedRuns, field : Fields, value : Nat]
Requests == [view : Views, run : ViewedRuns, got : RowStates \union {NoRow}]

\* A sheet that is closed hears nothing; the overlay shows an instance as it was
\* last told of.
ViewTypes ==
  /\ row \in [ViewedRuns -> RowStates]
  /\ selected \in ViewedRuns \union {NoRow}
  /\ untold \subseteq RowEvents /\ inbox \in [Streamers -> Seq(RowEvents)]
  /\ latest \in [Instances -> Nat \union {NoRow}]
  /\ fetches \in Seq(Requests)
  /\ DOMAIN view = Views
  /\ (selected = NoRow => inbox["sheet"] = << >>)

OverlayIs ==
  \/ view["overlay"] = NoRow /\ latest = [k \in Instances |-> NoRow]
  \/ \E k \in Instances : view["overlay"] = <<k, latest[k]>>

\* An event tells of a value that the row has or has had.
ToldOf(e) == e.value <= row[e.run][e.field]
EventsTrue ==
  /\ \A e \in untold : ToldOf(e)
  /\ \A i \in DOMAIN inbox["page"] : ToldOf(inbox["page"][i])

\* Of an answer g: it is what view v has to show of the row r, the overlay of
\* instance k.
Current(v, k, g, r) == IF v = "sheet" THEN g = r ELSE g[k] = r[k]

\* The requests s of view v, when run n with row r is selected: one is for
\* another run, or the last is answered with the row as it is.
Coming(s, v, k, n, r) ==
  \/ \E i \in DOMAIN s : s[i].view = v /\ s[i].run # n
  \/ \E i \in DOMAIN s :
       /\ s[i].view = v /\ (s[i].got = NoRow \/ Current(v, k, s[i].got, r))
       /\ \A j \in DOMAIN s : j > i => s[j].view # v

NoneAsked(s, v) == \A i \in DOMAIN s : s[i].view # v

\* An event is on its way: for the overlay, the one that has the value of
\* instance k.
News(v, k) ==
  IF v = "sheet" THEN (\E e \in untold : e.run = selected) \/ inbox["sheet"] # << >>
  ELSE \E e \in untold \union {inbox["page"][i] : i \in DOMAIN inbox["page"]} :
         e.run = selected /\ e.field = k /\ e.value = row[selected][k]

ShownNow(v, k) ==
  IF v = "sheet" THEN view["sheet"] = <<selected, row[selected]>>
  ELSE latest[k] = row[selected][k]

WillSettle(v, k) ==
  selected # NoRow /\ v \notin misled =>
    \/ News(v, k)
    \/ Coming(fetches, v, k, selected, row[selected])
    \/ NoneAsked(fetches, v) /\ ShownNow(v, k)

ViewInv ==
  /\ ViewTypes /\ OverlayIs /\ EventsTrue
  /\ WillSettle("sheet", "status") /\ \A k \in Instances : WillSettle("overlay", k)

LEMMA OneAppended ==
  ASSUME NEW S, NEW s \in Seq(S), NEW q \in S
  PROVE  /\ s \o <<q>> \in Seq(S) /\ DOMAIN (s \o <<q>>) = DOMAIN s \union {Len(s) + 1}
         /\ (s \o <<q>>)[Len(s) + 1] = q
         /\ \A i \in DOMAIN s : (s \o <<q>>)[i] = s[i]
OBVIOUS

LEMMA TwoAppended ==
  ASSUME NEW S, NEW s \in Seq(S), NEW a \in S, NEW b \in S
  PROVE  s \o <<a, b>> = (s \o <<a>>) \o <<b>>
<1>1. <<a>> \in Seq(S) /\ <<b>> \in Seq(S)
  OBVIOUS
<1>2. <<a, b>> = Append(<<a>>, b)
  OBVIOUS
<1>3. Append(<<a>>, b) = <<a>> \o <<b>>
  BY <1>1, AppendIsConcat
<1> QED  BY <1>1, <1>2, <1>3, ConcatAssociative

LEMMA OneRemoved ==
  ASSUME NEW S, NEW s \in Seq(S), NEW k \in DOMAIN s
  PROVE  /\ RemoveAt(s, k) \in Seq(S) /\ DOMAIN RemoveAt(s, k) = 1 .. (Len(s) - 1)
         /\ \A i \in 1 .. (Len(s) - 1) : RemoveAt(s, k)[i] = s[IF i < k THEN i ELSE i + 1]
<1> DEFINE a == SubSeq(s, 1, k - 1)  b == SubSeq(s, k + 1, Len(s))
<1>1. Len(s) \in Nat /\ k \in 1 .. Len(s) /\ \A i \in 1 .. Len(s) : s[i] \in S
  OBVIOUS
<1>2. a \in Seq(S) /\ Len(a) = k - 1 /\ \A i \in 1 .. k - 1 : a[i] = s[i]
  <2>1. \A i \in 1 .. k - 1 : s[i] \in S  BY <1>1
  <2>2. 1 \in Int /\ k - 1 \in Int  BY <1>1
  <2> QED  BY <1>1, <2>1, <2>2, SubSeqProperties
<1>3. b \in Seq(S) /\ Len(b) = Len(s) - k /\ \A i \in 1 .. Len(s) - k : b[i] = s[k + i]
  <2>1. \A i \in k + 1 .. Len(s) : s[i] \in S  BY <1>1
  <2>2. k + 1 \in Int /\ Len(s) \in Int  BY <1>1
  <2>3. b \in Seq(S) /\ Len(b) = (IF k + 1 <= Len(s) THEN Len(s) - (k + 1) + 1 ELSE 0)
        /\ \A i \in 1 .. Len(s) - (k + 1) + 1 : b[i] = s[(k + 1) + i - 1]
    BY <2>1, <2>2, SubSeqProperties
  <2> HIDE DEF b
  <2> QED  BY <1>1, <2>3, SMTT(40)
<1>4. RemoveAt(s, k) = a \o b
  BY DEF RemoveAt
<1> HIDE DEF a, b
<1>5. /\ a \o b \in Seq(S) /\ Len(a \o b) = Len(a) + Len(b)
      /\ \A i \in 1 .. Len(a) + Len(b) : (a \o b)[i] = IF i <= Len(a) THEN a[i] ELSE b[i - Len(a)]
  BY <1>2, <1>3, ConcatProperties
<1>6. Len(a \o b) = Len(s) - 1 /\ DOMAIN (a \o b) = 1 .. Len(s) - 1
  BY <1>1, <1>2, <1>3, <1>5
<1>7. ASSUME NEW i \in 1 .. (Len(s) - 1) PROVE (a \o b)[i] = s[IF i < k THEN i ELSE i + 1]
  <2>1. (a \o b)[i] = IF i <= k - 1 THEN a[i] ELSE b[i - (k - 1)]
    <3>1. i \in 1 .. Len(a) + Len(b)
      BY <1>1, <1>2, <1>3
    <3>2. (a \o b)[i] = IF i <= Len(a) THEN a[i] ELSE b[i - Len(a)]
      BY <1>5, <3>1
    <3> QED  BY <1>2, <3>2
  <2>2. CASE i < k
    BY <1>1, <1>2, <2>1, <2>2
  <2>3. CASE ~ i < k
    <3>1. i - (k - 1) \in 1 .. Len(s) - k /\ k + (i - (k - 1)) = i + 1
      BY <1>1, <2>3
    <3>2. (a \o b)[i] = b[i - (k - 1)]
      BY <1>1, <2>1, <2>3
    <3>3. b[i - (k - 1)] = s[k + (i - (k - 1))]
      BY <1>3, <3>1
    <3> QED  BY <2>3, <3>1, <3>2, <3>3
  <2> QED  BY <2>2, <2>3
<1> QED  BY <1>4, <1>5, <1>6, <1>7

\* A request that is sent is the last of its view.
LEMMA ComingWithNew ==
  ASSUME NEW s \in Seq(Requests), NEW q \in Requests, NEW v, NEW x, NEW n, NEW r
  PROVE  /\ q.view = v /\ q.got = NoRow => Coming(s \o <<q>>, v, x, n, r)
         /\ q.view # v /\ Coming(s, v, x, n, r) => Coming(s \o <<q>>, v, x, n, r)
         /\ q.view # v /\ NoneAsked(s, v) => NoneAsked(s \o <<q>>, v)
<1> DEFINE t == s \o <<q>>  l == Len(s) + 1
<1>1. /\ DOMAIN t = DOMAIN s \union {l} /\ t[l] = q
      /\ \A i \in DOMAIN s : t[i] = s[i]
  BY OneAppended
<1>2. \A i \in DOMAIN s : i \in Nat /\ i < l
  OBVIOUS
<1>3. l \in Nat
  OBVIOUS
<1> HIDE DEF t, l
<1>4. q.view = v /\ q.got = NoRow => Coming(t, v, x, n, r)
  BY <1>1, <1>2, <1>3 DEF Coming
<1>5. q.view # v /\ Coming(s, v, x, n, r) => Coming(t, v, x, n, r)
  BY <1>1, <1>2, <1>3 DEF Coming
<1>6. q.view # v /\ NoneAsked(s, v) => NoneAsked(t, v)
  BY <1>1 DEF NoneAsked
<1> QED  BY <1>4, <1>5, <1>6 DEF t

\* The answer to the first request of a view leaves the last one, or is it.
LEMMA ComingWithout ==
  ASSUME NEW s \in Seq(Requests), NEW k \in DOMAIN s, NEW v, NEW x, NEW n, NEW r
  PROVE  /\ s[k].view # v /\ Coming(s, v, x, n, r) => Coming(RemoveAt(s, k), v, x, n, r)
         /\ s[k].view # v /\ NoneAsked(s, v) => NoneAsked(RemoveAt(s, k), v)
         /\ (/\ s[k].view = v /\ s[k].run = n /\ s[k].got # NoRow /\ Coming(s, v, x, n, r)
             /\ \A j \in 1 .. k - 1 : s[j].view # v) =>
              \/ Coming(RemoveAt(s, k), v, x, n, r)
              \/ NoneAsked(RemoveAt(s, k), v) /\ Current(v, x, s[k].got, r)
<1> DEFINE t == RemoveAt(s, k)  l == Len(s) - 1
<1>1. DOMAIN t = 1 .. l /\ \A i \in 1 .. l : t[i] = s[IF i < k THEN i ELSE i + 1]
  BY OneRemoved
<1>2. DOMAIN s = 1 .. l + 1 /\ l \in Nat /\ k \in 1 .. l + 1
  OBVIOUS
<1> HIDE DEF t, l
<1>3. ASSUME NEW i \in DOMAIN s, i # k
      PROVE  \E h \in DOMAIN t : t[h] = s[i] /\ h = (IF i < k THEN i ELSE i - 1)
  <2> DEFINE h == IF i < k THEN i ELSE i - 1
  <2>1. h \in 1 .. l /\ (IF h < k THEN h ELSE h + 1) = i
    BY <1>2, <1>3
  <2> QED  BY <1>1, <2>1
<1>4. ASSUME NEW h \in DOMAIN t
      PROVE  \E i \in DOMAIN s : i # k /\ t[h] = s[i] /\ i = (IF h < k THEN h ELSE h + 1)
  <2> DEFINE i == IF h < k THEN h ELSE h + 1
  <2>1. h \in 1 .. l /\ i \in 1 .. l + 1 /\ i # k
    BY <1>1, <1>2, <1>4
  <2> QED  BY <1>1, <1>2, <2>1
<1>5. ASSUME NEW i \in DOMAIN s, i # k, s[i].view = v, s[i].run # n
      PROVE  Coming(t, v, x, n, r)
  BY <1>3, <1>5 DEF Coming
<1>6. ASSUME NEW i \in DOMAIN s, i # k, s[i].view = v, s[i].got = NoRow \/ Current(v, x, s[i].got, r),
             \A j \in DOMAIN s : j > i => s[j].view # v
      PROVE  Coming(t, v, x, n, r)
  <2>1. PICK h \in DOMAIN t : t[h] = s[i] /\ h = (IF i < k THEN i ELSE i - 1)
    BY <1>3, <1>6
  <2>2. ASSUME NEW j \in DOMAIN t, j > h PROVE t[j].view # v
    <3>1. PICK m \in DOMAIN s : m # k /\ t[j] = s[m] /\ m = (IF j < k THEN j ELSE j + 1)
      BY <1>4
    <3>2. m > i
      BY <1>1, <1>2, <1>6, <2>1, <2>2, <3>1
    <3> QED  BY <1>6, <3>1, <3>2
  <2> QED  BY <1>6, <2>1, <2>2 DEF Coming
<1>7. s[k].view # v /\ Coming(s, v, x, n, r) => Coming(t, v, x, n, r)
  BY <1>5, <1>6 DEF Coming
<1>8. s[k].view # v /\ NoneAsked(s, v) => NoneAsked(t, v)
  BY <1>4 DEF NoneAsked
<1>9. ASSUME s[k].view = v, s[k].run = n, s[k].got # NoRow, Coming(s, v, x, n, r),
             \A j \in 1 .. k - 1 : s[j].view # v
      PROVE  Coming(t, v, x, n, r) \/ (NoneAsked(t, v) /\ Current(v, x, s[k].got, r))
  <2>1. CASE \E i \in DOMAIN s : s[i].view = v /\ s[i].run # n
    BY <1>5, <1>9, <2>1
  <2>2. ASSUME NEW i \in DOMAIN s, s[i].view = v, s[i].got = NoRow \/ Current(v, x, s[i].got, r),
               \A j \in DOMAIN s : j > i => s[j].view # v
        PROVE  Coming(t, v, x, n, r) \/ (NoneAsked(t, v) /\ Current(v, x, s[k].got, r))
    <3>1. CASE i # k
      BY <1>6, <2>2, <3>1
    <3>2. CASE i = k
      <4>1. \A j \in DOMAIN s : j # k => s[j].view # v
        BY <1>2, <1>9, <2>2, <3>2
      <4>2. NoneAsked(t, v)
        BY <1>4, <4>1 DEF NoneAsked
      <4> QED  BY <1>9, <2>2, <3>2, <4>2
    <3> QED  BY <3>1, <3>2
  <2> QED  BY <1>9, <2>1, <2>2 DEF Coming
<1> QED  BY <1>7, <1>8, <1>9 DEF t

LEMMA ComingWhenRead ==
  ASSUME NEW s \in Seq(Requests), NEW k \in DOMAIN s, NEW v, NEW x, NEW n, NEW r, NEW g,
         s[k].run = n => g = r
  PROVE  /\ Coming(s, v, x, n, r) => Coming([s EXCEPT ![k].got = g], v, x, n, r)
         /\ NoneAsked(s, v) => NoneAsked([s EXCEPT ![k].got = g], v)
<1> DEFINE t == [s EXCEPT ![k].got = g]
<1>1. DOMAIN t = DOMAIN s
  OBVIOUS
<1>2. \A i \in DOMAIN s : s[i] \in Requests
  OBVIOUS
<1>3. \A i \in DOMAIN s : /\ t[i].view = s[i].view /\ t[i].run = s[i].run
                          /\ t[i].got = IF i = k THEN g ELSE s[i].got
  BY <1>2 DEF Requests
<1> HIDE DEF t
<1>4. Coming(s, v, x, n, r) => Coming(t, v, x, n, r)
  <2>1. ASSUME NEW i \in DOMAIN s, s[i].got = NoRow \/ Current(v, x, s[i].got, r), s[i].run = n
        PROVE  t[i].got = NoRow \/ Current(v, x, t[i].got, r)
    BY <1>3, <2>1 DEF Current
  <2>2. ASSUME NEW i \in DOMAIN s, s[i].view = v, s[i].run # n PROVE Coming(t, v, x, n, r)
    BY <1>1, <1>3, <2>2 DEF Coming
  <2>3. ASSUME NEW i \in DOMAIN s, s[i].view = v, s[i].got = NoRow \/ Current(v, x, s[i].got, r), s[i].run = n,
               \A j \in DOMAIN s : j > i => s[j].view # v
        PROVE  Coming(t, v, x, n, r)
    BY <1>1, <1>3, <2>1, <2>3 DEF Coming
  <2> QED  BY <2>2, <2>3 DEF Coming
<1>5. NoneAsked(s, v) => NoneAsked(t, v)
  BY <1>1, <1>3 DEF NoneAsked
<1> QED  BY <1>4, <1>5 DEF t

LEMMA ViewNames ==
  /\ Views = {"overlay", "sheet"} /\ Streamers = {"page", "sheet"}
  /\ \A e : ViewsOf(e, "sheet") = {"sheet"}
  /\ \A e : e.field \in Instances /\ e.run = selected => ViewsOf(e, "page") = {"overlay"}
  /\ \A e : Concerns(e, "page") /\ (Concerns(e, "sheet") <=> e.run = selected)
BY DEF Views, Streamers, ViewsOf, Concerns

\* What a row that grows leaves: events are true of it still.
LEMMA GrownRow ==
  ASSUME ViewInv, NEW r \in ViewedRuns, NEW f \in Fields, row' = [row EXCEPT ![r][f] = @ + 1]
  PROVE  /\ row' \in [ViewedRuns -> RowStates] /\ row[r][f] \in Nat /\ row'[r][f] = row[r][f] + 1
         /\ \A n \in ViewedRuns : n # r => row'[n] = row[n]
         /\ \A h \in Fields : h # f => row'[r][h] = row[r][h]
         /\ \A e \in RowEvents : ToldOf(e) => ToldOf(e)'
<1>1. row \in [ViewedRuns -> RowStates]
  BY DEF ViewInv, ViewTypes
<1>2. row[r] \in [Fields -> Nat]
  BY <1>1 DEF RowStates
<1>3. row' = [row EXCEPT ![r] = [row[r] EXCEPT ![f] = row[r][f] + 1]]
  OBVIOUS
<1>4. PICK new : new = [row[r] EXCEPT ![f] = row[r][f] + 1]
  OBVIOUS
<1>5. /\ new \in [Fields -> Nat] /\ row[r][f] \in Nat /\ new[f] = row[r][f] + 1
      /\ \A h \in Fields : h # f => new[h] = row[r][h]
  BY <1>2, <1>4
<1>6. row' = [row EXCEPT ![r] = new]
  BY <1>3, <1>4
<1>7. row' \in [ViewedRuns -> RowStates] /\ row'[r] = new /\ \A n \in ViewedRuns : n # r => row'[n] = row[n]
  BY <1>1, <1>5, <1>6 DEF RowStates
<1>8. ASSUME NEW e \in RowEvents, ToldOf(e) PROVE ToldOf(e)'
  <2>1. e.run \in ViewedRuns /\ e.field \in Fields /\ e.value \in Nat
    BY DEF RowEvents
  <2>2. row[e.run] \in [Fields -> Nat] /\ row'[e.run] \in [Fields -> Nat]
    BY <1>1, <1>7, <2>1 DEF RowStates
  <2>3. row[e.run][e.field] \in Nat /\ row'[e.run][e.field] \in Nat
    BY <2>1, <2>2
  <2>4. row[e.run][e.field] <= row'[e.run][e.field]
    <3>1. CASE e.run # r
      BY <1>7, <2>1, <2>3, <3>1
    <3>2. CASE e.run = r /\ e.field # f
      BY <1>5, <1>7, <2>1, <2>3, <3>2
    <3>3. CASE e.run = r /\ e.field = f
      BY <1>5, <1>7, <2>3, <3>3
    <3> QED  BY <3>1, <3>2, <3>3
  <2> QED  BY <1>8, <2>1, <2>3, <2>4 DEF ToldOf
<1> QED  BY <1>5, <1>7, <1>8

\* A row changes and the event of it has yet to be published.
LEMMA ChangedRow ==
  ASSUME ViewInv, NEW r \in ViewedRuns, NEW f \in Fields, Write(r, f)
  PROVE  ViewInv'
<1>0. PICK e : e = [run |-> r, field |-> f, value |-> row[r][f] + 1]
  OBVIOUS
<1>1. /\ untold' = untold \union {e} /\ row' = [row EXCEPT ![r][f] = @ + 1]
      /\ UNCHANGED <<selected, inbox, fetches, view, latest, misled>>
  BY <1>0 DEF ChangeRow, Write
<1>2. /\ row' \in [ViewedRuns -> RowStates] /\ row[r][f] \in Nat /\ row'[r][f] = row[r][f] + 1
      /\ \A n \in ViewedRuns : n # r => row'[n] = row[n]
      /\ \A h \in Fields : h # f => row'[r][h] = row[r][h]
      /\ \A x \in RowEvents : ToldOf(x) => ToldOf(x)'
  BY <1>1, GrownRow
<1>3. e \in RowEvents /\ e.run = r /\ e.field = f /\ e.value = row'[r][f]
  BY <1>0, <1>2 DEF RowEvents
<1>4. ViewTypes' /\ OverlayIs'
  BY <1>1, <1>2, <1>3 DEF ViewInv, ViewTypes, OverlayIs
<1>5. EventsTrue'
  <2>1. \A i \in DOMAIN inbox["page"] : inbox["page"][i] \in RowEvents
    BY ViewNames DEF ViewInv, ViewTypes
  <2>2. untold \subseteq RowEvents /\ EventsTrue
    BY DEF ViewInv, ViewTypes
  <2>3. ToldOf(e)'
    <3>1. e.value <= row'[e.run][e.field]
      BY <1>2, <1>3
    <3> QED  BY <1>0, <3>1 DEF ToldOf
  <2>4. \A x \in untold' : ToldOf(x)'
    BY <1>1, <1>2, <2>2, <2>3 DEF EventsTrue
  <2>5. inbox' = inbox
    BY <1>1
  <2>6. \A i \in DOMAIN inbox["page"] : ToldOf(inbox["page"][i])'
    BY <1>2, <2>1, <2>2, <2>5 DEF EventsTrue
  <2> QED  BY <2>4, <2>5, <2>6 DEF EventsTrue
<1>6. WillSettle("sheet", "status")'
  <2>1. CASE selected = r
    BY <1>1, <1>3, <2>1 DEF WillSettle, News
  <2>2. CASE selected # r /\ selected # NoRow
    <3>1. row'[selected] = row[selected]
      BY <1>2, <2>2 DEF ViewInv, ViewTypes
    <3> QED  BY <1>1, <3>1 DEF ViewInv, WillSettle, News, ShownNow
  <2> QED  BY <1>1, <2>1, <2>2 DEF WillSettle
<1>7. ASSUME NEW k \in Instances PROVE WillSettle("overlay", k)'
  <2>1. CASE selected = r /\ f = k
    BY <1>1, <1>3, <2>1 DEF WillSettle, News
  <2>2. CASE ~(selected = r /\ f = k) /\ selected # NoRow
    <3>1. row'[selected][k] = row[selected][k]
      BY <1>2, <2>2 DEF ViewInv, ViewTypes, Fields
    <3>2. Coming(fetches, "overlay", k, selected, row[selected])
            => Coming(fetches, "overlay", k, selected, row'[selected])
      BY <3>1 DEF Coming, Current
    <3>3. News("overlay", k) => News("overlay", k)'
      BY <1>1, <3>1 DEF News
    <3>4. ShownNow("overlay", k) => ShownNow("overlay", k)'
      BY <1>1, <3>1 DEF ShownNow
    <3> QED  BY <1>1, <3>2, <3>3, <3>4 DEF ViewInv, WillSettle
  <2> QED  BY <1>1, <2>1, <2>2 DEF WillSettle
<1> QED  BY <1>4, <1>5, <1>6, <1>7 DEF ViewInv

\* A row goes and no one is told: nothing is said of its views any more.
LEMMA DroppedRow ==
  ASSUME ViewInv, NEW r \in ViewedRuns, NEW f \in Instances, DropRow(r, f)
  PROVE  ViewInv'
<1>1. /\ row' = [row EXCEPT ![r][f] = @ + 1] /\ f \in Fields
      /\ UNCHANGED <<untold, selected, inbox, fetches, view, latest>>
      /\ IF r = selected THEN misled' = Views ELSE misled' = misled
  BY DEF DropRow, Fields
<1>2. /\ row' \in [ViewedRuns -> RowStates]
      /\ \A n \in ViewedRuns : n # r => row'[n] = row[n]
      /\ \A x \in RowEvents : ToldOf(x) => ToldOf(x)'
  BY <1>1, GrownRow
<1>3. ViewTypes' /\ OverlayIs'
  BY <1>1, <1>2 DEF ViewInv, ViewTypes, OverlayIs
<1>4. EventsTrue'
  <2>1. \A i \in DOMAIN inbox["page"] : inbox["page"][i] \in RowEvents
    BY ViewNames DEF ViewInv, ViewTypes
  <2>2. untold \subseteq RowEvents /\ EventsTrue
    BY DEF ViewInv, ViewTypes
  <2>3. \A x \in untold : ToldOf(x)'
    BY <1>2, <2>2 DEF EventsTrue
  <2>4. inbox' = inbox /\ untold' = untold
    BY <1>1
  <2>5. \A i \in DOMAIN inbox["page"] : ToldOf(inbox["page"][i])'
    BY <1>2, <2>1, <2>2, <2>4 DEF EventsTrue
  <2> QED  BY <2>3, <2>4, <2>5 DEF EventsTrue
<1>5. CASE selected = r
  BY <1>1, <1>3, <1>4, <1>5, ViewNames DEF ViewInv, WillSettle
<1>6. CASE selected = NoRow
  BY <1>1, <1>3, <1>4, <1>6 DEF ViewInv, WillSettle
<1>7. CASE selected # r /\ selected # NoRow
  <2>1. row'[selected] = row[selected] /\ misled' = misled
    BY <1>1, <1>2, <1>7 DEF ViewInv, ViewTypes
  <2>2. \A v, k : WillSettle(v, k) => WillSettle(v, k)'
    BY <1>1, <2>1 DEF WillSettle, News, ShownNow
  <2> QED  BY <1>3, <1>4, <2>2 DEF ViewInv
<1> QED  BY <1>5, <1>6, <1>7

LEMMA OneMore ==
  ASSUME NEW S, NEW s \in Seq(S), NEW x \in S
  PROVE  /\ \A i \in DOMAIN s : i \in DOMAIN Append(s, x) /\ Append(s, x)[i] = s[i]
         /\ \A i \in DOMAIN Append(s, x) : Append(s, x)[i] = x \/ (i \in DOMAIN s /\ Append(s, x)[i] = s[i])
         /\ Append(s, x) # << >> /\ \E i \in DOMAIN Append(s, x) : Append(s, x)[i] = x
<1>1. Len(s) \in Nat /\ DOMAIN s = 1 .. Len(s) /\ DOMAIN Append(s, x) = 1 .. Len(s) + 1
  OBVIOUS
<1>2. Append(s, x)[Len(s) + 1] = x /\ \A i \in 1 .. Len(s) : Append(s, x)[i] = s[i]
  OBVIOUS
<1> QED  BY <1>1, <1>2, SMTT(40)

\* An event leaves: it is in the inbox of who hears it, or has misled its view.
LEMMA EventGone ==
  ASSUME ViewInv, NEW e \in untold, NEW hear \in SUBSET Streamers, PublishEvent(e, hear)
  PROVE  ViewInv'
<1>1. /\ UNCHANGED <<row, selected, fetches, view, latest>> /\ untold' = untold \ {e}
  BY DEF PublishEvent
<1>2. /\ misled \subseteq misled'
      /\ \A s \in Streamers : Concerns(e, s) =>
           ViewsOf(e, s) \subseteq misled' \/ inbox'[s] = Append(inbox[s], e)
      /\ \A s \in Streamers : inbox'[s] = inbox[s] \/ (Concerns(e, s) /\ inbox'[s] = Append(inbox[s], e))
  BY DEF PublishEvent
<1>3. e \in RowEvents /\ inbox \in [Streamers -> Seq(RowEvents)] /\ ToldOf(e)
  BY DEF ViewInv, ViewTypes, EventsTrue
<1>4. \A s \in Streamers : inbox[s] \in Seq(RowEvents) /\ Append(inbox[s], e) \in Seq(RowEvents)
  BY <1>3
<1>5. inbox' \in [Streamers -> Seq(RowEvents)]
  BY <1>3, <1>4 DEF PublishEvent
<1>6. selected = NoRow => inbox'["sheet"] = << >>
  <2>1. SUFFICES ASSUME selected = NoRow PROVE inbox'["sheet"] = << >>
    OBVIOUS
  <2>2. e.run \in ViewedRuns
    BY <1>3 DEF RowEvents
  <2>3. ~Concerns(e, "sheet") /\ inbox["sheet"] = << >>
    BY <2>1, <2>2, ViewNames, ViewAssumption DEF ViewInv, ViewTypes
  <2> QED  BY <1>2, <2>3, ViewNames
<1>7. ViewTypes' /\ OverlayIs'
  BY <1>1, <1>5, <1>6 DEF ViewInv, ViewTypes, OverlayIs
<1>8. ASSUME NEW s \in Streamers
      PROVE  /\ \A i \in DOMAIN inbox[s] : i \in DOMAIN inbox'[s] /\ inbox'[s][i] = inbox[s][i]
             /\ \A i \in DOMAIN inbox'[s] :
                  inbox'[s][i] = e \/ (i \in DOMAIN inbox[s] /\ inbox'[s][i] = inbox[s][i])
             /\ inbox[s] # << >> => inbox'[s] # << >>
             /\ inbox'[s] = Append(inbox[s], e) =>
                  inbox'[s] # << >> /\ \E i \in DOMAIN inbox'[s] : inbox'[s][i] = e
  <2>1. CASE inbox'[s] = inbox[s]
    <3>1. inbox[s] # Append(inbox[s], e)
      BY <1>4
    <3> QED  BY <2>1, <3>1
  <2>2. CASE inbox'[s] = Append(inbox[s], e)
    BY <1>3, <1>4, <2>2, OneMore
  <2> QED  BY <1>2, <2>1, <2>2
<1>9. EventsTrue'
  BY <1>1, <1>3, <1>8, ViewNames DEF ViewInv, EventsTrue, ToldOf
<1>10. WillSettle("sheet", "status")'
  <2>1. ASSUME "sheet" \notin misled', News("sheet", "status") PROVE News("sheet", "status")'
    BY <1>1, <1>2, <1>8, <2>1, ViewNames DEF News
  <2> QED  BY <1>1, <1>2, <2>1 DEF ViewInv, WillSettle, ShownNow
<1>11. ASSUME NEW k \in Instances PROVE WillSettle("overlay", k)'
  <2>1. ASSUME "overlay" \notin misled', News("overlay", k) PROVE News("overlay", k)'
    BY <1>1, <1>2, <1>8, <2>1, ViewNames DEF News
  <2> QED  BY <1>1, <1>2, <2>1 DEF ViewInv, WillSettle, ShownNow
<1> QED  BY <1>7, <1>9, <1>10, <1>11 DEF ViewInv

\* A stream that breaks misleads the views its events were for.
LEMMA BreakStep ==
  ASSUME ViewInv, NEW s \in Streamers, StreamBreaks(s)
  PROVE  ViewInv'
<1>1. /\ UNCHANGED <<row, untold, selected, fetches, view, latest>>
      /\ inbox' = [inbox EXCEPT ![s] = << >>]
      /\ misled' = misled \union UNION {ViewsOf(inbox[s][i], s) : i \in DOMAIN inbox[s]}
  BY DEF StreamBreaks
<1>2. inbox \in [Streamers -> Seq(RowEvents)] /\ << >> \in Seq(RowEvents)
  BY DEF ViewInv, ViewTypes
<1>3. inbox' \in [Streamers -> Seq(RowEvents)] /\ misled \subseteq misled'
  BY <1>1, <1>2
<1>4. selected = NoRow => inbox'["sheet"] = << >>
  BY <1>1, <1>2, ViewNames DEF ViewInv, ViewTypes
<1>5. ViewTypes' /\ OverlayIs'
  BY <1>1, <1>3, <1>4 DEF ViewInv, ViewTypes, OverlayIs
<1>6. inbox'["page"] = inbox["page"] \/ inbox'["page"] = << >>
  BY <1>1, <1>2, ViewNames
<1>7. EventsTrue'
  BY <1>1, <1>6 DEF ViewInv, EventsTrue, ToldOf
<1>8. ASSUME "sheet" \notin misled', News("sheet", "status") PROVE News("sheet", "status")'
  <2>1. CASE s = "sheet"
    <3>1. inbox["sheet"] = << >>
      <4>1. SUFFICES ASSUME inbox["sheet"] # << >> PROVE FALSE
        OBVIOUS
      <4>2. 1 \in DOMAIN inbox["sheet"]
        BY <1>2, <4>1, ViewNames, EmptySeq
      <4> QED  BY <1>1, <1>8, <2>1, <4>2, ViewNames
    <3> QED  BY <1>1, <1>8, <3>1 DEF News
  <2>2. CASE s = "page"
    <3>1. inbox'["sheet"] = inbox["sheet"]
      BY <1>1, <1>2, <2>2, ViewNames
    <3> QED  BY <1>1, <1>8, <3>1 DEF News
  <2> QED  BY <2>1, <2>2, ViewNames
<1>9. ASSUME NEW k \in Instances, "overlay" \notin misled', News("overlay", k)
      PROVE  News("overlay", k)'
  <2>1. CASE s = "sheet"
    <3>1. inbox'["page"] = inbox["page"]
      BY <1>1, <1>2, <2>1, ViewNames
    <3> QED  BY <1>1, <1>9, <3>1 DEF News
  <2>2. CASE s = "page"
    <3>1. \A i \in DOMAIN inbox["page"] : ~(inbox["page"][i].field \in Instances /\ inbox["page"][i].run = selected)
      BY <1>1, <1>9, <2>2, ViewNames
    <3> QED  BY <1>1, <1>9, <3>1 DEF News
  <2> QED  BY <2>1, <2>2, ViewNames
<1>10. WillSettle("sheet", "status")'
  BY <1>1, <1>3, <1>8 DEF ViewInv, WillSettle, ShownNow
<1>11. ASSUME NEW k \in Instances PROVE WillSettle("overlay", k)'
  BY <1>1, <1>3, <1>9 DEF ViewInv, WillSettle, ShownNow
<1> QED  BY <1>5, <1>7, <1>10, <1>11 DEF ViewInv

LEMMA ReadStep ==
  ASSUME ViewInv, NEW i \in DOMAIN fetches, ReadRows(i)
  PROVE  ViewInv'
<1>1. /\ fetches' = [fetches EXCEPT ![i].got = row[fetches[i].run]]
      /\ UNCHANGED <<row, untold, selected, inbox, view, latest, misled>>
  BY DEF ReadRows
<1>2. fetches \in Seq(Requests) /\ fetches[i] \in Requests /\ row \in [ViewedRuns -> RowStates]
  BY DEF ViewInv, ViewTypes
<1>3. row[fetches[i].run] \in RowStates
  BY <1>2 DEF Requests
<1>4. fetches' \in Seq(Requests)
  <2>1. [fetches[i] EXCEPT !.got = row[fetches[i].run]] \in Requests
    BY <1>2, <1>3 DEF Requests
  <2> QED  BY <1>1, <1>2, <2>1
<1>5. ViewTypes' /\ OverlayIs' /\ EventsTrue'
  BY <1>1, <1>4 DEF ViewInv, ViewTypes, OverlayIs, EventsTrue, ToldOf
<1>6. ASSUME NEW v, NEW k
      PROVE  /\ Coming(fetches, v, k, selected, row[selected]) => Coming(fetches', v, k, selected, row[selected])
             /\ NoneAsked(fetches, v) => NoneAsked(fetches', v)
  BY <1>1, <1>2, ComingWhenRead
<1>7. \A v, k : WillSettle(v, k) => WillSettle(v, k)'
  BY <1>1, <1>6 DEF WillSettle, News, ShownNow
<1> QED  BY <1>5, <1>7 DEF ViewInv

\* The steps that only send requests, of the sheet.
LEMMA AskStep ==
  ASSUME ViewInv, SheetHears \/ \E r \in ViewedRuns : Refresh(r)
  PROVE  ViewInv'
<1>1. PICK r \in ViewedRuns :
        /\ fetches' = fetches \o <<Fetch("sheet", r)>>
        /\ UNCHANGED <<row, untold, selected, view, latest, misled>>
  BY DEF Refresh, SheetHears, Ask, ViewInv, ViewTypes
<1>2. inbox \in [Streamers -> Seq(RowEvents)]
  BY DEF ViewInv, ViewTypes
<1>3. inbox' = inbox \/ (inbox["sheet"] # << >> /\ inbox' = [inbox EXCEPT !["sheet"] = Tail(@)])
  BY DEF Refresh, SheetHears
<1>4. inbox' \in [Streamers -> Seq(RowEvents)]
  <2>1. CASE inbox["sheet"] # << >> /\ inbox' = [inbox EXCEPT !["sheet"] = Tail(@)]
    <3>1. Tail(inbox["sheet"]) \in Seq(RowEvents)
      BY <1>2, <2>1, ViewNames
    <3> QED  BY <1>2, <2>1, <3>1
  <2> QED  BY <1>2, <1>3, <2>1
<1>5. inbox'["page"] = inbox["page"] /\ (selected = NoRow => inbox'["sheet"] = << >>)
  BY <1>2, <1>3, ViewNames DEF ViewInv, ViewTypes
<1>6. fetches \in Seq(Requests) /\ Fetch("sheet", r) \in Requests
  BY ViewNames DEF ViewInv, ViewTypes, Fetch, Requests
<1>7. fetches' \in Seq(Requests)
  BY <1>1, <1>6, OneAppended
<1>8. ViewTypes' /\ OverlayIs'
  BY <1>1, <1>4, <1>5, <1>7 DEF ViewInv, ViewTypes, OverlayIs
<1>9. EventsTrue'
  BY <1>1, <1>5 DEF ViewInv, EventsTrue, ToldOf
<1>10. Fetch("sheet", r).view = "sheet" /\ Fetch("sheet", r).got = NoRow
  BY DEF Fetch
<1>11. WillSettle("sheet", "status")'
  BY <1>1, <1>6, <1>10, ComingWithNew DEF WillSettle
<1>12. ASSUME NEW k \in Instances PROVE WillSettle("overlay", k)'
  <2>1. /\ Coming(fetches, "overlay", k, selected, row[selected]) =>
             Coming(fetches', "overlay", k, selected, row[selected])
        /\ NoneAsked(fetches, "overlay") => NoneAsked(fetches', "overlay")
    BY <1>1, <1>6, <1>10, ComingWithNew
  <2> QED  BY <1>1, <1>5, <2>1 DEF ViewInv, WillSettle, News, ShownNow
<1> QED  BY <1>8, <1>9, <1>11, <1>12 DEF ViewInv

LEMMA SelectStep ==
  ASSUME ViewInv, NEW r \in ViewedRuns, SelectRun(r)
  PROVE  ViewInv'
<1> DEFINE p == Fetch("sheet", r)  q == Fetch("overlay", r)
<1>1. /\ selected' = r /\ fetches' = fetches \o <<p, q>>
      /\ view' = [view EXCEPT !["sheet"] = NoRow]
      /\ UNCHANGED <<row, untold, inbox, latest>>
  BY DEF SelectRun, Ask
<1>2. fetches \in Seq(Requests) /\ p \in Requests /\ q \in Requests
  BY ViewNames DEF ViewInv, ViewTypes, Fetch, Requests
<1>3. p.view = "sheet" /\ p.got = NoRow /\ q.view = "overlay" /\ q.got = NoRow
  BY DEF Fetch
<1> HIDE DEF p, q
<1>4. fetches' = (fetches \o <<p>>) \o <<q>>
  BY <1>1, <1>2, TwoAppended
<1>5. fetches \o <<p>> \in Seq(Requests)
  BY <1>2, OneAppended
<1>6. fetches' \in Seq(Requests)
  BY <1>2, <1>4, <1>5, OneAppended
<1>7. r # NoRow
  BY ViewAssumption
<1>8. ViewTypes' /\ OverlayIs'
  <2>1. DOMAIN view' = Views /\ view'["overlay"] = view["overlay"]
    BY <1>1, ViewNames DEF ViewInv, ViewTypes
  <2> QED  BY <1>1, <1>6, <1>7, <2>1 DEF ViewInv, ViewTypes, OverlayIs
<1>9. EventsTrue'
  BY <1>1 DEF ViewInv, EventsTrue, ToldOf
<1>10. \A k : Coming(fetches', "overlay", k, r, row[r])
  BY <1>2, <1>3, <1>4, <1>5, ComingWithNew
<1>11. Coming(fetches', "sheet", "status", r, row[r])
  <2>1. Coming(fetches \o <<p>>, "sheet", "status", r, row[r])
    BY <1>2, <1>3, ComingWithNew
  <2> QED  BY <1>2, <1>3, <1>4, <1>5, <2>1, ComingWithNew
<1> QED  BY <1>1, <1>8, <1>9, <1>10, <1>11 DEF ViewInv, WillSettle

\* An answer that is shown or fails: in order it settles its view.
LEMMA AnswerStep ==
  ASSUME ViewInv, NEW n \in DOMAIN fetches, ShowAnswer(n) \/ FetchFails(n)
  PROVE  ViewInv'
<1> DEFINE q == fetches[n]
<1>1. /\ fetches' = RemoveAt(fetches, n)
      /\ UNCHANGED <<row, untold, selected, inbox>>
      /\ misled \subseteq misled'
      /\ \/ q.view \in misled'
         \/ /\ q.got # NoRow /\ q.run = selected
            /\ \A j \in 1 .. n - 1 : fetches[j].view # q.view
  BY DEF ShowAnswer, FetchFails
<1>2. \/ view' = view /\ latest' = latest /\ q.view \in misled'
      \/ q.got # NoRow /\ q.view = "sheet" /\ view' = [view EXCEPT !["sheet"] = <<q.run, q.got>>] /\ latest' = latest
      \/ /\ q.got # NoRow /\ q.view # "sheet" /\ latest' = [k \in Instances |-> q.got[k]]
         /\ \E k \in Instances : view' = [view EXCEPT !["overlay"] = <<k, q.got[k]>>]
  BY DEF ShowAnswer, FetchFails
<1>3. fetches \in Seq(Requests) /\ q \in Requests /\ DOMAIN view = Views
  BY DEF ViewInv, ViewTypes
<1>4. q.view \in Views /\ (q.got # NoRow => q.got \in [Fields -> Nat])
  BY <1>3 DEF Requests, RowStates
<1> HIDE DEF q
<1>5. \A k \in Instances : k \in Fields
  BY DEF Fields
<1>6. DOMAIN view' = Views /\ latest' \in [Instances -> Nat \union {NoRow}] /\ OverlayIs'
  <2>1. CASE view' = view /\ latest' = latest
    BY <1>3, <2>1 DEF ViewInv, ViewTypes, OverlayIs
  <2>2. CASE view' = [view EXCEPT !["sheet"] = <<q.run, q.got>>] /\ latest' = latest
    <3>1. view'["overlay"] = view["overlay"] /\ DOMAIN view' = Views
      BY <1>3, <2>2, ViewNames
    <3> QED  BY <2>2, <3>1 DEF ViewInv, ViewTypes, OverlayIs
  <2>3. ASSUME q.got # NoRow, latest' = [k \in Instances |-> q.got[k]],
               NEW k \in Instances, view' = [view EXCEPT !["overlay"] = <<k, q.got[k]>>]
        PROVE  DOMAIN view' = Views /\ latest' \in [Instances -> Nat \union {NoRow}] /\ OverlayIs'
    <3>1. view'["overlay"] = <<k, q.got[k]>> /\ DOMAIN view' = Views /\ latest'[k] = q.got[k]
      BY <1>3, <2>3, ViewNames
    <3>2. latest' \in [Instances -> Nat \union {NoRow}]
      BY <1>4, <1>5, <2>3
    <3> QED  BY <3>1, <3>2 DEF OverlayIs
  <2> QED  BY <1>2, <2>1, <2>2, <2>3
<1>7. ViewTypes'
  <2>1. fetches' \in Seq(Requests)
    BY <1>1, <1>3, OneRemoved
  <2> QED  BY <1>1, <1>6, <2>1 DEF ViewInv, ViewTypes
<1>8. EventsTrue'
  BY <1>1 DEF ViewInv, EventsTrue, ToldOf
<1>9. ASSUME NEW v \in Views, NEW k \in Fields, v = "overlay" => k \in Instances,
             q.view = v, WillSettle(v, k)
      PROVE  WillSettle(v, k)'
  <2>1. SUFFICES ASSUME v \notin misled', selected # NoRow
                 PROVE  \/ News(v, k)'
                        \/ Coming(fetches', v, k, selected, row[selected])
                        \/ NoneAsked(fetches', v) /\ ShownNow(v, k)'
    BY <1>1 DEF WillSettle
  <2>2. /\ q.got # NoRow /\ q.run = selected /\ \A j \in 1 .. n - 1 : fetches[j].view # v
    BY <1>1, <1>9, <2>1
  <2>3. News(v, k) => News(v, k)'
    BY <1>1 DEF News
  <2>4. Coming(fetches, v, k, selected, row[selected]) =>
          \/ Coming(fetches', v, k, selected, row[selected])
          \/ NoneAsked(fetches', v) /\ Current(v, k, q.got, row[selected])
    BY <1>1, <1>3, <1>9, <2>2, ComingWithout DEF q
  <2>5. Current(v, k, q.got, row[selected]) => ShownNow(v, k)'
    <3>1. CASE v = "sheet"
      <4>1. view' = [view EXCEPT !["sheet"] = <<q.run, q.got>>]
        BY <1>2, <1>9, <2>1, <3>1
      <4> QED  BY <1>1, <1>3, <2>2, <3>1, <4>1, ViewNames DEF Current, ShownNow
    <3>2. CASE v = "overlay"
      <4>1. latest' = [x \in Instances |-> q.got[x]]
        BY <1>2, <1>9, <2>1, <3>2
      <4> QED  BY <1>1, <1>9, <3>2, <4>1 DEF Current, ShownNow
    <3> QED  BY <3>1, <3>2, ViewNames
  <2>6. ~NoneAsked(fetches, v)
    BY <1>9 DEF NoneAsked, q
  <2> QED  BY <1>1, <1>9, <2>1, <2>3, <2>4, <2>5, <2>6 DEF WillSettle
<1>10. ASSUME NEW v \in Views, NEW k \in Fields, q.view # v, WillSettle(v, k) PROVE WillSettle(v, k)'
  <2>1. ShownNow(v, k) => ShownNow(v, k)'
    <3>1. CASE v = "sheet"
      <4>1. view'["sheet"] = view["sheet"]
        BY <1>2, <1>3, <1>10, <3>1, ViewNames
      <4> QED  BY <1>1, <3>1, <4>1 DEF ShownNow
    <3>2. CASE v = "overlay"
      <4>1. latest' = latest
        BY <1>2, <1>4, <1>10, <3>2, ViewNames
      <4> QED  BY <1>1, <3>2, <4>1 DEF ShownNow
    <3> QED  BY <3>1, <3>2, ViewNames
  <2>2. News(v, k) => News(v, k)'
    BY <1>1 DEF News
  <2>3. /\ Coming(fetches, v, k, selected, row[selected]) => Coming(fetches', v, k, selected, row[selected])
        /\ NoneAsked(fetches, v) => NoneAsked(fetches', v)
    BY <1>1, <1>3, <1>10, ComingWithout DEF q
  <2> QED  BY <1>1, <1>10, <2>1, <2>2, <2>3 DEF WillSettle
<1>11. WillSettle("sheet", "status")'
  <2>1. "status" \in Fields /\ "sheet" # "overlay" /\ "sheet" \in Views
    BY ViewNames DEF Fields
  <2> QED  BY <1>9, <1>10, <2>1 DEF ViewInv
<1>12. ASSUME NEW k \in Instances PROVE WillSettle("overlay", k)'
  BY <1>5, <1>9, <1>10, ViewNames DEF ViewInv
<1> QED  BY <1>6, <1>7, <1>8, <1>11, <1>12 DEF ViewInv

\* A view that is asked for has a last request.
LEMMA LastAsked ==
  ASSUME NEW s \in Seq(Requests), NEW v, ~NoneAsked(s, v)
  PROVE  \E i \in DOMAIN s : s[i].view = v /\ \A j \in DOMAIN s : j > i => s[j].view # v
<1> DEFINE gaps == {Len(s) - i : i \in {j \in DOMAIN s : s[j].view = v}}
<1>1. Len(s) \in Nat /\ DOMAIN s = 1 .. Len(s)
  OBVIOUS
<1>2. gaps \subseteq Nat /\ gaps # {}
  BY <1>1 DEF NoneAsked
<1>3. PICK m \in gaps : \A n \in gaps : m <= n
  <2> HIDE DEF gaps
  <2>1. PICK R : IsWellFoundedOn(R, Nat) /\ \A a, b \in Nat : a < b => <<a, b>> \in R
    BY NatLessThanWellFounded DEF OpToRel
  <2>2. \E m \in gaps : \A n \in gaps : ~ (<<n, m>> \in R)
    <3>1. IsWellFoundedOn(R, Nat) /\ gaps \subseteq Nat /\ gaps # {}
      BY <1>2, <2>1
    <3> QED  BY <3>1, WFMin
  <2>3. PICK m \in gaps : \A n \in gaps : ~ (<<n, m>> \in R)
    BY <2>2
  <2>4. \A n \in gaps : n \in Nat /\ m \in Nat /\ ~(n < m)
    BY <1>2, <2>1, <2>3
  <2> QED  BY <2>4
<1>4. PICK i \in DOMAIN s : s[i].view = v /\ m = Len(s) - i
  BY <1>3
<1>5. ASSUME NEW j \in DOMAIN s, j > i PROVE s[j].view # v
  <2>1. SUFFICES ASSUME s[j].view = v PROVE FALSE
    OBVIOUS
  <2>2. Len(s) - j \in gaps
    BY <2>1
  <2>3. m <= Len(s) - j
    BY <1>3, <2>2
  <2> QED  BY <1>1, <1>4, <1>5, <2>3
<1> QED  BY <1>4, <1>5

\* The page hears of an instance: if that is the last news of it, whatever is
\* still asked for has yet to be read, or the overlay is misled.
LEMMA PageStep ==
  ASSUME ViewInv, PageHears
  PROVE  ViewInv'
<1> DEFINE old == inbox["page"]  e == Head(old)
<1>1. /\ old # << >> /\ inbox' = [inbox EXCEPT !["page"] = Tail(old)]
      /\ UNCHANGED <<row, untold, selected, fetches>>
      /\ misled \subseteq misled' /\ misled' \subseteq misled \union {"overlay"}
      /\ IF e.field \in Instances /\ e.run = selected
         THEN /\ view' = [view EXCEPT !["overlay"] = <<e.field, e.value>>]
              /\ latest' = [latest EXCEPT ![e.field] = e.value]
              /\ "overlay" \notin misled' =>
                   /\ \A i \in DOMAIN fetches : fetches[i].view = "overlay" => fetches[i].got = NoRow
                   /\ latest[e.field] = NoRow \/ ~(latest[e.field] > e.value)
         ELSE view' = view /\ latest' = latest
  BY DEF PageHears
<1>2. inbox \in [Streamers -> Seq(RowEvents)] /\ old \in Seq(RowEvents)
  BY ViewNames DEF ViewInv, ViewTypes
<1>3. /\ e \in RowEvents /\ e = old[1] /\ 1 \in DOMAIN old
      /\ Tail(old) \in Seq(RowEvents) /\ \A i \in DOMAIN Tail(old) : i + 1 \in DOMAIN old /\ Tail(old)[i] = old[i + 1]
      /\ \A i \in DOMAIN old : i # 1 => i - 1 \in DOMAIN Tail(old) /\ Tail(old)[i - 1] = old[i]
  BY <1>1, <1>2
<1>4. inbox'["page"] = Tail(old) /\ inbox'["sheet"] = inbox["sheet"]
  BY <1>1, <1>2, ViewNames
<1>5. inbox' \in [Streamers -> Seq(RowEvents)]
  BY <1>1, <1>2, <1>3
<1>6. e.value \in Nat
  BY <1>3 DEF RowEvents
<1> HIDE DEF e
<1>7. /\ DOMAIN view' = Views /\ view'["sheet"] = view["sheet"]
      /\ latest' \in [Instances -> Nat \union {NoRow}] /\ OverlayIs'
  <2>1. DOMAIN view = Views /\ latest \in [Instances -> Nat \union {NoRow}] /\ OverlayIs
    BY DEF ViewInv, ViewTypes
  <2>2. CASE e.field \in Instances /\ e.run = selected
    <3>1. /\ view' = [view EXCEPT !["overlay"] = <<e.field, e.value>>]
          /\ latest' = [latest EXCEPT ![e.field] = e.value]
      BY <1>1, <2>2
    <3>2. /\ DOMAIN view' = Views /\ view'["sheet"] = view["sheet"] /\ view'["overlay"] = <<e.field, e.value>>
          /\ latest' \in [Instances -> Nat \union {NoRow}] /\ latest'[e.field] = e.value
      BY <1>6, <2>1, <2>2, <3>1, ViewNames
    <3>3. \E k \in Instances : view'["overlay"] = <<k, latest'[k]>>
      BY <2>2, <3>2
    <3> QED  BY <3>2, <3>3 DEF OverlayIs
  <2>3. CASE ~(e.field \in Instances /\ e.run = selected)
    <3>1. view' = view /\ latest' = latest
      BY <1>1, <2>3
    <3> QED  BY <2>1, <3>1 DEF OverlayIs
  <2> QED  BY <2>2, <2>3
<1>8. ViewTypes'
  BY <1>1, <1>4, <1>5, <1>7 DEF ViewInv, ViewTypes
<1>9. EventsTrue'
  BY <1>1, <1>3, <1>4 DEF ViewInv, EventsTrue, ToldOf
<1>10. WillSettle("sheet", "status")'
  BY <1>1, <1>4, <1>7 DEF ViewInv, WillSettle, News, ShownNow
<1>11. ASSUME NEW k \in Instances, "overlay" \notin misled', selected # NoRow
       PROVE  \/ News("overlay", k)'
              \/ Coming(fetches, "overlay", k, selected, row[selected])
              \/ NoneAsked(fetches, "overlay") /\ ShownNow("overlay", k)'
  <2> DEFINE n == row[selected][k]
  <2>1. n \in Nat
    BY <1>11 DEF ViewInv, ViewTypes, RowStates, Fields
  <2>2. ASSUME News("overlay", k), ~(e.field = k /\ e.run = selected /\ e.value = n)
        PROVE  News("overlay", k)'
    <3>1. PICK x \in untold \union {old[i] : i \in DOMAIN old} : x.run = selected /\ x.field = k /\ x.value = n
      BY <2>2 DEF News
    <3>2. x \in untold \union {Tail(old)[i] : i \in DOMAIN Tail(old)}
      <4>1. CASE x \in untold
        BY <4>1
      <4>2. ASSUME NEW i \in DOMAIN old, x = old[i]
            PROVE  x \in {Tail(old)[j] : j \in DOMAIN Tail(old)}
        <5>1. i # 1
          BY <1>3, <2>2, <3>1, <4>2
        <5>2. i - 1 \in DOMAIN Tail(old) /\ Tail(old)[i - 1] = x
          BY <1>3, <4>2, <5>1
        <5> QED  BY <5>2
      <4> QED  BY <3>1, <4>1, <4>2
    <3> QED  BY <1>1, <1>4, <3>1, <3>2 DEF News
  <2>3. WillSettle("overlay", k) /\ "overlay" \notin misled
    BY <1>1, <1>11 DEF ViewInv
  <2>4. CASE ~(e.field = k /\ e.run = selected)
    <3>1. latest'[k] = latest[k]
      BY <1>1, <2>4 DEF ViewInv, ViewTypes
    <3>2. ShownNow("overlay", k) => ShownNow("overlay", k)'
      BY <1>1, <3>1 DEF ShownNow
    <3> QED  BY <1>11, <2>2, <2>3, <2>4, <3>2 DEF WillSettle
  <2>5. CASE e.field = k /\ e.run = selected
    <3>1. latest'[k] = e.value
      BY <1>1, <2>5 DEF ViewInv, ViewTypes
    <3>2. \A i \in DOMAIN fetches : fetches[i].view = "overlay" => fetches[i].got = NoRow
      BY <1>1, <1>11, <2>5
    <3>3. ~NoneAsked(fetches, "overlay") => Coming(fetches, "overlay", k, selected, row[selected])
      <4>1. fetches \in Seq(Requests)
        BY DEF ViewInv, ViewTypes
      <4> QED  BY <3>2, <4>1, LastAsked DEF Coming
    <3>4. CASE e.value = n
      BY <1>1, <3>1, <3>3, <3>4 DEF ShownNow
    <3>5. CASE e.value # n
      <4>1. e.value <= n
        BY <1>3, <2>5 DEF ViewInv, EventsTrue, ToldOf
      <4>2. latest[k] = NoRow \/ ~(latest[k] > e.value)
        BY <1>1, <1>11, <2>5
      <4>3. latest[k] # n
        BY <1>6, <2>1, <3>5, <4>1, <4>2, ViewAssumption
      <4>4. News("overlay", k) \/ Coming(fetches, "overlay", k, selected, row[selected])
        BY <1>11, <2>3, <4>3 DEF WillSettle, ShownNow
      <4> QED  BY <2>2, <3>5, <4>4
    <3> QED  BY <3>4, <3>5
  <2> QED  BY <2>4, <2>5
<1>12. ASSUME NEW k \in Instances PROVE WillSettle("overlay", k)'
  BY <1>1, <1>11 DEF WillSettle
<1> QED  BY <1>7, <1>8, <1>9, <1>10, <1>12 DEF ViewInv

LEMMA ViewInvInit == RunViewInit => ViewInv
<1> SUFFICES ASSUME RunViewInit PROVE ViewInv
  OBVIOUS
<1>1. ViewTypes
  <2>1. << >> \in Seq(RowEvents) /\ << >> \in Seq(Requests)
    OBVIOUS
  <2>2. row \in [ViewedRuns -> RowStates]
    BY DEF RunViewInit, RowStates
  <2>3. latest \in [Instances -> Nat \union {NoRow}]
    BY DEF RunViewInit
  <2> QED  BY <2>1, <2>2, <2>3, ViewNames DEF RunViewInit, ViewTypes
<1>2. EventsTrue /\ OverlayIs
  BY ViewNames DEF RunViewInit, EventsTrue, OverlayIs
<1> QED  BY <1>1, <1>2 DEF RunViewInit, ViewInv, WillSettle

LEMMA ViewInvStep == ViewInv /\ [RunViewNext]_runViewVars => ViewInv'
<1> SUFFICES ASSUME ViewInv, [RunViewNext]_runViewVars PROVE ViewInv'
  OBVIOUS
<1>1. CASE UNCHANGED runViewVars
  <2>1. UNCHANGED <<row, untold, selected, inbox, fetches, view, latest, misled>>
    BY <1>1 DEF runViewVars
  <2>2. \A v, k : WillSettle(v, k) => WillSettle(v, k)'
    BY <2>1 DEF WillSettle, News, ShownNow
  <2> QED  BY <2>1, <2>2 DEF ViewInv, ViewTypes, OverlayIs, EventsTrue, ToldOf
<1>2. CASE CloseSheet
  <2>1. /\ selected' = NoRow /\ inbox' = [inbox EXCEPT !["sheet"] = << >>]
        /\ UNCHANGED <<row, untold, fetches, misled>>
        /\ view' = [view EXCEPT !["sheet"] = NoRow, !["overlay"] = NoRow]
        /\ latest' = [k \in Instances |-> NoRow]
    BY <1>2 DEF CloseSheet
  <2>2. << >> \in Seq(RowEvents)
    OBVIOUS
  <2>3. DOMAIN view' = Views /\ view'["overlay"] = NoRow
    BY <2>1, ViewNames DEF ViewInv, ViewTypes
  <2>4. latest' \in [Instances -> Nat \union {NoRow}]
    BY <2>1
  <2>5. ViewTypes' /\ OverlayIs'
    BY <2>1, <2>2, <2>3, <2>4, ViewNames DEF ViewInv, ViewTypes, OverlayIs
  <2>6. inbox'["page"] = inbox["page"]
    BY <2>1, ViewNames DEF ViewInv, ViewTypes
  <2>7. EventsTrue'
    BY <2>1, <2>6 DEF ViewInv, EventsTrue, ToldOf
  <2> QED  BY <2>1, <2>5, <2>7 DEF ViewInv, WillSettle
<1> QED
  BY <1>1, <1>2, ChangedRow, DroppedRow, SelectStep, EventGone, BreakStep, ReadStep, AnswerStep, PageStep, AskStep
  DEF RunViewNext

\* When nothing is on its way, the page shows the selected run as its row is,
\* and over the graph one of the node's instances as it is, for every number of
\* runs, instances, changes and requests, in whatever order answers and events
\* come; a view that the `misled` history names, for an event lost or late or a
\* row deleted without one, is left out.
THEOREM PageSettles == RunViewSpec => []ViewSettles
<1>1. ViewInv => ViewSettles
  <2> SUFFICES ASSUME ViewInv, fetches = << >>, untold = {}, selected # NoRow,
                      \A s \in Streamers : inbox[s] = << >>
               PROVE  /\ "sheet" \notin misled => view.sheet = <<selected, row[selected]>>
                      /\ "overlay" \notin misled =>
                           \E k \in Instances : view.overlay = <<k, row[selected][k]>>
    BY DEF ViewSettles
  <2>1. \A k : ~News("sheet", k) /\ ~News("overlay", k)
    BY ViewNames DEF News
  <2>2. \A v, k : ~Coming(fetches, v, k, selected, row[selected])
    BY DEF Coming
  <2>3. "sheet" \notin misled => view.sheet = <<selected, row[selected]>>
    BY <2>1, <2>2 DEF ViewInv, WillSettle, ShownNow
  <2>4. ASSUME "overlay" \notin misled PROVE \E k \in Instances : view.overlay = <<k, row[selected][k]>>
    <3>1. \A k \in Instances : latest[k] = row[selected][k]
      BY <2>1, <2>2, <2>4 DEF ViewInv, WillSettle, ShownNow
    <3>2. row[selected] \in [Fields -> Nat]
      BY DEF ViewInv, ViewTypes, RowStates
    <3>3. \A k \in Instances : row[selected][k] \in Nat /\ row[selected][k] # NoRow
      BY <3>2, ViewAssumption DEF Fields
    <3>4. latest # [k \in Instances |-> NoRow]
      BY <3>1, <3>3, ViewAssumption
    <3> QED  BY <3>1, <3>4 DEF ViewInv, OverlayIs
  <2> QED  BY <2>3, <2>4
<1> QED  BY <1>1, ViewInvInit, ViewInvStep, PTL DEF RunViewSpec

-----------------------------------------------------------------------------
(* The flow editor *)

EditedNodes == [id : Nat, step : Steps]

Shaped(d) ==
  /\ DOMAIN d = {"nodes", "edges", "guardrails"}
  /\ d.nodes \in Seq(EditedNodes)
  /\ \A e \in d.edges : DOMAIN e = {"id", "source", "target", "on"}

Joined(d) == \A e \in d.edges : e.source \in NodeIds(d) /\ e.target \in NodeIds(d)

\* Two nodes with the same configuration have the same id.
StepsTellIds(d) ==
  \A i, j \in DOMAIN d.nodes : d.nodes[i].step = d.nodes[j].step => d.nodes[i].id = d.nodes[j].id

IdsTellNodes(d) == \A i, j \in DOMAIN d.nodes : d.nodes[i].id = d.nodes[j].id => i = j

Sound(d) == Shaped(d) /\ Joined(d) /\ StepsTellIds(d)

EditorInv ==
  /\ Sound(def) /\ Sound(stored) /\ IdsTellNodes(stored)
  /\ page = "open" /\ ~clashed => IdsTellNodes(def)

LEMMA NodesAre ==
  ASSUME NEW d, Shaped(d)
  PROVE  /\ Len(d.nodes) \in Nat /\ DOMAIN d.nodes = 1 .. Len(d.nodes)
         /\ \A i \in DOMAIN d.nodes : /\ d.nodes[i] \in EditedNodes /\ d.nodes[i].id \in Nat
                                      /\ d.nodes[i].step \in Steps
                                      /\ d.nodes[i].id \in NodeIds(d)
         /\ \A x \in NodeIds(d) : \E i \in DOMAIN d.nodes : d.nodes[i].id = x
<1>1. d.nodes \in Seq(EditedNodes)
  BY DEF Shaped
<1>2. Len(d.nodes) \in Nat /\ DOMAIN d.nodes = 1 .. Len(d.nodes) /\ \A i \in DOMAIN d.nodes : d.nodes[i] \in EditedNodes
  BY <1>1
<1>3. \A i \in DOMAIN d.nodes : d.nodes[i].id \in Nat /\ d.nodes[i].step \in Steps
  BY <1>2 DEF EditedNodes
<1> QED  BY <1>2, <1>3 DEF NodeIds

\* Ids are unique exactly when they tell the nodes apart, and there are never
\* more of them than nodes.
LEMMA CountedIds ==
  ASSUME NEW d, Shaped(d)
  PROVE  /\ IsFiniteSet(NodeIds(d)) /\ Cardinality(NodeIds(d)) \in Nat
         /\ Cardinality(NodeIds(d)) <= Len(d.nodes)
         /\ UniqueIds(d) <=> IdsTellNodes(d)
<1> DEFINE f == [i \in DOMAIN d.nodes |-> d.nodes[i].id]
<1>1. Len(d.nodes) \in Nat /\ DOMAIN d.nodes = 1 .. Len(d.nodes)
  BY NodesAre
<1>2. IsFiniteSet(DOMAIN d.nodes) /\ Cardinality(DOMAIN d.nodes) = Len(d.nodes)
  BY <1>1, UpTo
<1>3. f \in Surjection(DOMAIN d.nodes, NodeIds(d))
  BY DEF Surjection, NodeIds
<1>4. IdsTellNodes(d) <=> f \in Injection(DOMAIN d.nodes, NodeIds(d))
  BY <1>3 DEF Injection, IsInjective, IdsTellNodes, Surjection
<1> HIDE DEF f
<1>5. /\ IsFiniteSet(NodeIds(d)) /\ Cardinality(NodeIds(d)) <= Cardinality(DOMAIN d.nodes)
      /\ Cardinality(NodeIds(d)) = Cardinality(DOMAIN d.nodes) <=> f \in Injection(DOMAIN d.nodes, NodeIds(d))
  BY <1>2, <1>3, FS_Surjection
<1>6. Cardinality(NodeIds(d)) \in Nat
  BY <1>5, FS_CardinalityType
<1> QED  BY <1>2, <1>4, <1>5, <1>6 DEF UniqueIds

\* A configuration that is not in use, as long as there are more than nodes.
LEMMA FreshStepIs ==
  ASSUME NEW s \in Seq(EditedNodes), Len(s) < Cardinality(Steps)
  PROVE  FreshStep(s) \in Steps /\ \A i \in DOMAIN s : s[i].step # FreshStep(s)
<1> DEFINE used == {s[i].step : i \in DOMAIN s}  f == [i \in DOMAIN s |-> s[i].step]
<1>1. Len(s) \in Nat /\ DOMAIN s = 1 .. Len(s) /\ \A i \in DOMAIN s : s[i] \in EditedNodes
  OBVIOUS
<1>2. IsFiniteSet(DOMAIN s) /\ Cardinality(DOMAIN s) = Len(s)
  BY <1>1, UpTo
<1>3. f \in Surjection(DOMAIN s, used)
  BY DEF Surjection
<1>4. used \subseteq Steps
  BY <1>1 DEF EditedNodes
<1> HIDE DEF f
<1>5. Cardinality(used) <= Len(s)
  BY <1>2, <1>3, FS_Surjection
<1>6. IsFiniteSet(Steps) /\ Cardinality(Steps) \in Nat
  BY EditorAssumption, FS_CardinalityType
<1>7. used # Steps
  <2> HIDE DEF used
  <2> QED  BY <1>1, <1>5, <1>6
<1>8. \E step \in Steps : \A i \in DOMAIN s : s[i].step # step
  BY <1>4, <1>7
<1> QED  BY <1>8 DEF FreshStep

\* The new id is that of no node.
LEMMA NewIdIs ==
  ASSUME NEW d, Shaped(d)
  PROVE  NewId(d) \in Nat /\ NewId(d) \notin NodeIds(d)
<1> DEFINE n == Len(d.nodes)  free == (n + 1 .. 2 * n + 1) \ NodeIds(d)
<1>1. n \in Nat
  BY NodesAre
<1>2. IsFiniteSet(NodeIds(d)) /\ Cardinality(NodeIds(d)) \in Nat /\ Cardinality(NodeIds(d)) <= n
  BY CountedIds
<1> HIDE DEF n
<1>3. Cardinality(n + 1 .. 2 * n + 1) = n + 1
  <2>1. n + 1 \in Int /\ 2 * n + 1 \in Int /\ ~(n + 1 > 2 * n + 1) /\ (2 * n + 1) - (n + 1) + 1 = n + 1
    BY <1>1
  <2> QED  BY <2>1, FS_Interval
<1>4. free # {}
  <2>1. SUFFICES ASSUME (n + 1 .. 2 * n + 1) \subseteq NodeIds(d) PROVE FALSE
    OBVIOUS
  <2>2. Cardinality(n + 1 .. 2 * n + 1) <= Cardinality(NodeIds(d))
    BY <1>2, <2>1, FS_Subset
  <2> QED  BY <1>1, <1>2, <1>3, <2>2
<1>5. free \subseteq Nat
  BY <1>1
<1>6. NewId(d) = Min(free)
  BY DEF NewId, n
<1> HIDE DEF free
<1>7. Min(free) \in free
  BY <1>4, <1>5, LeastIs
<1> QED  BY <1>5, <1>6, <1>7 DEF free

\* What Kept computes, for the first n nodes at each n up to m.
KeptStep(s, ids, n, before) == IF s[n].id \in ids THEN before ELSE Append(before, s[n])

IsKept(kept, s, ids, m) ==
  kept = [n \in 0 .. m |-> IF n = 0 THEN << >> ELSE KeptStep(s, ids, n, kept[n - 1])]

LEMMA KeptExists == ASSUME NEW s, NEW ids PROVE \A m \in Nat : \E kept : IsKept(kept, s, ids, m)
<1> DEFINE S == {m \in Nat : \E kept : IsKept(kept, s, ids, m)}
<1>1. 0 \in S
  <2>1. IsKept([n \in 0 .. 0 |-> << >>], s, ids, 0)  BY DEF IsKept
  <2> QED  BY <2>1
<1>2. ASSUME NEW m \in S PROVE m + 1 \in S
  <2>1. PICK kept : IsKept(kept, s, ids, m)  OBVIOUS
  <2> DEFINE next == KeptStep(s, ids, m + 1, kept[m])
             longer == [n \in 0 .. m + 1 |-> IF n = m + 1 THEN next ELSE kept[n]]
  <2>2. ASSUME NEW n \in 0 .. m + 1
        PROVE  longer[n] = IF n = 0 THEN << >> ELSE KeptStep(s, ids, n, longer[n - 1])
    <3> HIDE DEF next
    <3>1. CASE n = m + 1
      <4>1. n # 0 /\ n - 1 = m /\ m \in 0 .. m + 1 /\ m # m + 1  BY <3>1
      <4>2. longer[n] = next /\ longer[n - 1] = kept[m]  BY <3>1, <4>1
      <4> QED  BY <3>1, <4>1, <4>2 DEF next
    <3>2. CASE n # m + 1
      <4>1. n \in 0 .. m /\ longer[n] = kept[n]  BY <3>2
      <4>2. n # 0 => longer[n - 1] = kept[n - 1]  BY <3>2
      <4>3. kept[n] = IF n = 0 THEN << >> ELSE KeptStep(s, ids, n, kept[n - 1])
        BY <2>1, <4>1 DEF IsKept
      <4> QED  BY <4>1, <4>2, <4>3
    <3> QED  BY <3>1, <3>2
  <2>3. IsKept(longer, s, ids, m + 1)  BY <2>2 DEF IsKept
  <2> QED  BY <2>3
<1> HIDE DEF S
<1>3. S \in SUBSET Nat  BY DEF S
<1>4. S = Nat  BY <1>1, <1>2, <1>3, Induction
<1> QED  BY <1>4 DEF S

SeqTold(s) == \A i, j \in DOMAIN s : s[i].id = s[j].id => i = j

\* t has what is kept of the first n nodes of s.
KeptUpTo(t, s, ids, n) ==
  /\ t \in Seq(EditedNodes)
  /\ \A i \in DOMAIN t : \E j \in 1 .. n : t[i] = s[j] /\ s[j].id \notin ids
  /\ \A j \in 1 .. n : s[j].id \notin ids => \E i \in DOMAIN t : t[i] = s[j]
  /\ SeqTold(s) => SeqTold(t)

LEMMA KeptOneMore ==
  ASSUME NEW s \in Seq(EditedNodes), NEW ids, NEW n \in Nat, n + 1 <= Len(s),
         NEW t, KeptUpTo(t, s, ids, n)
  PROVE  KeptUpTo(KeptStep(s, ids, n + 1, t), s, ids, n + 1)
<1> DEFINE u == KeptStep(s, ids, n + 1, t)
<1>1. s[n + 1] \in EditedNodes /\ n + 1 \in DOMAIN s
  OBVIOUS
<1>2. CASE s[n + 1].id \in ids
  <2>1. u = t  BY <1>2 DEF KeptStep
  <2> HIDE DEF u
  <2>2. \A j \in 1 .. n + 1 : s[j].id \notin ids => j \in 1 .. n  BY <1>2
  <2>3. \A j \in 1 .. n : j \in 1 .. n + 1  OBVIOUS
  <2> QED  BY <2>1, <2>2, <2>3 DEF KeptUpTo, u
<1>3. CASE s[n + 1].id \notin ids
  <2>1. u = Append(t, s[n + 1])  BY <1>3 DEF KeptStep
  <2>2. t \in Seq(EditedNodes) /\ Len(t) \in Nat /\ DOMAIN t = 1 .. Len(t)
    BY DEF KeptUpTo
  <2>3. /\ u \in Seq(EditedNodes) /\ DOMAIN u = 1 .. Len(t) + 1
        /\ \A i \in DOMAIN t : i \in DOMAIN u /\ u[i] = t[i]
        /\ u[Len(t) + 1] = s[n + 1]
    <3> HIDE DEF u
    <3> QED  BY <1>1, <2>1, <2>2
  <2> HIDE DEF u
  <2>4. \A i \in DOMAIN u : i = Len(t) + 1 \/ i \in DOMAIN t
    BY <2>2, <2>3
  <2>5. \A i \in DOMAIN u : \E j \in 1 .. n + 1 : u[i] = s[j] /\ s[j].id \notin ids
    <3>1. ASSUME NEW i \in DOMAIN t PROVE \E j \in 1 .. n + 1 : u[i] = s[j] /\ s[j].id \notin ids
      <4>1. PICK j \in 1 .. n : t[i] = s[j] /\ s[j].id \notin ids  BY DEF KeptUpTo
      <4>2. j \in 1 .. n + 1  OBVIOUS
      <4> QED  BY <2>3, <4>1, <4>2
    <3>2. n + 1 \in 1 .. n + 1  OBVIOUS
    <3> QED  BY <1>3, <2>3, <2>4, <3>1, <3>2
  <2>6. \A j \in 1 .. n + 1 : s[j].id \notin ids => \E i \in DOMAIN u : u[i] = s[j]
    <3>1. ASSUME NEW j \in 1 .. n, s[j].id \notin ids PROVE \E i \in DOMAIN u : u[i] = s[j]
      <4>1. PICK i \in DOMAIN t : t[i] = s[j]  BY <3>1 DEF KeptUpTo
      <4> QED  BY <2>3, <4>1
    <3>2. Len(t) + 1 \in DOMAIN u  BY <2>2, <2>3
    <3>3. \A j \in 1 .. n + 1 : j = n + 1 \/ j \in 1 .. n  OBVIOUS
    <3> QED  BY <2>3, <3>1, <3>2, <3>3
  <2>7. ASSUME SeqTold(s) PROVE SeqTold(u)
    <3>1. SeqTold(t)  BY <2>7 DEF KeptUpTo
    <3>2. \A i \in DOMAIN t : t[i].id # s[n + 1].id
      <4>1. ASSUME NEW i \in DOMAIN t, t[i].id = s[n + 1].id PROVE FALSE
        <5>1. PICK j \in 1 .. n : t[i] = s[j]  BY DEF KeptUpTo
        <5>2. j \in DOMAIN s /\ j # n + 1  OBVIOUS
        <5> QED  BY <1>1, <2>7, <4>1, <5>1, <5>2 DEF SeqTold
      <4> QED  BY <4>1
    <3> QED  BY <2>3, <2>4, <3>1, <3>2 DEF SeqTold
  <2> QED  BY <2>3, <2>5, <2>6, <2>7 DEF KeptUpTo, u
<1> QED  BY <1>2, <1>3

LEMMA KeptIs ==
  ASSUME NEW s \in Seq(EditedNodes), NEW ids
  PROVE  KeptUpTo(Kept(s, ids), s, ids, Len(s))
<1> DEFINE kept == CHOOSE k : IsKept(k, s, ids, Len(s))
           S == {n \in Nat : n <= Len(s) => KeptUpTo(kept[n], s, ids, n)}
<1>1. Kept(s, ids) = kept[Len(s)]
  BY DEF Kept, IsKept, KeptStep
<1>2. Len(s) \in Nat  OBVIOUS
<1>3. IsKept(kept, s, ids, Len(s))
  BY <1>2, KeptExists
<1> HIDE DEF kept
<1>4. \A n \in 0 .. Len(s) : kept[n] = IF n = 0 THEN << >> ELSE KeptStep(s, ids, n, kept[n - 1])
  BY <1>3 DEF IsKept
<1>5. 0 \in S
  <2>1. kept[0] = << >>  BY <1>2, <1>4
  <2>2. << >> \in Seq(EditedNodes) /\ DOMAIN << >> = {} /\ SeqTold(<< >>)  BY DEF SeqTold
  <2>3. KeptUpTo(<< >>, s, ids, 0)  BY <2>2 DEF KeptUpTo
  <2> QED  BY <2>1, <2>3
<1>6. ASSUME NEW n \in S PROVE n + 1 \in S
  <2>1. CASE n + 1 <= Len(s)
    <3>1. n \in Nat /\ KeptUpTo(kept[n], s, ids, n)  BY <1>2, <2>1
    <3>2. n + 1 \in 0 .. Len(s) /\ n + 1 # 0 /\ (n + 1) - 1 = n  BY <1>2, <2>1, <3>1
    <3>3. kept[n + 1] = KeptStep(s, ids, n + 1, kept[n])  BY <1>4, <3>2
    <3>4. KeptUpTo(KeptStep(s, ids, n + 1, kept[n]), s, ids, n + 1)
      BY <2>1, <3>1, KeptOneMore
    <3> QED  BY <3>1, <3>3, <3>4
  <2> QED  BY <2>1
<1> HIDE DEF S
<1>7. S \in SUBSET Nat  BY DEF S
<1>8. S = Nat  BY <1>5, <1>6, <1>7, Induction
<1>9. Len(s) \in S  BY <1>2, <1>8
<1> QED  BY <1>1, <1>2, <1>9 DEF S


\* The edits keep the definition sound, and ids apart.
LEMMA WithoutIsSound ==
  ASSUME NEW d, Sound(d), NEW ids
  PROVE  Sound(Without(d, ids)) /\ (IdsTellNodes(d) => IdsTellNodes(Without(d, ids)))
<1> DEFINE s == d.nodes  t == Kept(s, ids)  w == Without(d, ids)
<1>1. s \in Seq(EditedNodes)
  BY DEF Sound, Shaped
<1>2. KeptUpTo(t, s, ids, Len(s))
  BY <1>1, KeptIs
<1>3. /\ w.nodes = t /\ DOMAIN w = {"nodes", "edges", "guardrails"}
      /\ w.edges = {e \in d.edges : e.source \notin ids /\ e.target \notin ids}
  BY DEF Without
<1> HIDE DEF w, t
<1>4. Shaped(w)
  BY <1>2, <1>3 DEF KeptUpTo, Sound, Shaped
<1>5. \A x \in NodeIds(d) : x \notin ids => x \in NodeIds(w)
  <2>1. ASSUME NEW x \in NodeIds(d), x \notin ids PROVE x \in NodeIds(w)
    <3>1. PICK j \in DOMAIN s : s[j].id = x  BY DEF NodeIds
    <3>2. j \in 1 .. Len(s)  BY <1>1
    <3>3. PICK i \in DOMAIN t : t[i] = s[j]  BY <1>2, <2>1, <3>1, <3>2 DEF KeptUpTo
    <3> QED  BY <1>3, <3>1, <3>3 DEF NodeIds
  <2> QED  BY <2>1
<1>6. Joined(w)
  BY <1>3, <1>5 DEF Joined, Sound
<1>7. StepsTellIds(w)
  <2>1. \A i \in DOMAIN t : \E j \in DOMAIN s : t[i] = s[j]
    BY <1>1, <1>2 DEF KeptUpTo
  <2> QED  BY <1>3, <2>1 DEF StepsTellIds, Sound
<1>8. IdsTellNodes(d) => IdsTellNodes(w)
  BY <1>2, <1>3 DEF KeptUpTo, SeqTold, IdsTellNodes
<1> QED  BY <1>4, <1>6, <1>7, <1>8 DEF Sound, w

\* A node with a new id and a new configuration.
LEMMA AddingIsSound ==
  ASSUME NEW d, Sound(d), NEW n \in EditedNodes, n.id \notin NodeIds(d),
         \A i \in DOMAIN d.nodes : d.nodes[i].step # n.step,
         NEW a, a = [d EXCEPT !.nodes = Append(@, n)]
  PROVE  Sound(a) /\ (IdsTellNodes(d) => IdsTellNodes(a))
<1> DEFINE s == d.nodes  t == Append(s, n)
<1>1. s \in Seq(EditedNodes) /\ Len(s) \in Nat /\ DOMAIN s = 1 .. Len(s)
  BY DEF Sound, Shaped
<1>2. a.nodes = t /\ a.edges = d.edges /\ DOMAIN a = {"nodes", "edges", "guardrails"}
  BY DEF Sound, Shaped
<1>3. /\ t \in Seq(EditedNodes) /\ t[Len(s) + 1] = n
      /\ \A i \in DOMAIN s : i \in DOMAIN t /\ t[i] = s[i]
      /\ \A i \in DOMAIN t : i \in DOMAIN s \/ i = Len(s) + 1
  <2> HIDE DEF s
  <2> QED  BY <1>1
<1> HIDE DEF t
<1>4. Shaped(a)
  BY <1>2, <1>3 DEF Sound, Shaped
<1>5. NodeIds(d) \subseteq NodeIds(a)
  BY <1>2, <1>3 DEF NodeIds
<1>6. Joined(a)
  BY <1>2, <1>5 DEF Sound, Joined
<1>7. StepsTellIds(a)
  BY <1>2, <1>3 DEF Sound, StepsTellIds
<1>8. \A i \in DOMAIN s : s[i].id # n.id
  BY DEF NodeIds
<1>9. IdsTellNodes(d) => IdsTellNodes(a)
  BY <1>2, <1>3, <1>8 DEF IdsTellNodes
<1> QED  BY <1>4, <1>6, <1>7, <1>9 DEF Sound

\* A keystroke in a node's form, as the update of its node.
LEMMA UpdatingIsSound ==
  ASSUME NEW d, Sound(d), NEW i \in DOMAIN d.nodes, NEW id \in Nat,
         NEW n, n = [d.nodes[i] EXCEPT !.id = id], NEW u, u = UpdateNode(d, d.nodes[i].id, n)
  PROVE  /\ Sound(u)
         /\ IdsTellNodes(d) /\ id \notin NodeIds(d) \ {d.nodes[i].id} => IdsTellNodes(u)
<1> DEFINE s == d.nodes  old == s[i].id
           t == [j \in DOMAIN s |-> IF s[j].id = old THEN n ELSE s[j]]
<1>1. s \in Seq(EditedNodes) /\ Len(s) \in Nat /\ DOMAIN s = 1 .. Len(s)
  BY DEF Sound, Shaped
<1>2. n \in EditedNodes /\ n.id = id /\ n.step = s[i].step
  <2>1. s[i] \in EditedNodes  BY <1>1
  <2> QED  BY <2>1 DEF EditedNodes
<1>3. /\ u.nodes = t /\ DOMAIN u = {"nodes", "edges", "guardrails"}
      /\ u.edges = {[e EXCEPT !.source = IF @ = old THEN n.id ELSE @,
                              !.target = IF @ = old THEN n.id ELSE @] : e \in d.edges}
  BY DEF UpdateNode
<1>4. /\ DOMAIN t = DOMAIN s
      /\ \A j \in DOMAIN s : t[j] = IF s[j].id = old THEN n ELSE s[j]
  OBVIOUS
<1>5. t \in Seq(EditedNodes)
  <2>1. \A j \in 1 .. Len(s) : s[j] \in EditedNodes  BY <1>1
  <2>2. t \in [1 .. Len(s) -> EditedNodes]  BY <1>1, <1>2, <2>1
  <2> HIDE DEF t, s
  <2> QED  BY <1>1, <2>2
<1> HIDE DEF t
<1>6. Shaped(u)
  <2>1. \A e \in d.edges : DOMAIN e = {"id", "source", "target", "on"}  BY DEF Sound, Shaped
  <2>2. \A e \in u.edges : DOMAIN e = {"id", "source", "target", "on"}  BY <1>3, <2>1
  <2> QED  BY <1>3, <1>5, <2>2 DEF Shaped
<1>7. \A x \in NodeIds(d) : (IF x = old THEN id ELSE x) \in NodeIds(u)
  <2>1. ASSUME NEW x \in NodeIds(d) PROVE (IF x = old THEN id ELSE x) \in NodeIds(u)
    <3>1. PICK j \in DOMAIN s : s[j].id = x  BY DEF NodeIds
    <3>2. t[j].id = IF x = old THEN id ELSE x  BY <1>2, <1>4, <3>1
    <3> QED  BY <1>3, <1>4, <3>1, <3>2 DEF NodeIds
  <2> QED  BY <2>1
<1>8. Joined(u)
  <2>1. ASSUME NEW e \in d.edges,
               NEW f, f = [e EXCEPT !.source = IF @ = old THEN n.id ELSE @,
                                    !.target = IF @ = old THEN n.id ELSE @]
        PROVE  f.source \in NodeIds(u) /\ f.target \in NodeIds(u)
    <3>1. DOMAIN e = {"id", "source", "target", "on"}  BY DEF Sound, Shaped
    <3>2. /\ f.source = IF e.source = old THEN id ELSE e.source
          /\ f.target = IF e.target = old THEN id ELSE e.target
      BY <1>2, <2>1, <3>1
    <3>3. e.source \in NodeIds(d) /\ e.target \in NodeIds(d)  BY DEF Sound, Joined
    <3> QED  BY <1>7, <3>2, <3>3
  <2> QED  BY <1>3, <2>1 DEF Joined
<1>9. StepsTellIds(u)
  <2>1. \A j, k \in DOMAIN s : s[j].step = s[k].step => s[j].id = s[k].id
    BY DEF Sound, StepsTellIds
  <2>2. \A k \in DOMAIN s : s[k].step = n.step => s[k].id = old  BY <1>2, <2>1
  <2>3. ASSUME NEW j \in DOMAIN s, NEW k \in DOMAIN s, t[j].step = t[k].step
        PROVE  t[j].id = t[k].id
    <3>1. CASE s[j].id = old /\ s[k].id = old  BY <1>4, <3>1
    <3>2. CASE s[j].id # old /\ s[k].id # old  BY <1>4, <2>1, <2>3, <3>2
    <3>3. CASE s[j].id = old /\ s[k].id # old
      <4>1. t[j] = n /\ t[k] = s[k]  BY <1>4, <3>3
      <4> QED  BY <2>2, <2>3, <3>3, <4>1
    <3>4. CASE s[j].id # old /\ s[k].id = old
      <4>1. t[k] = n /\ t[j] = s[j]  BY <1>4, <3>4
      <4> QED  BY <2>2, <2>3, <3>4, <4>1
    <3> QED  BY <3>1, <3>2, <3>3, <3>4
  <2>4. \A j, k \in DOMAIN t : t[j].step = t[k].step => t[j].id = t[k].id
    <3> HIDE DEF s
    <3> QED  BY <1>4, <2>3
  <2>5. u.nodes = t  BY <1>3
  <2> QED  BY <2>4, <2>5 DEF StepsTellIds
<1>10. ASSUME IdsTellNodes(d), id \notin NodeIds(d) \ {old} PROVE IdsTellNodes(u)
  <2>1. \A j, k \in DOMAIN s : s[j].id = s[k].id => j = k  BY <1>10 DEF IdsTellNodes
  <2>2. \A j \in DOMAIN s : s[j].id # old => s[j].id # id  BY <1>10 DEF NodeIds
  <2>3. \A j \in DOMAIN s : t[j].id = IF j = i THEN id ELSE s[j].id  BY <1>2, <1>4, <2>1
  <2>4. \A j \in DOMAIN s : j # i => s[j].id # old  BY <2>1
  <2>5. \A j, k \in DOMAIN s : t[j].id = t[k].id => j = k  BY <2>1, <2>2, <2>3, <2>4
  <2> QED  BY <1>3, <1>4, <2>5 DEF IdsTellNodes
<1> QED  BY <1>6, <1>8, <1>9, <1>10 DEF Sound

\* Other edges between the nodes there are.
LEMMA EdgesAreSound ==
  ASSUME NEW d, Sound(d), NEW edges,
         \A e \in edges : /\ DOMAIN e = {"id", "source", "target", "on"}
                          /\ e.source \in NodeIds(d) /\ e.target \in NodeIds(d),
         NEW c, c = [d EXCEPT !.edges = edges]
  PROVE  Sound(c) /\ (IdsTellNodes(d) => IdsTellNodes(c))
<1>1. c.nodes = d.nodes /\ c.edges = edges /\ DOMAIN c = {"nodes", "edges", "guardrails"}
  BY DEF Sound, Shaped
<1>2. NodeIds(c) = NodeIds(d)
  BY <1>1 DEF NodeIds
<1>3. Shaped(c) /\ Joined(c) /\ StepsTellIds(c)
  BY <1>1, <1>2 DEF Sound, Shaped, Joined, StepsTellIds
<1>4. IdsTellNodes(d) => IdsTellNodes(c)
  BY <1>1 DEF IdsTellNodes
<1> QED  BY <1>3, <1>4 DEF Sound

LEMMA EmptyIsSound == Sound(Empty) /\ IdsTellNodes(Empty)
<1>1. Empty.nodes = << >> /\ Empty.edges = {} /\ DOMAIN Empty = {"nodes", "edges", "guardrails"}
  BY DEF Empty
<1>2. << >> \in Seq(EditedNodes) /\ DOMAIN << >> = {}
  OBVIOUS
<1> QED  BY <1>1, <1>2 DEF Sound, Shaped, Joined, StepsTellIds, IdsTellNodes


LEMMA EditorInvInit == EditorInit => EditorInv
<1> SUFFICES ASSUME EditorInit PROVE EditorInv
  OBVIOUS
<1> DEFINE first == [id |-> 1, step |-> FreshStep(<< >>)]
           one == <<first>>
           second == [id |-> 2, step |-> FreshStep(one)]
           edge == [id |-> FreshEdgeId({}), source |-> 1, target |-> 2, on |-> "success"]
           alone(g) == [nodes |-> one, edges |-> {}, guardrails |-> g]
           both(edges, g) == [nodes |-> Append(one, second), edges |-> edges, guardrails |-> g]
<1>1. Cardinality(Steps) \in Nat /\ Cardinality(Steps) >= 2
  BY EditorAssumption, FS_CardinalityType
<1>2. first \in EditedNodes
  <2>1. PICK s : s = << >>  OBVIOUS
  <2>2. s \in Seq(EditedNodes) /\ Len(s) = 0  BY <2>1
  <2>3. s \in Seq(EditedNodes) /\ Len(s) < Cardinality(Steps)  BY <1>1, <2>2
  <2>4. FreshStep(s) \in Steps  BY <2>3, FreshStepIs
  <2> QED  BY <2>1, <2>4 DEF EditedNodes
<1>3. second \in EditedNodes /\ second.step # first.step /\ second.id = 2 /\ first.id = 1
  <2> HIDE DEF first
  <2>1. one \in Seq(EditedNodes) /\ Len(one) = 1 /\ 1 \in DOMAIN one /\ one[1] = first  BY <1>2
  <2> HIDE DEF one
  <2>2. one \in Seq(EditedNodes) /\ Len(one) < Cardinality(Steps)  BY <1>1, <2>1
  <2>3. FreshStep(one) \in Steps /\ first.step # FreshStep(one)
    <3>1. FreshStep(one) \in Steps /\ \A i \in DOMAIN one : one[i].step # FreshStep(one)
      BY <2>2, FreshStepIs
    <3> QED  BY <2>1, <3>1
  <2>4. second \in EditedNodes /\ second.step # first.step /\ second.id = 2
    BY <2>3 DEF EditedNodes
  <2> QED  BY <2>4 DEF first
<1>4. ASSUME NEW g PROVE Sound(alone(g)) /\ IdsTellNodes(alone(g))
  <2>1. /\ alone(g).nodes = one /\ alone(g).edges = {}
        /\ DOMAIN alone(g) = {"nodes", "edges", "guardrails"}
    OBVIOUS
  <2> HIDE DEF alone, first
  <2>2. one \in Seq(EditedNodes) /\ DOMAIN one = {1}
    BY <1>2
  <2> HIDE DEF one
  <2> QED  BY <2>1, <2>2 DEF Sound, Shaped, Joined, StepsTellIds, IdsTellNodes
<1>5. ASSUME NEW g, NEW edges \in {{}, {edge}} PROVE Sound(both(edges, g)) /\ IdsTellNodes(both(edges, g))
  <2>1. /\ both(edges, g).nodes = Append(one, second) /\ both(edges, g).edges = edges
        /\ DOMAIN both(edges, g) = {"nodes", "edges", "guardrails"}
    OBVIOUS
  <2>2. \A e \in edges : /\ DOMAIN e = {"id", "source", "target", "on"}
                         /\ e.source = 1 /\ e.target = 2
    OBVIOUS
  <2> HIDE DEF both, first, second, edge
  <2>3. PICK s : s = Append(one, second)  OBVIOUS
  <2>4. s \in Seq(EditedNodes) /\ DOMAIN s = {1, 2} /\ s[1] = first /\ s[2] = second
    BY <1>2, <1>3, <2>3
  <2>5. s[1].id = 1 /\ s[2].id = 2 /\ s[1].step # s[2].step
    BY <1>3, <2>4
  <2>6. 1 \in NodeIds(both(edges, g)) /\ 2 \in NodeIds(both(edges, g))
    BY <2>1, <2>3, <2>4, <2>5 DEF NodeIds
  <2>7. Shaped(both(edges, g)) /\ Joined(both(edges, g))
    BY <2>1, <2>2, <2>3, <2>4, <2>6 DEF Shaped, Joined
  <2>8. StepsTellIds(both(edges, g)) /\ IdsTellNodes(both(edges, g))
    BY <2>1, <2>3, <2>4, <2>5 DEF StepsTellIds, IdsTellNodes
  <2> QED  BY <2>7, <2>8 DEF Sound
<1>6. \/ \E g \in BOOLEAN : stored = alone(g)
      \/ \E g \in BOOLEAN : \E edges \in {{}, {edge}} : stored = both(edges, g)
  BY DEF EditorInit
<1> HIDE DEF alone, both, edge
<1>7. Sound(stored) /\ IdsTellNodes(stored)
  BY <1>4, <1>5, <1>6
<1>8. def = Empty /\ page = "loading"
  BY DEF EditorInit
<1> QED  BY <1>7, <1>8, EmptyIsSound DEF EditorInv

\* An edit that keeps the definition sound, and the ids apart unless it clashes.
LEMMA Edited ==
  ASSUME EditorInv, NEW d, SetDefinition(d), Sound(d),
         clashed => clashed', IdsTellNodes(def) /\ ~clashed' => IdsTellNodes(d)
  PROVE  EditorInv'
BY DEF EditorInv, SetDefinition, Sound, Shaped, Joined, StepsTellIds, IdsTellNodes, NodeIds

LEMMA EdgesEdited ==
  ASSUME EditorInv, NEW edges, SetDefinition([def EXCEPT !.edges = edges]), UNCHANGED clashed,
         \A e \in edges : /\ DOMAIN e = {"id", "source", "target", "on"}
                          /\ e.source \in NodeIds(def) /\ e.target \in NodeIds(def)
  PROVE  EditorInv'
<1>1. PICK c : c = [def EXCEPT !.edges = edges]
  OBVIOUS
<1>2. Sound(c) /\ (IdsTellNodes(def) => IdsTellNodes(c))
  BY <1>1, EdgesAreSound DEF EditorInv
<1> QED  BY <1>1, <1>2, Edited


LEMMA AddNodeKeeps == ASSUME EditorInv, AddNode PROVE EditorInv'
<1> DEFINE n == [id |-> NewId(def), step |-> FreshStep(def.nodes)]
<1>1. Sound(def) /\ Shaped(def) /\ def.nodes \in Seq(EditedNodes)
  BY DEF EditorInv, Sound, Shaped
<1>2. NewId(def) \in Nat /\ NewId(def) \notin NodeIds(def)
  BY <1>1, NewIdIs
<1>3. Len(def.nodes) < Cardinality(Steps)
  BY DEF AddNode
<1>4. FreshStep(def.nodes) \in Steps /\ \A i \in DOMAIN def.nodes : def.nodes[i].step # FreshStep(def.nodes)
  BY <1>1, <1>3, FreshStepIs
<1>5. n \in EditedNodes /\ n.id \notin NodeIds(def) /\ \A i \in DOMAIN def.nodes : def.nodes[i].step # n.step
  BY <1>2, <1>4 DEF EditedNodes
<1>6. SetDefinition([def EXCEPT !.nodes = Append(@, n)]) /\ UNCHANGED clashed
  BY DEF AddNode
<1> HIDE DEF n
<1>7. PICK a : a = [def EXCEPT !.nodes = Append(@, n)]
  OBVIOUS
<1>8. Sound(a) /\ (IdsTellNodes(def) => IdsTellNodes(a))
  BY <1>1, <1>5, <1>7, AddingIsSound
<1> QED  BY <1>6, <1>7, <1>8, Edited

LEMMA RemovalKeeps ==
  ASSUME EditorInv, NEW ids, SetDefinition(Without(def, ids)), UNCHANGED clashed
  PROVE  EditorInv'
<1>1. PICK w : w = Without(def, ids)
  OBVIOUS
<1>2. Sound(w) /\ (IdsTellNodes(def) => IdsTellNodes(w))
  BY <1>1, WithoutIsSound DEF EditorInv
<1> QED  BY <1>1, <1>2, Edited

LEMMA EditNodeKeeps ==
  ASSUME EditorInv, NEW i \in DOMAIN def.nodes, NEW id \in 0 .. MaxId,
         EditNode(i, [def.nodes[i] EXCEPT !.id = id])
  PROVE  EditorInv'
<1>1. PICK n : n = [def.nodes[i] EXCEPT !.id = id]
  OBVIOUS
<1>2. PICK u : u = UpdateNode(def, def.nodes[i].id, n)
  OBVIOUS
<1>3. Sound(def) /\ id \in Nat
  BY DEF EditorInv
<1>4. /\ Sound(u)
      /\ IdsTellNodes(def) /\ id \notin NodeIds(def) \ {def.nodes[i].id} => IdsTellNodes(u)
  BY <1>1, <1>2, <1>3, UpdatingIsSound
<1>5. SetDefinition(u) /\ clashed' = (clashed \/ n.id \in NodeIds(def) \ {def.nodes[i].id})
  BY <1>1, <1>2 DEF EditNode
<1>6. n.id = id
  <2>1. def.nodes[i] \in EditedNodes  BY <1>3, NodesAre DEF Sound
  <2> QED  BY <1>1, <2>1 DEF EditedNodes
<1>7. (clashed => clashed') /\ (IdsTellNodes(def) /\ ~clashed' => IdsTellNodes(u))
  BY <1>4, <1>5, <1>6
<1> QED  BY <1>4, <1>5, <1>7, Edited

LEMMA PutEdgeKeeps ==
  ASSUME EditorInv, NEW source \in NodeIds(def), NEW target \in NodeIds(def), PutEdge(source, target)
  PROVE  EditorInv'
<1> DEFINE e == [id |-> FreshEdgeId(def.edges), source |-> source, target |-> target, on |-> "success"]
<1>1. \A f \in def.edges : /\ DOMAIN f = {"id", "source", "target", "on"}
                           /\ f.source \in NodeIds(def) /\ f.target \in NodeIds(def)
  BY DEF EditorInv, Sound, Shaped, Joined
<1>2. DOMAIN e = {"id", "source", "target", "on"} /\ e.source \in NodeIds(def) /\ e.target \in NodeIds(def)
  OBVIOUS
<1>3. SetDefinition([def EXCEPT !.edges = @ \union {e}]) /\ UNCHANGED clashed
  BY DEF PutEdge
<1> HIDE DEF e
<1>4. PICK edges : edges = def.edges \union {e}
  OBVIOUS
<1>5. \A f \in edges : /\ DOMAIN f = {"id", "source", "target", "on"}
                       /\ f.source \in NodeIds(def) /\ f.target \in NodeIds(def)
  BY <1>1, <1>2, <1>4
<1> QED  BY <1>3, <1>4, <1>5, EdgesEdited

LEMMA PatchEdgeKeeps ==
  ASSUME EditorInv, NEW e \in def.edges, NEW p, DOMAIN p = DOMAIN e, PatchEdge(e, p)
  PROVE  EditorInv'
<1>1. \A f \in def.edges : /\ DOMAIN f = {"id", "source", "target", "on"}
                           /\ f.source \in NodeIds(def) /\ f.target \in NodeIds(def)
  BY DEF EditorInv, Sound, Shaped, Joined
<1>2. /\ DOMAIN p = {"id", "source", "target", "on"}
      /\ p.source \in NodeIds(def) /\ p.target \in NodeIds(def)
  BY <1>1 DEF PatchEdge
<1>3. SetDefinition([def EXCEPT !.edges = (@ \ {e}) \union {p}]) /\ UNCHANGED clashed
  BY DEF PatchEdge
<1>4. PICK edges : edges = (def.edges \ {e}) \union {p}
  OBVIOUS
<1>5. \A f \in edges : /\ DOMAIN f = {"id", "source", "target", "on"}
                       /\ f.source \in NodeIds(def) /\ f.target \in NodeIds(def)
  BY <1>1, <1>2, <1>4
<1> QED  BY <1>3, <1>4, <1>5, EdgesEdited

LEMMA RemoveEdgesKeeps == ASSUME EditorInv, NEW gone, RemoveEdges(gone) PROVE EditorInv'
<1>1. PICK edges : edges = def.edges \ gone
  OBVIOUS
<1>2. \A f \in edges : /\ DOMAIN f = {"id", "source", "target", "on"}
                       /\ f.source \in NodeIds(def) /\ f.target \in NodeIds(def)
  BY <1>1 DEF EditorInv, Sound, Shaped, Joined
<1>3. SetDefinition([def EXCEPT !.edges = edges]) /\ UNCHANGED clashed
  BY <1>1 DEF RemoveEdges
<1> QED  BY <1>2, <1>3, EdgesEdited

LEMMA EditorInvStep == ASSUME EditorInv, [EditorNext]_editorVars PROVE EditorInv'
<1>1. CASE LoadFlow
  <2>1. def' = stored /\ stored' = stored  BY <1>1 DEF LoadFlow
  <2> QED  BY <2>1 DEF EditorInv, Sound, Shaped, Joined, StepsTellIds, IdsTellNodes, NodeIds
<1>2. CASE LeavePage \/ Save
  <2>1. def' = Empty /\ page' # "open"  BY <1>2 DEF LeavePage, Save
  <2>2. Sound(def)'
    BY <2>1, EmptyIsSound DEF Sound, Shaped, Joined, StepsTellIds, IdsTellNodes, NodeIds
  <2>3. Sound(stored)' /\ IdsTellNodes(stored)'
    <3>1. CASE LeavePage
      BY <3>1 DEF LeavePage, EditorInv, Sound, Shaped, Joined, StepsTellIds, IdsTellNodes, NodeIds
    <3>2. CASE Save
      <4>1. UniqueIds(def) /\ stored' = def  BY <3>2 DEF Save, ValidDefinition
      <4>2. Sound(def) /\ IdsTellNodes(def)  BY <4>1, CountedIds DEF EditorInv, Sound
      <4> QED  BY <4>1, <4>2 DEF Sound, Shaped, Joined, StepsTellIds, IdsTellNodes, NodeIds
    <3> QED  BY <1>2, <3>1, <3>2
  <2> QED  BY <2>1, <2>2, <2>3 DEF EditorInv
<1>3. CASE SaveRefused \/ UNCHANGED editorVars
  BY <1>3 DEF SaveRefused, editorVars, EditorInv, Sound, Shaped, Joined, StepsTellIds, IdsTellNodes, NodeIds
<1>4. CASE AddNode
  BY <1>4, AddNodeKeeps
<1>5. CASE AddEdge
  <2>1. Shaped(def) /\ def.nodes # << >> /\ def.nodes \in Seq(EditedNodes)
    BY <1>5 DEF AddEdge, EditorInv, Sound, Shaped
  <2>2. 1 \in DOMAIN def.nodes /\ (IF Len(def.nodes) > 1 THEN 2 ELSE 1) \in DOMAIN def.nodes
    BY <2>1
  <2>3. /\ def.nodes[1].id \in NodeIds(def)
        /\ def.nodes[IF Len(def.nodes) > 1 THEN 2 ELSE 1].id \in NodeIds(def)
    BY <2>2 DEF NodeIds
  <2> QED  BY <1>5, <2>3, PutEdgeKeeps DEF AddEdge
<1>6. CASE \E id \in NodeIds(def) : RemoveNode(id)
  BY <1>6, RemovalKeeps DEF RemoveNode
<1>7. CASE \E i \in DOMAIN def.nodes, id \in 0 .. MaxId : EditNode(i, [def.nodes[i] EXCEPT !.id = id])
  BY <1>7, EditNodeKeeps
<1>8. CASE \E source, target \in NodeIds(def) : Connect(source, target)
  BY <1>8, PutEdgeKeeps DEF Connect
<1>9. CASE \E e \in def.edges, id \in NodeIds(def) :
             PatchEdge(e, [e EXCEPT !.source = id]) \/ PatchEdge(e, [e EXCEPT !.target = id])
  <2>1. \A e, id : DOMAIN [e EXCEPT !.source = id] = DOMAIN e /\ DOMAIN [e EXCEPT !.target = id] = DOMAIN e
    OBVIOUS
  <2> QED  BY <1>9, <2>1, PatchEdgeKeeps
<1>10. CASE \E e \in def.edges, on \in Conditions : PatchEdge(e, [e EXCEPT !.on = on])
  <2>1. \A e, on : DOMAIN [e EXCEPT !.on = on] = DOMAIN e
    OBVIOUS
  <2> QED  BY <1>10, <2>1, PatchEdgeKeeps
<1>11. CASE \E edges \in SUBSET def.edges : RemoveEdges(edges)
  BY <1>11, RemoveEdgesKeeps
<1>12. CASE \E ids \in SUBSET NodeIds(def) : DeleteSelection(ids)
  BY <1>12, RemovalKeeps DEF DeleteSelection
<1> QED
  BY <1>1, <1>2, <1>3, <1>4, <1>5, <1>6, <1>7, <1>8, <1>9, <1>10, <1>11, <1>12 DEF EditorNext

THEOREM EditedEdgesJoin == EditorSpec => []NoDanglingEdge
<1>1. EditorInit => EditorInv
  BY EditorInvInit
<1>2. EditorInv /\ [EditorNext]_editorVars => EditorInv'
  BY EditorInvStep
<1>3. EditorInv => NoDanglingEdge
  BY DEF EditorInv, Sound, Joined, NoDanglingEdge
<1> QED  BY <1>1, <1>2, <1>3, PTL DEF EditorSpec

THEOREM EditedNodesDiffer == EditorSpec => []NodesDistinct
<1>1. EditorInit => EditorInv
  BY EditorInvInit
<1>2. EditorInv /\ [EditorNext]_editorVars => EditorInv'
  BY EditorInvStep
<1>3. EditorInv => NodesDistinct
  <2>1. SUFFICES ASSUME EditorInv, page = "open", ~clashed
                 PROVE  /\ UniqueIds(def)
                        /\ \A i, j \in DOMAIN def.nodes :
                             def.nodes[i].step = def.nodes[j].step => i = j
    BY DEF NodesDistinct
  <2>2. Shaped(def) /\ IdsTellNodes(def) /\ StepsTellIds(def)
    BY <2>1 DEF EditorInv, Sound
  <2>3. UniqueIds(def)
    BY <2>2, CountedIds
  <2> QED  BY <2>2, <2>3 DEF StepsTellIds, IdsTellNodes
<1> QED  BY <1>1, <1>2, <1>3, PTL DEF EditorSpec

-----------------------------------------------------------------------------
(* The search for a cycle *)

Colorings(d) == [NodeIds(d) -> {"white", "gray", "black"}]
Painted(c, paint) == {n \in DOMAIN c : c[n] = paint}

\* One call of Visit, where f does the calls it makes.
Chosen(todo) == CHOOSE id \in todo : TRUE
BelowOf(f, d, next, c) ==
  IF c[next] = "white" THEN f[Adjacent(d, next)][[c EXCEPT ![next] = "gray"]]
  ELSE [found |-> c[next] = "gray", color |-> c]
Visited(f, d, todo, c) ==
  IF todo = {} THEN [found |-> FALSE, color |-> c]
  ELSE IF BelowOf(f, d, Chosen(todo), c).found THEN BelowOf(f, d, Chosen(todo), c)
  ELSE f[todo \ {Chosen(todo)}][[BelowOf(f, d, Chosen(todo), c).color EXCEPT ![Chosen(todo)] = "black"]]

\* The flows that are searched, whose edges lead to nodes.
Searched(d) == IsFiniteSet(NodeIds(d)) /\ \A e \in d.edges : e.target \in NodeIds(d)

\* A call with fewer white nodes, or no more of them and fewer nodes to do.
Smaller(u, b, todo, c) ==
  /\ Painted(b, "white") \subseteq Painted(c, "white")
  /\ Painted(b, "white") # Painted(c, "white") \/ (u \subseteq todo /\ u # todo)

Size(d, todo, c) == Cardinality(Painted(c, "white")) * (Cardinality(NodeIds(d)) + 1) + Cardinality(todo)

\* Done with: nodes that lead to each other alone, and without a cycle.
DoneWith(d, nodes) ==
  /\ \A n \in nodes : Adjacent(d, n) \subseteq nodes
  /\ \A left \in (SUBSET nodes) \ {{}} :
       \E n \in left : \A e \in d.edges : e.target = n => e.source \notin left

\* What a call may return: with no cycle found, the nodes to do are done with.
Advances(d, todo, c, b) ==
  DoneWith(d, Painted(c, "black")) =>
    /\ DoneWith(d, Painted(b, "black"))
    /\ todo \subseteq Painted(b, "black") /\ Painted(c, "black") \subseteq Painted(b, "black")
    /\ Painted(b, "gray") = Painted(c, "gray")
Returns(d, todo, c, r) ==
  \E found \in BOOLEAN, b \in Colorings(d) :
    /\ r = [found |-> found, color |-> b]
    /\ Painted(b, "white") \subseteq Painted(c, "white")
    /\ ~found => Advances(d, todo, c, b)

LEMMA Multiplied == ASSUME NEW a \in Nat, NEW b \in Nat, NEW n \in Nat, a <= b
                    PROVE  a * n <= b * n /\ a * n \in Nat /\ b * n \in Nat
<1> DEFINE S == {m \in Nat : a * m <= b * m}
<1>1. 0 \in S  OBVIOUS
<1>2. ASSUME NEW m \in S PROVE m + 1 \in S
  <2>1. a * (m + 1) = a * m + a /\ b * (m + 1) = b * m + b  OBVIOUS
  <2> QED  BY <2>1
<1> HIDE DEF S
<1>3. S \in SUBSET Nat  BY DEF S
<1>4. S = Nat  BY <1>1, <1>2, <1>3, Induction
<1> QED  BY <1>4 DEF S

LEMMA SizeFalls ==
  ASSUME NEW d, Searched(d), NEW u \in SUBSET NodeIds(d), NEW b \in Colorings(d),
         NEW todo \in SUBSET NodeIds(d), NEW c \in Colorings(d), Smaller(u, b, todo, c)
  PROVE  Size(d, u, b) \in Nat /\ Size(d, todo, c) \in Nat /\ Size(d, u, b) < Size(d, todo, c)
<1> DEFINE N == NodeIds(d)  few == Painted(b, "white")  many == Painted(c, "white")
<1>1. IsFiniteSet(N) /\ few \in SUBSET many /\ many \in SUBSET N
  BY DEF Searched, Smaller, Painted, Colorings
<1>2. few # many \/ (u \subseteq todo /\ u # todo)
  BY DEF Smaller
<1> HIDE DEF N, few, many
<1>3. IsFiniteSet(many) /\ IsFiniteSet(todo) /\ IsFiniteSet(u)
  BY <1>1, FS_Subset DEF N
<1>4. Cardinality(few) <= Cardinality(many) /\ (Cardinality(few) = Cardinality(many) => few = many)
  BY <1>1, <1>3, FS_Subset
<1>5. Cardinality(u) <= Cardinality(N)
  BY <1>1, FS_Subset DEF N
<1>6. u \subseteq todo /\ u # todo => Cardinality(u) < Cardinality(todo)
  <2>1. SUFFICES ASSUME u \in SUBSET todo, u # todo PROVE Cardinality(u) < Cardinality(todo)
    OBVIOUS
  <2>2. Cardinality(u) <= Cardinality(todo) /\ Cardinality(u) # Cardinality(todo)
    BY <1>3, <2>1, FS_Subset
  <2>3. Cardinality(u) \in Nat /\ Cardinality(todo) \in Nat
    BY <1>3, FS_CardinalityType
  <2> QED  BY <2>2, <2>3
<1>7. IsFiniteSet(few)  BY <1>1, <1>3, FS_Subset
<1>8. PICK w, v, n, x, y :
        /\ w = Cardinality(few) /\ v = Cardinality(many) /\ n = Cardinality(N)
        /\ x = Cardinality(u) /\ y = Cardinality(todo)
  OBVIOUS
<1>9. w \in Nat /\ v \in Nat /\ n \in Nat /\ x \in Nat /\ y \in Nat
  BY <1>1, <1>3, <1>7, <1>8, FS_CardinalityType
<1>10. w <= v /\ x <= n /\ (w = v => x < y)
  BY <1>2, <1>4, <1>5, <1>6, <1>8
<1>11. Size(d, u, b) = w * (n + 1) + x /\ Size(d, todo, c) = v * (n + 1) + y
  BY <1>8 DEF Size, few, many, N
<1>12. w * (n + 1) \in Nat /\ v * (n + 1) \in Nat
  BY <1>9, <1>10, Multiplied
<1>13. CASE w = v
  BY <1>9, <1>10, <1>11, <1>12, <1>13
<1>14. CASE w # v
  <2>1. w + 1 \in Nat /\ w + 1 <= v /\ n + 1 \in Nat  BY <1>9, <1>10, <1>14
  <2>2. (w + 1) * (n + 1) <= v * (n + 1)  BY <1>9, <2>1, Multiplied
  <2>3. (w + 1) * (n + 1) = w * (n + 1) + (n + 1)  BY <1>9
  <2> QED  BY <1>9, <1>10, <1>11, <1>12, <2>2, <2>3
<1> QED  BY <1>13, <1>14

RepaintedAs(b, c, n, paint) == b = [c EXCEPT ![n] = paint]

LEMMA Repainted ==
  ASSUME NEW d, NEW c \in Colorings(d), NEW n \in NodeIds(d), NEW paint \in {"white", "gray", "black"},
         NEW b, RepaintedAs(b, c, n, paint)
  PROVE  /\ b \in Colorings(d)
         /\ Painted(b, paint) = Painted(c, paint) \union {n}
         /\ \A other : other # paint => Painted(b, other) = Painted(c, other) \ {n}
<1>1. b = [c EXCEPT ![n] = paint]  BY DEF RepaintedAs
<1>2. b \in Colorings(d) /\ DOMAIN b = NodeIds(d) /\ DOMAIN c = NodeIds(d)
  BY <1>1 DEF Colorings
<1>3. \A m \in NodeIds(d) : b[m] = IF m = n THEN paint ELSE c[m]
  BY <1>1 DEF Colorings
<1>4. \A m : m \in Painted(b, paint) <=> m \in Painted(c, paint) \union {n}
  BY <1>2, <1>3 DEF Painted
<1>5. ASSUME NEW other, other # paint
      PROVE  \A m : m \in Painted(b, other) <=> m \in Painted(c, other) \ {n}
  BY <1>2, <1>3, <1>5 DEF Painted
<1>6. Painted(b, paint) = Painted(c, paint) \union {n}  BY <1>4
<1>7. \A other : other # paint => Painted(b, other) = Painted(c, other) \ {n}  BY <1>5
<1> QED  BY <1>2, <1>6, <1>7

LEMMA Grayed ==
  ASSUME NEW d, NEW c \in Colorings(d), NEW n \in NodeIds(d), NEW b, RepaintedAs(b, c, n, "gray")
  PROVE  /\ b \in Colorings(d) /\ Painted(b, "gray") = Painted(c, "gray") \union {n}
         /\ Painted(b, "white") = Painted(c, "white") \ {n} /\ Painted(b, "black") = Painted(c, "black") \ {n}
<1>1. "gray" \in {"white", "gray", "black"} /\ "white" # "gray" /\ "black" # "gray"
  OBVIOUS
<1> QED  BY <1>1, Repainted

LEMMA Blackened ==
  ASSUME NEW d, NEW c \in Colorings(d), NEW n \in NodeIds(d), NEW b, RepaintedAs(b, c, n, "black")
  PROVE  /\ b \in Colorings(d) /\ Painted(b, "black") = Painted(c, "black") \union {n}
         /\ Painted(b, "white") = Painted(c, "white") \ {n} /\ Painted(b, "gray") = Painted(c, "gray") \ {n}
<1>1. "black" \in {"white", "gray", "black"} /\ "white" # "black" /\ "gray" # "black"
  OBVIOUS
<1> QED  BY <1>1, Repainted

\* One more node is done with when all it leads to is.
LEMMA OneMoreDone ==
  ASSUME NEW d, NEW nodes, DoneWith(d, nodes), NEW n, n \notin nodes, Adjacent(d, n) \subseteq nodes
  PROVE  DoneWith(d, nodes \union {n})
<1>1. \A m \in nodes \union {n} : Adjacent(d, m) \subseteq nodes
  BY DEF DoneWith
<1>2. ASSUME NEW left \in (SUBSET (nodes \union {n})) \ {{}}
      PROVE  \E m \in left : \A e \in d.edges : e.target = m => e.source \notin left
  <2>1. CASE n \in left
    <3>1. ASSUME NEW e \in d.edges, e.target = n, e.source \in left PROVE FALSE
      <4>1. e.target \in Adjacent(d, e.source)  BY DEF Adjacent
      <4> QED  BY <1>1, <3>1, <4>1
    <3> QED  BY <2>1, <3>1
  <2>2. CASE n \notin left
    <3>1. left \in (SUBSET nodes) \ {{}}  BY <2>2
    <3> QED  BY <3>1 DEF DoneWith
  <2> QED  BY <2>1, <2>2
<1> QED  BY <1>1, <1>2 DEF DoneWith

\* What f returns is known for the calls smaller than this one.
Known(f, d, todo, c) ==
  \A u \in SUBSET NodeIds(d), b \in Colorings(d) : Smaller(u, b, todo, c) => Returns(d, u, b, f[u][b])

\* Below one node, n: with nothing found it and what is below it are done with.
Settles(d, n, c, b) ==
  DoneWith(d, Painted(c, "black")) =>
    /\ DoneWith(d, Painted(b, "black"))
    /\ n \in Painted(b, "black") /\ Painted(c, "black") \subseteq Painted(b, "black")
    /\ Painted(b, "gray") = Painted(c, "gray")

LEMMA AdjacentAre == ASSUME NEW d, Searched(d), NEW n PROVE Adjacent(d, n) \in SUBSET NodeIds(d)
BY DEF Searched, Adjacent

LEMMA BelowSmaller ==
  ASSUME NEW d, NEW todo \in SUBSET NodeIds(d), NEW c \in Colorings(d), NEW n \in todo, NEW u,
         c[n] = "white", NEW b, RepaintedAs(b, c, n, "gray")
  PROVE  Smaller(u, b, todo, c)
<1>1. Painted(b, "white") = Painted(c, "white") \ {n}
  BY Grayed
<1>2. n \in Painted(c, "white")
  BY DEF Painted, Colorings
<1> QED  BY <1>1, <1>2 DEF Smaller

LEMMA BelowIs ==
  ASSUME NEW d, Searched(d), NEW todo \in SUBSET NodeIds(d), NEW c \in Colorings(d), NEW n \in todo,
         NEW f, Known(f, d, todo, c)
  PROVE  \E found \in BOOLEAN, b \in Colorings(d) :
           /\ BelowOf(f, d, n, c) = [found |-> found, color |-> b]
           /\ Painted(b, "white") \subseteq Painted(c, "white")
           /\ \A e : ~found /\ RepaintedAs(e, b, n, "black") => Settles(d, n, c, e)
<1>1. n \in NodeIds(d)
  OBVIOUS
<1>2. CASE c[n] = "white"
  <2>1. PICK g : g = [c EXCEPT ![n] = "gray"]  OBVIOUS
  <2>0. RepaintedAs(g, c, n, "gray")  BY <2>1 DEF RepaintedAs
  <2>2. /\ g \in Colorings(d) /\ Painted(g, "gray") = Painted(c, "gray") \union {n}
        /\ Painted(g, "white") = Painted(c, "white") \ {n} /\ Painted(g, "black") = Painted(c, "black") \ {n}
    BY <1>1, <2>0, Grayed
  <2>3. n \notin Painted(c, "gray") /\ n \notin Painted(c, "black")
    BY <1>2 DEF Painted
  <2>4. BelowOf(f, d, n, c) = f[Adjacent(d, n)][g]
    BY <1>2, <2>1 DEF BelowOf
  <2>5. Returns(d, Adjacent(d, n), g, f[Adjacent(d, n)][g])
    <3>1. Smaller(Adjacent(d, n), g, todo, c)  BY <1>2, <2>0, BelowSmaller
    <3>2. Adjacent(d, n) \in SUBSET NodeIds(d)  BY AdjacentAre
    <3> QED  BY <2>2, <3>1, <3>2 DEF Known
  <2>6. PICK found \in BOOLEAN, b \in Colorings(d) :
          /\ f[Adjacent(d, n)][g] = [found |-> found, color |-> b]
          /\ Painted(b, "white") \subseteq Painted(g, "white")
          /\ ~found => Advances(d, Adjacent(d, n), g, b)
    BY <2>5 DEF Returns
  <2>7. ASSUME NEW e, ~found, RepaintedAs(e, b, n, "black") PROVE Settles(d, n, c, e)
    <3>2. Painted(e, "black") = Painted(b, "black") \union {n} /\ Painted(e, "gray") = Painted(b, "gray") \ {n}
      BY <1>1, <2>7, Blackened
    <3>3. ASSUME DoneWith(d, Painted(c, "black"))
          PROVE  /\ DoneWith(d, Painted(e, "black"))
                 /\ n \in Painted(e, "black") /\ Painted(c, "black") \subseteq Painted(e, "black")
                 /\ Painted(e, "gray") = Painted(c, "gray")
      <4>1. Painted(g, "black") = Painted(c, "black")  BY <2>2, <2>3
      <4>2. /\ DoneWith(d, Painted(b, "black"))
            /\ Adjacent(d, n) \subseteq Painted(b, "black") /\ Painted(c, "black") \subseteq Painted(b, "black")
            /\ Painted(b, "gray") = Painted(c, "gray") \union {n}
        BY <2>2, <2>6, <2>7, <3>3, <4>1 DEF Advances
      <4>3. n \notin Painted(b, "black")
        <5>1. n \in Painted(b, "gray")  BY <4>2
        <5> QED  BY <5>1 DEF Painted
      <4>4. DoneWith(d, Painted(b, "black") \union {n})  BY <4>2, <4>3, OneMoreDone
      <4> QED  BY <2>3, <3>2, <4>2, <4>4
    <3> QED  BY <3>3 DEF Settles
  <2> QED  BY <2>2, <2>4, <2>6, <2>7
<1>3. CASE c[n] # "white"
  <2>1. PICK found : found = (c[n] = "gray")  OBVIOUS
  <2>2. found \in BOOLEAN /\ BelowOf(f, d, n, c) = [found |-> found, color |-> c]
    BY <1>3, <2>1 DEF BelowOf
  <2>3. ASSUME NEW e, ~found, RepaintedAs(e, c, n, "black") PROVE Settles(d, n, c, e)
    <3>1. c[n] = "black"  BY <1>1, <1>3, <2>1, <2>3 DEF Colorings
    <3>3. e = c  BY <1>1, <2>3, <3>1 DEF Colorings, RepaintedAs
    <3>4. n \in Painted(c, "black")  BY <1>1, <3>1 DEF Painted, Colorings
    <3> QED  BY <3>3, <3>4 DEF Settles
  <2> QED  BY <2>2, <2>3
<1> QED  BY <1>2, <1>3

LEMMA RestSmaller ==
  ASSUME NEW d, NEW todo \in SUBSET NodeIds(d), NEW c \in Colorings(d), NEW n \in todo,
         NEW b \in Colorings(d), Painted(b, "white") \subseteq Painted(c, "white"),
         NEW e, RepaintedAs(e, b, n, "black")
  PROVE  e \in Colorings(d) /\ Painted(e, "white") \subseteq Painted(c, "white") /\ Smaller(todo \ {n}, e, todo, c)
<1>1. e \in Colorings(d) /\ Painted(e, "white") = Painted(b, "white") \ {n}
  BY Blackened
<1> QED  BY <1>1 DEF Smaller

LEMMA VisitedReturns ==
  ASSUME NEW d, Searched(d), NEW todo \in SUBSET NodeIds(d), NEW c \in Colorings(d),
         NEW f, Known(f, d, todo, c)
  PROVE  Returns(d, todo, c, Visited(f, d, todo, c))
<1>1. CASE todo = {}
  <2>1. Visited(f, d, todo, c) = [found |-> FALSE, color |-> c]
    BY <1>1 DEF Visited
  <2>2. Advances(d, todo, c, c)
    BY <1>1 DEF Advances
  <2> QED  BY <2>1, <2>2 DEF Returns
<1>2. CASE todo # {}
  <2>1. PICK n : n = Chosen(todo)  OBVIOUS
  <2>2. n \in todo  BY <1>2, <2>1 DEF Chosen
  <2>3. PICK found \in BOOLEAN, b \in Colorings(d) :
          /\ BelowOf(f, d, n, c) = [found |-> found, color |-> b]
          /\ Painted(b, "white") \subseteq Painted(c, "white")
          /\ \A e : ~found /\ RepaintedAs(e, b, n, "black") => Settles(d, n, c, e)
    BY <2>2, BelowIs
  <2>4. BelowOf(f, d, n, c).found = found /\ BelowOf(f, d, n, c).color = b
    BY <2>3
  <2>5. CASE found
    <3>1. Visited(f, d, todo, c) = [found |-> found, color |-> b]
      BY <1>2, <2>1, <2>3, <2>4, <2>5 DEF Visited
    <3> QED  BY <2>3, <2>5, <3>1 DEF Returns
  <2>6. CASE ~found
    <3>1. PICK e : e = [b EXCEPT ![n] = "black"]  OBVIOUS
    <3>2. Visited(f, d, todo, c) = f[todo \ {n}][e]
      BY <1>2, <2>1, <2>4, <2>6, <3>1 DEF Visited
    <3>3. RepaintedAs(e, b, n, "black")  BY <3>1 DEF RepaintedAs
    <3>4. Settles(d, n, c, e)  BY <2>3, <2>6, <3>3
    <3>5. e \in Colorings(d) /\ Painted(e, "white") \subseteq Painted(c, "white") /\ Smaller(todo \ {n}, e, todo, c)
      BY <2>2, <2>3, <3>3, RestSmaller
    <3>6. Returns(d, todo \ {n}, e, f[todo \ {n}][e])
      <4>1. todo \ {n} \in SUBSET NodeIds(d)  OBVIOUS
      <4> QED  BY <3>5, <4>1 DEF Known
    <3>7. PICK late \in BOOLEAN, z \in Colorings(d) :
            /\ f[todo \ {n}][e] = [found |-> late, color |-> z]
            /\ Painted(z, "white") \subseteq Painted(e, "white")
            /\ ~late => Advances(d, todo \ {n}, e, z)
      BY <3>6 DEF Returns
    <3>8. ~late => Advances(d, todo, c, z)
      <4>1. SUFFICES ASSUME ~late, DoneWith(d, Painted(c, "black"))
                     PROVE  /\ DoneWith(d, Painted(z, "black"))
                            /\ todo \subseteq Painted(z, "black") /\ Painted(c, "black") \subseteq Painted(z, "black")
                            /\ Painted(z, "gray") = Painted(c, "gray")
        BY DEF Advances
      <4>2. /\ DoneWith(d, Painted(e, "black"))
            /\ n \in Painted(e, "black") /\ Painted(c, "black") \subseteq Painted(e, "black")
            /\ Painted(e, "gray") = Painted(c, "gray")
        BY <3>4, <4>1 DEF Settles
      <4>3. /\ DoneWith(d, Painted(z, "black"))
            /\ todo \ {n} \subseteq Painted(z, "black") /\ Painted(e, "black") \subseteq Painted(z, "black")
            /\ Painted(z, "gray") = Painted(e, "gray")
        BY <3>7, <4>1, <4>2 DEF Advances
      <4> QED  BY <4>2, <4>3
    <3>9. Painted(z, "white") \subseteq Painted(c, "white")  BY <3>5, <3>7
    <3> QED  BY <3>2, <3>7, <3>8, <3>9 DEF Returns
  <2> QED  BY <2>5, <2>6
<1> QED  BY <1>1, <1>2

\* A call depends on smaller ones alone.
LEMMA VisitedSame ==
  ASSUME NEW d, Searched(d), NEW todo \in SUBSET NodeIds(d), NEW c \in Colorings(d),
         NEW f, Known(f, d, todo, c), NEW g,
         \A u \in SUBSET NodeIds(d), b \in Colorings(d) : Smaller(u, b, todo, c) => g[u][b] = f[u][b]
  PROVE  Visited(g, d, todo, c) = Visited(f, d, todo, c)
<1>1. CASE todo = {}
  BY <1>1 DEF Visited
<1>2. CASE todo # {}
  <2>1. PICK n : n = Chosen(todo)  OBVIOUS
  <2>2. n \in todo  BY <1>2, <2>1 DEF Chosen
  <2>3. PICK found \in BOOLEAN, b \in Colorings(d) :
          /\ BelowOf(f, d, n, c) = [found |-> found, color |-> b]
          /\ Painted(b, "white") \subseteq Painted(c, "white")
    BY <2>2, BelowIs
  <2>4. BelowOf(f, d, n, c).color = b
    BY <2>3
  <2>5. BelowOf(g, d, n, c) = BelowOf(f, d, n, c)
    <3>1. CASE c[n] = "white"
      <4>1. PICK z : z = [c EXCEPT ![n] = "gray"]  OBVIOUS
      <4>2. RepaintedAs(z, c, n, "gray")  BY <4>1 DEF RepaintedAs
      <4>3. z \in Colorings(d)  BY <2>2, <4>2, Grayed
      <4>4. Smaller(Adjacent(d, n), z, todo, c)  BY <2>2, <3>1, <4>2, BelowSmaller
      <4>5. Adjacent(d, n) \in SUBSET NodeIds(d)  BY AdjacentAre
      <4>6. g[Adjacent(d, n)][z] = f[Adjacent(d, n)][z]  BY <4>3, <4>4, <4>5
      <4> QED  BY <3>1, <4>1, <4>6 DEF BelowOf
    <3>2. CASE c[n] # "white"
      BY <3>2 DEF BelowOf
    <3> QED  BY <3>1, <3>2
  <2>6. PICK e : e = [b EXCEPT ![n] = "black"]  OBVIOUS
  <2>7. RepaintedAs(e, b, n, "black")  BY <2>6 DEF RepaintedAs
  <2>8. e \in Colorings(d) /\ Smaller(todo \ {n}, e, todo, c)
    BY <2>2, <2>3, <2>7, RestSmaller
  <2>9. g[todo \ {n}][e] = f[todo \ {n}][e]
    <3>1. todo \ {n} \in SUBSET NodeIds(d)  OBVIOUS
    <3> QED  BY <2>8, <3>1
  <2> QED  BY <1>2, <2>1, <2>4, <2>5, <2>6, <2>9 DEF Visited
<1> QED  BY <1>1, <1>2

Largest(d) == Cardinality(NodeIds(d)) * (Cardinality(NodeIds(d)) + 1) + Cardinality(NodeIds(d))

LEMMA SizeIs ==
  ASSUME NEW d, Searched(d), NEW todo \in SUBSET NodeIds(d), NEW c \in Colorings(d)
  PROVE  Size(d, todo, c) \in Nat /\ Largest(d) \in Nat /\ Size(d, todo, c) <= Largest(d)
<1>1. PICK N, white : N = NodeIds(d) /\ white = Painted(c, "white")
  OBVIOUS
<1>2. IsFiniteSet(N) /\ white \in SUBSET N /\ todo \in SUBSET N
  BY <1>1 DEF Searched, Painted, Colorings
<1>3. PICK w, n, x : w = Cardinality(white) /\ n = Cardinality(N) /\ x = Cardinality(todo)
  OBVIOUS
<1>4. w \in Nat /\ n \in Nat /\ x \in Nat
  BY <1>2, <1>3, FS_Subset, FS_CardinalityType
<1>5. w <= n /\ x <= n
  BY <1>2, <1>3, FS_Subset
<1>6. Size(d, todo, c) = w * (n + 1) + x /\ Largest(d) = n * (n + 1) + n
  BY <1>1, <1>3 DEF Size, Largest
<1>7. w * (n + 1) \in Nat /\ n * (n + 1) \in Nat /\ w * (n + 1) <= n * (n + 1)
  <2>1. n + 1 \in Nat  BY <1>4
  <2> QED  BY <1>4, <1>5, <2>1, Multiplied
<1> QED  BY <1>4, <1>5, <1>6, <1>7

\* f searches with the calls of a size below k.
SearchesBelow(f, d, k) ==
  \A u \in SUBSET NodeIds(d), b \in Colorings(d) :
    Size(d, u, b) < k => f[u][b] = Visited(f, d, u, b) /\ Returns(d, u, b, f[u][b])

LEMMA SearchesMore ==
  ASSUME NEW d, Searched(d), NEW k \in Nat, NEW f, SearchesBelow(f, d, k)
  PROVE  \E g : SearchesBelow(g, d, k + 1)
<1>1. PICK g : g = [u \in SUBSET NodeIds(d) |-> [b \in Colorings(d) |->
                      IF Size(d, u, b) < k THEN f[u][b] ELSE Visited(f, d, u, b)]]
  OBVIOUS
<1>2. \A u \in SUBSET NodeIds(d), b \in Colorings(d) :
        g[u][b] = IF Size(d, u, b) < k THEN f[u][b] ELSE Visited(f, d, u, b)
  BY <1>1
<1>3. ASSUME NEW u \in SUBSET NodeIds(d), NEW b \in Colorings(d), Size(d, u, b) < k + 1
      PROVE  g[u][b] = Visited(g, d, u, b) /\ Returns(d, u, b, g[u][b])
  <2>1. ASSUME NEW t \in SUBSET NodeIds(d), NEW z \in Colorings(d), Smaller(t, z, u, b)
        PROVE  Size(d, t, z) < k
    <3>1. Size(d, t, z) \in Nat /\ Size(d, u, b) \in Nat /\ Size(d, t, z) < Size(d, u, b)
      BY <2>1, SizeFalls
    <3> QED  BY <1>3, <3>1
  <2>2. Known(f, d, u, b)
    BY <2>1 DEF Known, SearchesBelow
  <2>3. \A t \in SUBSET NodeIds(d), z \in Colorings(d) : Smaller(t, z, u, b) => g[t][z] = f[t][z]
    BY <1>2, <2>1
  <2>4. Visited(g, d, u, b) = Visited(f, d, u, b)
    BY <2>2, <2>3, VisitedSame
  <2>5. Size(d, u, b) < k => f[u][b] = Visited(f, d, u, b)
    BY DEF SearchesBelow
  <2>6. g[u][b] = Visited(f, d, u, b)
    BY <1>2, <2>5
  <2>7. Returns(d, u, b, Visited(f, d, u, b))
    BY <2>2, VisitedReturns
  <2> QED  BY <2>4, <2>6, <2>7
<1> QED  BY <1>3 DEF SearchesBelow

IsVisit(f, d) == f = [todo \in SUBSET NodeIds(d) |-> [c \in Colorings(d) |-> Visited(f, d, todo, c)]]

LEMMA VisitExists == ASSUME NEW d, Searched(d) PROVE \E f : IsVisit(f, d)
<1> DEFINE S == {k \in Nat : \E f : SearchesBelow(f, d, k)}
<1>1. 0 \in S
  <2>1. \A u \in SUBSET NodeIds(d), b \in Colorings(d) : ~(Size(d, u, b) < 0)
    BY SizeIs
  <2> QED  BY <2>1 DEF SearchesBelow
<1>2. ASSUME NEW k \in S PROVE k + 1 \in S
  BY SearchesMore
<1> HIDE DEF S
<1>3. S \in SUBSET Nat  BY DEF S
<1>4. S = Nat  BY <1>1, <1>2, <1>3, Induction
<1>5. PICK k : k = Largest(d) + 1  OBVIOUS
<1>6. \A u \in SUBSET NodeIds(d), b \in Colorings(d) : Size(d, u, b) < k
  BY <1>5, SizeIs
<1>7. k \in Nat
  <2>1. [n \in NodeIds(d) |-> "white"] \in Colorings(d)  BY DEF Colorings
  <2>2. {} \in SUBSET NodeIds(d)  OBVIOUS
  <2> QED  BY <1>5, <2>1, <2>2, SizeIs
<1>8. PICK f : SearchesBelow(f, d, k)
  BY <1>4, <1>7 DEF S
<1>9. PICK g : g = [u \in SUBSET NodeIds(d) |-> [b \in Colorings(d) |-> f[u][b]]]
  OBVIOUS
<1>10. \A u \in SUBSET NodeIds(d), b \in Colorings(d) : g[u][b] = f[u][b]
  BY <1>9
<1>11. ASSUME NEW u \in SUBSET NodeIds(d), NEW b \in Colorings(d)
       PROVE  f[u][b] = Visited(g, d, u, b)
  <2>1. Known(f, d, u, b)  BY <1>6, <1>8 DEF Known, SearchesBelow
  <2>2. Visited(g, d, u, b) = Visited(f, d, u, b)  BY <1>10, <2>1, VisitedSame
  <2> QED  BY <1>6, <1>8, <2>2 DEF SearchesBelow
<1>12. g = [u \in SUBSET NodeIds(d) |-> [b \in Colorings(d) |-> Visited(g, d, u, b)]]
  BY <1>9, <1>11
<1> QED  BY <1>12 DEF IsVisit

LEMMA VisitReturns ==
  ASSUME NEW d, Searched(d), NEW f, IsVisit(f, d)
  PROVE  \A u \in SUBSET NodeIds(d), b \in Colorings(d) : Returns(d, u, b, f[u][b])
<1>1. \A u \in SUBSET NodeIds(d), b \in Colorings(d) : f[u][b] = Visited(f, d, u, b)
  <2>1. PICK g : g = [u \in SUBSET NodeIds(d) |-> [b \in Colorings(d) |-> Visited(f, d, u, b)]]
    OBVIOUS
  <2>2. \A u \in SUBSET NodeIds(d), b \in Colorings(d) : g[u][b] = Visited(f, d, u, b)
    BY <2>1
  <2> QED  BY <2>1, <2>2 DEF IsVisit
<1> DEFINE S == {k \in Nat : \A u \in SUBSET NodeIds(d), b \in Colorings(d) :
                               Size(d, u, b) < k => Returns(d, u, b, f[u][b])}
<1>2. 0 \in S
  <2>1. \A u \in SUBSET NodeIds(d), b \in Colorings(d) : ~(Size(d, u, b) < 0)
    BY SizeIs
  <2> QED  BY <2>1
<1>3. ASSUME NEW k \in S PROVE k + 1 \in S
  <2>1. k \in Nat /\ \A u \in SUBSET NodeIds(d), b \in Colorings(d) :
                       Size(d, u, b) < k => Returns(d, u, b, f[u][b])
    OBVIOUS
  <2>2. ASSUME NEW u \in SUBSET NodeIds(d), NEW b \in Colorings(d), Size(d, u, b) < k + 1
        PROVE  Returns(d, u, b, f[u][b])
    <3>1. ASSUME NEW t \in SUBSET NodeIds(d), NEW z \in Colorings(d), Smaller(t, z, u, b)
          PROVE  Size(d, t, z) < k
      <4>1. Size(d, t, z) \in Nat /\ Size(d, u, b) \in Nat /\ Size(d, t, z) < Size(d, u, b)
        BY <3>1, SizeFalls
      <4> QED  BY <2>1, <2>2, <4>1
    <3>2. Known(f, d, u, b)  BY <2>1, <3>1 DEF Known
    <3> QED  BY <1>1, <3>2, VisitedReturns
  <2>3. k + 1 \in Nat  BY <2>1
  <2> QED  BY <2>2, <2>3
<1> HIDE DEF S
<1>4. S \in SUBSET Nat  BY DEF S
<1>5. S = Nat  BY <1>2, <1>3, <1>4, Induction
<1>6. ASSUME NEW u \in SUBSET NodeIds(d), NEW b \in Colorings(d) PROVE Returns(d, u, b, f[u][b])
  <2>1. Size(d, u, b) + 1 \in S /\ Size(d, u, b) < Size(d, u, b) + 1  BY <1>5, SizeIs
  <2> QED  BY <2>1 DEF S
<1> QED  BY <1>6

Unvisited(d) == [id \in NodeIds(d) |-> "white"]

LEMMA SearchReturns ==
  ASSUME NEW d, Searched(d), NEW roots \in SUBSET NodeIds(d)
  PROVE  Returns(d, roots, Unvisited(d), Search(d, roots))
<1>1. PICK f : f = CHOOSE g : IsVisit(g, d)  OBVIOUS
<1>2. IsVisit(f, d)  BY <1>1, VisitExists
<1>3. Search(d, roots) = f[roots][Unvisited(d)]
  <2>1. Search(d, roots) = (CHOOSE g : IsVisit(g, d))[roots][Unvisited(d)]
    BY DEF Search, IsVisit, Visited, BelowOf, Chosen, Colorings, Unvisited
  <2> QED  BY <1>1, <2>1
<1>4. Unvisited(d) \in Colorings(d)  BY DEF Unvisited, Colorings
<1> QED  BY <1>2, <1>3, <1>4, VisitReturns

\* What the search finds no cycle in can be run to its end.
LEMMA NoCycleSortable == ASSUME NEW d, Searched(d), ~HasCycle(d) PROVE Sortable(d)
<1>1. Returns(d, NodeIds(d), Unvisited(d), Search(d, NodeIds(d)))
  BY SearchReturns
<1>2. PICK found \in BOOLEAN, b \in Colorings(d) :
        /\ Search(d, NodeIds(d)) = [found |-> found, color |-> b]
        /\ ~found => Advances(d, NodeIds(d), Unvisited(d), b)
  BY <1>1 DEF Returns
<1>3. ~found  BY <1>2 DEF HasCycle
<1>4. Painted(Unvisited(d), "black") = {}
  <2>1. \A n \in NodeIds(d) : Unvisited(d)[n] = "white"  BY DEF Unvisited
  <2>2. DOMAIN Unvisited(d) = NodeIds(d)  BY DEF Unvisited
  <2> QED  BY <2>1, <2>2 DEF Painted
<1>5. DoneWith(d, {})  BY DEF DoneWith
<1>6. DoneWith(d, Painted(b, "black")) /\ NodeIds(d) \subseteq Painted(b, "black")
  BY <1>2, <1>3, <1>4, <1>5 DEF Advances
<1>7. Painted(b, "black") \subseteq NodeIds(d)  BY DEF Painted, Colorings
<1>8. DoneWith(d, NodeIds(d))
  <2>1. Painted(b, "black") = NodeIds(d)  BY <1>6, <1>7
  <2> QED  BY <1>6, <2>1
<1> QED  BY <1>8 DEF DoneWith, Sortable

\* A flow of nodes 1 and 2, with no edges but from 1 to 2.
LEMMA TwoSortable ==
  ASSUME NEW d, NodeIds(d) \subseteq {1, 2}, \A e \in d.edges : e.source = 1 /\ e.target = 2
  PROVE  Sortable(d)
<1>1. ASSUME NEW left \in (SUBSET NodeIds(d)) \ {{}}
      PROVE  \E n \in left : \A e \in d.edges : e.target = n => e.source \notin left
  <2>1. CASE 1 \in left
    <3>1. \A e \in d.edges : e.target # 1  OBVIOUS
    <3> QED  BY <2>1, <3>1
  <2>2. CASE 1 \notin left
    <3>1. 2 \in left  BY <2>2
    <3>2. \A e \in d.edges : e.source \notin left  BY <2>2
    <3> QED  BY <3>1, <3>2
  <2> QED  BY <2>1, <2>2
<1> QED  BY <1>1 DEF Sortable

LEMMA FirstIsSortable == EditorInit => Sortable(stored)
<1> SUFFICES ASSUME EditorInit PROVE Sortable(stored)
  OBVIOUS
<1>1. ASSUME NEW x, NEW y, NEW edges, NEW g,
             stored = [nodes |-> x, edges |-> edges, guardrails |-> g],
             \A i \in DOMAIN x : x[i].id \in {1, 2},
             \A e \in edges : e.source = 1 /\ e.target = 2
      PROVE  Sortable(stored)
  <2>1. stored.nodes = x /\ stored.edges = edges  BY <1>1
  <2>2. NodeIds(stored) \subseteq {1, 2}  BY <1>1, <2>1 DEF NodeIds
  <2> QED  BY <1>1, <2>1, <2>2, TwoSortable
<1>2. ASSUME NEW a, NEW b
      PROVE  LET one == <<[id |-> 1, step |-> a]>>
                 both == Append(one, [id |-> 2, step |-> b])
             IN  (\A i \in DOMAIN one : one[i].id \in {1, 2}) /\ \A i \in DOMAIN both : both[i].id \in {1, 2}
  OBVIOUS
<1> QED  BY <1>1, <1>2 DEF EditorInit

\* Only what the server accepts is stored.
LEMMA StoredStays ==
  ASSUME [EditorNext]_editorVars
  PROVE  stored' = stored \/ (ValidDefinition(def) /\ stored' = def)
<1>1. \A d : SetDefinition(d) => stored' = stored
  BY DEF SetDefinition
<1>2. CASE LoadFlow \/ LeavePage \/ Save \/ SaveRefused \/ UNCHANGED editorVars
  BY <1>2 DEF LoadFlow, LeavePage, Save, SaveRefused, editorVars
<1>3. CASE AddNode \/ AddEdge \/ \E id \in NodeIds(def) : RemoveNode(id)
  BY <1>1, <1>3 DEF AddNode, AddEdge, PutEdge, RemoveNode
<1>4. CASE \E i \in DOMAIN def.nodes, id \in 0 .. MaxId : EditNode(i, [def.nodes[i] EXCEPT !.id = id])
  BY <1>1, <1>4 DEF EditNode
<1>5. CASE \E source, target \in NodeIds(def) : Connect(source, target)
  BY <1>1, <1>5 DEF Connect, PutEdge
<1>6. CASE \/ \E e \in def.edges, id \in NodeIds(def) :
                PatchEdge(e, [e EXCEPT !.source = id]) \/ PatchEdge(e, [e EXCEPT !.target = id])
           \/ \E e \in def.edges, on \in Conditions : PatchEdge(e, [e EXCEPT !.on = on])
  <2>1. \A e, patched : PatchEdge(e, patched) => stored' = stored
    BY <1>1 DEF PatchEdge
  <2> QED  BY <1>6, <2>1
<1>7. CASE \/ \E edges \in SUBSET def.edges : RemoveEdges(edges)
           \/ \E ids \in SUBSET NodeIds(def) : DeleteSelection(ids)
  BY <1>1, <1>7 DEF RemoveEdges, DeleteSelection
<1> QED  BY <1>2, <1>3, <1>4, <1>5, <1>6, <1>7 DEF EditorNext

LEMMA SortableThen == ASSUME NEW d, Sortable(d), stored' = d PROVE StoredIsSortable'
BY DEF StoredIsSortable

\* What the server accepts from the editor can be run to its end: the search of
\* validateFlowDefinition misses no cycle.
THEOREM StoredFlowsAreSortable == EditorSpec => []StoredIsSortable
<1>1. EditorInit => EditorInv /\ StoredIsSortable
  BY EditorInvInit, FirstIsSortable DEF StoredIsSortable
<1>2. EditorInv /\ StoredIsSortable /\ [EditorNext]_editorVars => EditorInv' /\ StoredIsSortable'
  <2>1. SUFFICES ASSUME EditorInv, StoredIsSortable, [EditorNext]_editorVars
                 PROVE  EditorInv' /\ StoredIsSortable'
    OBVIOUS
  <2>2. EditorInv'  BY <2>1, EditorInvStep
  <2>3. ASSUME stored' = stored PROVE StoredIsSortable'
    <3>1. Sortable(stored)  BY <2>1 DEF StoredIsSortable
    <3> QED  BY <2>3, <3>1, SortableThen
  <2>4. ASSUME ValidDefinition(def), stored' = def PROVE StoredIsSortable'
    <3>1. Shaped(def)  BY <2>1 DEF EditorInv, Sound
    <3>2. EdgesOK(def) /\ ~HasCycle(def)  BY <2>4 DEF ValidDefinition
    <3>3. Searched(def)  BY <3>1, <3>2, CountedIds DEF EdgesOK, Searched
    <3>4. Sortable(def)  BY <3>2, <3>3, NoCycleSortable
    <3> QED  BY <2>4, <3>4, SortableThen
  <2> QED  BY <2>1, <2>2, <2>3, <2>4, StoredStays
<1> QED  BY <1>1, <1>2, PTL DEF EditorSpec

-----------------------------------------------------------------------------
(* The parameters of a node: the editor of its rows, the run, the executors *)

\* What FoldLeft computes, for each set of positions, when the n-th step puts
\* val[n] for key[n], but for the positions to skip.
PutStep(map, skip, key, val, x) == IF x \in skip THEN map ELSE Put(map, key[x], val[x])

IsFold(iter, base, n, skip, key, val) ==
  iter = [s \in SUBSET (1 .. n) |->
            IF s = {} THEN base ELSE PutStep(iter[s \ {Max(s)}], skip, key, val, Max(s))]

LEMMA FoldExists ==
  ASSUME NEW base, NEW skip, NEW key, NEW val
  PROVE  \A n \in Nat : \E iter : IsFold(iter, base, n, skip, key, val)
<1> DEFINE S == {n \in Nat : \E iter : IsFold(iter, base, n, skip, key, val)}
<1>1. 0 \in S
  <2>1. SUBSET (1 .. 0) = {{}}  OBVIOUS
  <2>2. IsFold([s \in {{}} |-> base], base, 0, skip, key, val)  BY <2>1 DEF IsFold
  <2> QED  BY <2>2
<1>2. ASSUME NEW n \in S PROVE n + 1 \in S
  <2>1. PICK iter : IsFold(iter, base, n, skip, key, val)  OBVIOUS
  <2>2. n \in Nat  OBVIOUS
  <2> HIDE DEF S
  <2> DEFINE longer == [s \in SUBSET (1 .. n + 1) |->
                          IF n + 1 \in s THEN PutStep(iter[s \ {n + 1}], skip, key, val, n + 1) ELSE iter[s]]
  <2>3. ASSUME NEW s \in SUBSET (1 .. n + 1)
        PROVE  longer[s] = IF s = {} THEN base
                           ELSE PutStep(longer[s \ {Max(s)}], skip, key, val, Max(s))
    <3>1. CASE n + 1 \in s
      <4>1. Max(s) \in s /\ Max(s) >= n + 1
        <5>1. n + 1 \in Nat /\ s # {}  BY <2>2, <3>1
        <5> QED  BY <3>1, <5>1, GreatestIs
      <4>2. Max(s) = n + 1
        <5>1. Max(s) \in 1 .. n + 1  BY <4>1
        <5> HIDE DEF longer
        <5> QED  BY <2>2, <4>1, <5>1
      <4>3. s \ {n + 1} \in SUBSET (1 .. n + 1) /\ n + 1 \notin s \ {n + 1}  OBVIOUS
      <4>4. longer[s \ {n + 1}] = iter[s \ {n + 1}]  BY <4>3
      <4>5. longer[s] = PutStep(iter[s \ {n + 1}], skip, key, val, n + 1)  BY <3>1
      <4> HIDE DEF longer
      <4> QED  BY <3>1, <4>2, <4>4, <4>5
    <3>2. CASE n + 1 \notin s
      <4>1. s \in SUBSET (1 .. n)  BY <2>2, <3>2
      <4>2. longer[s] = iter[s]  BY <3>2
      <4>3. iter[s] = IF s = {} THEN base ELSE PutStep(iter[s \ {Max(s)}], skip, key, val, Max(s))
        BY <2>1, <4>1 DEF IsFold
      <4>4. longer[s \ {Max(s)}] = iter[s \ {Max(s)}]
        <5>1. s \ {Max(s)} \in SUBSET (1 .. n + 1) /\ n + 1 \notin s \ {Max(s)}  BY <3>2
        <5> QED  BY <5>1
      <4> HIDE DEF longer
      <4> QED  BY <4>2, <4>3, <4>4
    <3> QED  BY <3>1, <3>2
  <2>4. IsFold(longer, base, n + 1, skip, key, val)  BY <2>3 DEF IsFold
  <2> QED  BY <2>2, <2>4 DEF S
<1> HIDE DEF S
<1>3. S \in SUBSET Nat  BY DEF S
<1>4. S = Nat  BY <1>1, <1>2, <1>3, Induction
<1> QED  BY <1>4 DEF S

\* The map has the keys put, each with the last value, over what was there.
Holds(map, base, n, skip, key, val) ==
  /\ DOMAIN map = DOMAIN base \union {key[j] : j \in (1 .. n) \ skip}
  /\ \A j \in (1 .. n) \ skip :
       (\A l \in (1 .. n) \ skip : l > j => key[l] # key[j]) => map[key[j]] = val[j]
  /\ \A k \in DOMAIN base : (\A j \in (1 .. n) \ skip : key[j] # k) => map[k] = base[k]

LEMMA HoldsMore ==
  ASSUME NEW base, NEW skip, NEW key, NEW val, NEW n \in Nat, NEW map, Holds(map, base, n, skip, key, val)
  PROVE  Holds(PutStep(map, skip, key, val, n + 1), base, n + 1, skip, key, val)
<1>1. \A j \in 1 .. n + 1 : j = n + 1 \/ j \in 1 .. n
  OBVIOUS
<1>2. n + 1 \in 1 .. n + 1 /\ \A j \in 1 .. n : j \in 1 .. n + 1 /\ n + 1 > j /\ j # n + 1 /\ ~(j > n + 1)
  OBVIOUS
<1>3. CASE n + 1 \in skip
  <2>1. (1 .. n + 1) \ skip = (1 .. n) \ skip  BY <1>1, <1>2, <1>3
  <2> QED  BY <1>3, <2>1 DEF Holds, PutStep
<1>4. CASE n + 1 \notin skip
  <2>1. PICK more : more = PutStep(map, skip, key, val, n + 1)
    OBVIOUS
  <2>2. /\ DOMAIN more = DOMAIN map \union {key[n + 1]}
        /\ \A k \in DOMAIN more : more[k] = IF k = key[n + 1] THEN val[n + 1] ELSE map[k]
    BY <1>4, <2>1 DEF PutStep, Put
  <2>3. (1 .. n + 1) \ skip = ((1 .. n) \ skip) \union {n + 1}  BY <1>1, <1>2, <1>4
  <2>4. DOMAIN more = DOMAIN base \union {key[j] : j \in (1 .. n + 1) \ skip}
    BY <2>2, <2>3 DEF Holds
  <2>5. ASSUME NEW j \in (1 .. n + 1) \ skip, \A l \in (1 .. n + 1) \ skip : l > j => key[l] # key[j]
        PROVE  more[key[j]] = val[j]
    <3>1. key[j] \in DOMAIN more  BY <2>4
    <3>2. CASE j = n + 1  BY <2>2, <3>1, <3>2
    <3>3. CASE j # n + 1
      <4>1. j \in (1 .. n) \ skip /\ key[j] # key[n + 1]  BY <1>1, <1>2, <1>4, <2>5, <3>3
      <4>2. \A l \in (1 .. n) \ skip : l > j => key[l] # key[j]  BY <1>2, <2>5
      <4>3. map[key[j]] = val[j]  BY <4>1, <4>2 DEF Holds
      <4> QED  BY <2>2, <3>1, <4>1, <4>3
    <3> QED  BY <3>2, <3>3
  <2>6. ASSUME NEW k \in DOMAIN base, \A j \in (1 .. n + 1) \ skip : key[j] # k PROVE more[k] = base[k]
    <3>1. k # key[n + 1] /\ \A j \in (1 .. n) \ skip : key[j] # k  BY <1>2, <1>4, <2>6
    <3>2. map[k] = base[k]  BY <3>1 DEF Holds
    <3> QED  BY <2>2, <2>4, <3>1, <3>2
  <2>7. Holds(more, base, n + 1, skip, key, val)  BY <2>4, <2>5, <2>6 DEF Holds
  <2> QED  BY <2>1, <2>7
<1> QED  BY <1>3, <1>4

LEMMA FoldHolds ==
  ASSUME NEW base, NEW skip, NEW key, NEW val, NEW n \in Nat,
         NEW iter, IsFold(iter, base, n, skip, key, val)
  PROVE  Holds(iter[1 .. n], base, n, skip, key, val)
<1> DEFINE S == {m \in Nat : m <= n => Holds(iter[1 .. m], base, m, skip, key, val)}
<1>1. \A s \in SUBSET (1 .. n) :
        iter[s] = IF s = {} THEN base ELSE PutStep(iter[s \ {Max(s)}], skip, key, val, Max(s))
  BY DEF IsFold
<1>2. 0 \in S
  <2>1. 1 .. 0 = {} /\ {} \in SUBSET (1 .. n)  OBVIOUS
  <2>2. iter[1 .. 0] = base  BY <1>1, <2>1
  <2>3. Holds(base, base, 0, skip, key, val)  BY <2>1 DEF Holds
  <2> QED  BY <2>2, <2>3
<1>3. ASSUME NEW m \in S PROVE m + 1 \in S
  <2>1. m \in Nat /\ (m <= n => Holds(iter[1 .. m], base, m, skip, key, val))  OBVIOUS
  <2> HIDE DEF S
  <2>2. CASE m + 1 <= n
    <3>1. Holds(iter[1 .. m], base, m, skip, key, val)  BY <2>1, <2>2
    <3>2. PICK s : s = 1 .. m + 1  OBVIOUS
    <3>3. s \in SUBSET (1 .. m + 1) /\ s \in SUBSET (1 .. n) /\ m + 1 \in s /\ s # {} /\ m + 1 \in Nat
      <4>1. m \in Nat /\ m + 1 <= n  BY <2>1, <2>2
      <4>2. m + 1 \in 1 .. m + 1 /\ \A j \in 1 .. m + 1 : j \in 1 .. n  BY <4>1
      <4>3. s \in SUBSET (1 .. m + 1)  BY <3>2
      <4>4. s \in SUBSET (1 .. n)  BY <3>2, <4>2
      <4>5. m + 1 \in s  BY <3>2, <4>2
      <4>6. s # {}  BY <4>5
      <4>7. m + 1 \in Nat  BY <4>1
      <4> QED  BY <4>3, <4>4, <4>5, <4>6, <4>7
    <3>4. Max(s) \in s /\ Max(s) >= m + 1  BY <3>3, GreatestIs
    <3>5. Max(s) = m + 1 /\ s \ {m + 1} = 1 .. m  BY <2>1, <3>2, <3>4
    <3>6. iter[s] = PutStep(iter[1 .. m], skip, key, val, m + 1)  BY <1>1, <3>3, <3>5
    <3>7. Holds(iter[1 .. m + 1], base, m + 1, skip, key, val)
      BY <2>1, <3>1, <3>2, <3>6, HoldsMore
    <3> QED  BY <2>1, <3>7 DEF S
  <2>3. CASE ~ (m + 1 <= n)  BY <2>1, <2>3 DEF S
  <2> QED  BY <2>2, <2>3
<1> HIDE DEF S
<1>4. S \in SUBSET Nat  BY DEF S
<1>5. S = Nat  BY <1>2, <1>3, <1>4, Induction
<1> QED  BY <1>5 DEF S

\* The map of some rows: each key with the text of its last row.
Rows == [key : Keys \union {""}, text : ParamTexts \union {Blank}]

LastOf(list, n) == list[n].key # "" /\ \A l \in DOMAIN list : l > n => list[l].key # list[n].key

MapsRows(map, list) ==
  /\ DOMAIN map = {list[n].key : n \in DOMAIN list} \ {""}
  /\ \A n \in DOMAIN list : LastOf(list, n) => map[list[n].key] = list[n].text

IsRowFold(iter, list) ==
  iter = [s \in SUBSET DOMAIN list |->
            IF s = {} THEN << >>
            ELSE IF list[Max(s)].key = "" THEN iter[s \ {Max(s)}]
                 ELSE Put(iter[s \ {Max(s)}], list[Max(s)].key, list[Max(s)].text)]

IsDateFold(iter, base, list) ==
  iter = [s \in SUBSET DOMAIN list |->
            IF s = {} THEN base ELSE Put(iter[s \ {Max(s)}], list[Max(s)].key, Plain("date"))]

LEMMA MapOfIs == ASSUME NEW list \in Seq(Rows) PROVE MapsRows(MapOf(list), list)
<1> DEFINE n == Len(list)
           key == [j \in 1 .. n |-> list[j].key]
           val == [j \in 1 .. n |-> list[j].text]
           skip == {j \in 1 .. n : list[j].key = ""}
<1>1. n \in Nat /\ DOMAIN list = 1 .. n
  OBVIOUS
<1>2. ASSUME NEW iter PROVE IsRowFold(iter, list) <=> IsFold(iter, << >>, n, skip, key, val)
  <2>1. ASSUME NEW s \in SUBSET (1 .. n), s # {}
        PROVE  PutStep(iter[s \ {Max(s)}], skip, key, val, Max(s))
                 = IF list[Max(s)].key = "" THEN iter[s \ {Max(s)}]
                   ELSE Put(iter[s \ {Max(s)}], list[Max(s)].key, list[Max(s)].text)
    <3>1. Max(s) \in 1 .. n  BY <1>1, <2>1, GreatestIs
    <3>2. PICK x \in 1 .. n : x = Max(s)  BY <3>1
    <3>3. /\ x \in skip <=> list[x].key = ""
          /\ key[x] = list[x].key /\ val[x] = list[x].text
      OBVIOUS
    <3> HIDE DEF skip, key, val
    <3> QED  BY <3>2, <3>3 DEF PutStep
  <2> HIDE DEF n, skip, key, val
  <2> QED  BY <1>1, <2>1 DEF IsRowFold, IsFold
<1>3. MapOf(list) = (CHOOSE iter : IsRowFold(iter, list))[DOMAIN list]
  BY DEF MapOf, FoldLeft, MapThenFoldSet, IsRowFold
<1> HIDE DEF n, skip, key, val
<1>4. \E iter : IsFold(iter, << >>, n, skip, key, val)
  BY <1>1, FoldExists
<1>5. PICK iter : IsFold(iter, << >>, n, skip, key, val) /\ MapOf(list) = iter[1 .. n]
  BY <1>1, <1>2, <1>3, <1>4
<1>6. Holds(iter[1 .. n], << >>, n, skip, key, val)
  BY <1>1, <1>5, FoldHolds
<1>7. /\ \A j \in 1 .. n : key[j] = list[j].key /\ val[j] = list[j].text
      /\ \A j \in 1 .. n : j \in skip <=> list[j].key = ""
  BY DEF key, val, skip
<1>8. PICK map : map = MapOf(list)
  OBVIOUS
<1>9. /\ DOMAIN map = {key[j] : j \in (1 .. n) \ skip}
      /\ \A j \in (1 .. n) \ skip :
           (\A l \in (1 .. n) \ skip : l > j => key[l] # key[j]) => map[key[j]] = val[j]
  <2>1. DOMAIN << >> = {}  OBVIOUS
  <2>2. map = iter[1 .. n]  BY <1>5, <1>8
  <2>3. Holds(map, << >>, n, skip, key, val)  BY <1>6, <2>2, Zenon
  <2> QED  BY <2>1, <2>3 DEF Holds
<1>10. DOMAIN map = {list[j].key : j \in 1 .. n} \ {""}
  <2>1. \A j \in (1 .. n) \ skip : key[j] \in {list[l].key : l \in 1 .. n} \ {""}  BY <1>7
  <2>2. \A j \in 1 .. n : list[j].key # "" => j \in (1 .. n) \ skip /\ key[j] = list[j].key
    BY <1>7
  <2>3. ASSUME NEW k \in {list[l].key : l \in 1 .. n} \ {""} PROVE k \in {key[j] : j \in (1 .. n) \ skip}
    <3>1. PICK l \in 1 .. n : list[l].key = k  OBVIOUS
    <3>2. l \in (1 .. n) \ skip /\ key[l] = k  BY <2>2, <3>1
    <3> QED  BY <3>2
  <2>4. {key[j] : j \in (1 .. n) \ skip} = {list[j].key : j \in 1 .. n} \ {""}  BY <2>1, <2>3
  <2>5. DOMAIN map = {key[j] : j \in (1 .. n) \ skip}  BY <1>9
  <2> QED  BY <2>4, <2>5
<1>11. ASSUME NEW j \in 1 .. n, LastOf(list, j) PROVE map[list[j].key] = list[j].text
  <2>1. j \in (1 .. n) \ skip  BY <1>7, <1>11 DEF LastOf
  <2>2. \A l \in (1 .. n) \ skip : l > j => key[l] # key[j]  BY <1>1, <1>7, <1>11 DEF LastOf
  <2> QED  BY <1>7, <1>9, <2>1, <2>2
<1> QED  BY <1>1, <1>8, <1>10, <1>11 DEF MapsRows

\* The dates, over a map.
HasDates(map, base, list) ==
  /\ DOMAIN map = DOMAIN base \union {list[n].key : n \in DOMAIN list}
  /\ \A n \in DOMAIN list : map[list[n].key] = Plain("date")
  /\ \A k \in DOMAIN base : (\A n \in DOMAIN list : list[n].key # k) => map[k] = base[k]

LEMMA DatedIs == ASSUME NEW base, NEW list \in DateLists PROVE HasDates(Dated(base, list), base, list)
<1> DEFINE n == Len(list)
           key == [j \in 1 .. n |-> list[j].key]
           val == [j \in 1 .. n |-> Plain("date")]
<1>1. list \in Seq(Range(list))
  BY ParamsAssumption
<1>2. n \in Nat /\ DOMAIN list = 1 .. n
  BY <1>1
<1>3. ASSUME NEW iter PROVE IsDateFold(iter, base, list) <=> IsFold(iter, base, n, {}, key, val)
  <2>1. ASSUME NEW s \in SUBSET (1 .. n), s # {}
        PROVE  PutStep(iter[s \ {Max(s)}], {}, key, val, Max(s))
                 = Put(iter[s \ {Max(s)}], list[Max(s)].key, Plain("date"))
    <3>1. Max(s) \in 1 .. n  BY <1>2, <2>1, GreatestIs
    <3>2. PICK x \in 1 .. n : x = Max(s)  BY <3>1
    <3>3. key[x] = list[x].key /\ val[x] = Plain("date")
      OBVIOUS
    <3> HIDE DEF key, val
    <3> QED  BY <3>2, <3>3 DEF PutStep
  <2> HIDE DEF n, key, val
  <2> QED  BY <1>2, <2>1 DEF IsDateFold, IsFold
<1>4. Dated(base, list) = (CHOOSE iter : IsDateFold(iter, base, list))[DOMAIN list]
  BY DEF Dated, FoldLeft, MapThenFoldSet, IsDateFold
<1> HIDE DEF n, key, val
<1>5. \E iter : IsFold(iter, base, n, {}, key, val)
  BY <1>2, FoldExists
<1>6. PICK iter : IsFold(iter, base, n, {}, key, val) /\ Dated(base, list) = iter[1 .. n]
  BY <1>2, <1>3, <1>4, <1>5
<1>7. Holds(iter[1 .. n], base, n, {}, key, val)
  BY <1>2, <1>6, FoldHolds
<1>8. \A j \in 1 .. n : key[j] = list[j].key /\ val[j] = Plain("date")
  BY DEF key, val
<1>9. /\ DOMAIN Dated(base, list) = DOMAIN base \union {list[j].key : j \in DOMAIN list}
      /\ \A k \in DOMAIN base : (\A j \in DOMAIN list : list[j].key # k) => Dated(base, list)[k] = base[k]
  BY <1>2, <1>6, <1>7, <1>8 DEF Holds
<1>10. ASSUME NEW j \in DOMAIN list PROVE Dated(base, list)[list[j].key] = Plain("date")
  <2> DEFINE A == {l \in 1 .. n : list[l].key = list[j].key}
  <2>1. A \in SUBSET (1 .. n) /\ A # {}  BY <1>2
  <2> HIDE DEF A
  <2>2. Max(A) \in A /\ \A l \in A : Max(A) >= l  BY <1>2, <2>1, GreatestIs
  <2>3. PICK m \in 1 .. n : list[m].key = list[j].key /\ \A l \in A : m >= l  BY <2>2 DEF A
  <2>4. \A l \in 1 .. n : l > m => list[l].key # list[m].key  BY <1>2, <2>3 DEF A
  <2>5. iter[1 .. n][key[m]] = val[m]  BY <1>7, <1>8, <2>4 DEF Holds
  <2> QED  BY <1>6, <1>8, <2>3, <2>5
<1> QED  BY <1>9, <1>10 DEF HasDates

\* What the nodes are given: the run's map over the dates over the static one.
Given == OnTop(overrides, Dated(static, dateParams))

RowsMapped == rows \in Seq(Rows) /\ MapsRows(static, rows) /\ dateParams \in DateLists

LEMMA WrittenIs == ASSUME RowsMapped PROVE Given = AllWritten
<1>1. HasDates(Dated(static, dateParams), static, dateParams)
  BY DatedIs DEF RowsMapped
<1>2. PICK dated : dated = Dated(static, dateParams)
  OBVIOUS
<1>3. Len(rows) \in Nat /\ DOMAIN rows = 1 .. Len(rows)
  BY DEF RowsMapped
<1>4. DOMAIN dated = DOMAIN static \union {dateParams[n].key : n \in DOMAIN dateParams}
  BY <1>1, <1>2 DEF HasDates
<1>5. DOMAIN static = {rows[n].key : n \in DOMAIN rows} \ {""}
  BY DEF RowsMapped, MapsRows
<1>6. Given = [k \in DOMAIN overrides \union DOMAIN dated |-> IF k \in DOMAIN overrides THEN overrides[k] ELSE dated[k]]
  BY <1>2 DEF Given, OnTop
<1>7. WrittenKeys = DOMAIN overrides \union DOMAIN dated
  BY <1>4, <1>5 DEF WrittenKeys
<1>8. ASSUME NEW k \in WrittenKeys
      PROVE  Written(k) = IF k \in DOMAIN overrides THEN overrides[k] ELSE dated[k]
  <2>1. CASE k \in DOMAIN overrides
    BY <2>1 DEF Written
  <2>2. CASE k \notin DOMAIN overrides /\ \E n \in DOMAIN dateParams : dateParams[n].key = k
    <3>1. dated[k] = Plain("date")  BY <1>1, <1>2, <2>2 DEF HasDates
    <3> QED  BY <2>2, <3>1 DEF Written
  <2>3. CASE k \notin DOMAIN overrides /\ ~ \E n \in DOMAIN dateParams : dateParams[n].key = k
    <3> DEFINE A == {n \in 1 .. Len(rows) : rows[n].key = k}
    <3>1. k \in DOMAIN static /\ dated[k] = static[k]
      BY <1>1, <1>2, <1>4, <1>7, <2>3 DEF HasDates
    <3>2. A \in SUBSET (1 .. Len(rows)) /\ A # {} /\ k # ""
      BY <1>3, <1>5, <3>1
    <3>3. Written(k) = rows[Max(A)].text
      BY <2>3, <3>2 DEF Written, SelectLastInSeq
    <3> HIDE DEF A
    <3>4. Max(A) \in A /\ \A l \in A : Max(A) >= l
      BY <1>3, <3>2, GreatestIs
    <3>5. PICK m \in 1 .. Len(rows) : m = Max(A) /\ rows[m].key = k /\ \A l \in A : m >= l
      BY <3>4 DEF A
    <3>6. LastOf(rows, m)
      <4>1. \A l \in 1 .. Len(rows) : l > m => rows[l].key # k  BY <1>3, <3>5 DEF A
      <4> QED  BY <1>3, <3>2, <3>5, <4>1 DEF LastOf
    <3>7. static[k] = rows[m].text
      BY <1>3, <3>5, <3>6 DEF RowsMapped, MapsRows
    <3> QED  BY <2>3, <3>1, <3>3, <3>5, <3>7
  <2> QED  BY <2>1, <2>2, <2>3
<1> QED  BY <1>6, <1>7, <1>8 DEF AllWritten

\* What an instance is at fits what it was given (given, over the run's map o).
Resolved(given, i) == [k \in DOMAIN given |-> ResolveValue(given[k], given, i)]

AtParams(s, i, given) ==
  \E left \in SUBSET {k \in DOMAIN given : IsExpr(given[k])} :
    s = [at |-> "params", executor |-> "http", context |-> given, left |-> left,
         result |-> [k \in DOMAIN given |->
                       IF k \in left THEN given[k] ELSE ResolveValue(given[k], given, i)]]

AtHeader(s, i, given) ==
  s = [at |-> "header", executor |-> "http", context |-> given, left |-> {}, result |-> Resolved(given, i)]

HttpDone(s, i, given) ==
  s = [at |-> "done", executor |-> "http", result |-> Resolved(given, i),
       header |-> ResolveValue(HeaderText, Resolved(given, i), i)]

HttpFailed(s, given, chosen) ==
  /\ s = [at |-> "failed", executor |-> "http"]
  /\ (\E k \in DOMAIN given : given[k] = Broken) \/ \E n \in DOMAIN chosen : ~chosen[n].valid

LEMMA StartIs ==
  ASSUME NEW given, NEW i,
         \E ks, map : given = [k \in ks |-> map[k]],
         NEW s, s = [at |-> "params", executor |-> "http", result |-> given, context |-> given,
                     left |-> {k \in DOMAIN given : IsExpr(given[k])}]
  PROVE  AtParams(s, i, given)
<1> DEFINE left == {k \in DOMAIN given : IsExpr(given[k])}
           result == [k \in DOMAIN given |-> IF k \in left THEN given[k] ELSE ResolveValue(given[k], given, i)]
<1>1. \A k \in DOMAIN given : k \notin left => ResolveValue(given[k], given, i) = given[k]
  BY DEF ResolveValue
<1>2. given = [k \in DOMAIN given |-> given[k]]
  OBVIOUS
<1>3. result = given
  <2> HIDE DEF left
  <2> QED  BY <1>1, <1>2
<1>4. left \in SUBSET {k \in DOMAIN given : IsExpr(given[k])}
  OBVIOUS
<1>5. s = [at |-> "params", executor |-> "http", context |-> given, left |-> left, result |-> result]
  <2> HIDE DEF result
  <2> QED  BY <1>3
<1> QED  BY <1>4, <1>5 DEF AtParams

LEMMA ParamStep ==
  ASSUME NEW given, NEW i, NEW s, AtParams(s, i, given), NEW k \in s.left,
         NEW t, t = [s EXCEPT !.result[k] = Evaluate(s.context[k], s.context, i), !.left = @ \ {k}]
  PROVE  AtParams(t, i, given)
<1>1. PICK left \in SUBSET {l \in DOMAIN given : IsExpr(given[l])} :
        s = [at |-> "params", executor |-> "http", context |-> given, left |-> left,
             result |-> [l \in DOMAIN given |->
                           IF l \in left THEN given[l] ELSE ResolveValue(given[l], given, i)]]
  BY DEF AtParams
<1> DEFINE fewer == left \ {k}
           before == [l \in DOMAIN given |-> IF l \in left THEN given[l] ELSE ResolveValue(given[l], given, i)]
           after == [l \in DOMAIN given |-> IF l \in fewer THEN given[l] ELSE ResolveValue(given[l], given, i)]
<1>2. k \in left /\ k \in DOMAIN given /\ Evaluate(given[k], given, i) = ResolveValue(given[k], given, i)
  BY <1>1 DEF ResolveValue
<1>3. after = [before EXCEPT ![k] = Evaluate(given[k], given, i)]
  BY <1>2
<1>4. t = [at |-> "params", executor |-> "http", context |-> given, left |-> fewer,
           result |-> [before EXCEPT ![k] = Evaluate(given[k], given, i)]]
  BY <1>1
<1>5. t = [at |-> "params", executor |-> "http", context |-> given, left |-> fewer, result |-> after]
  <2> HIDE DEF after, before, fewer
  <2> QED  BY <1>3, <1>4
<1>6. fewer \in SUBSET {l \in DOMAIN given : IsExpr(given[l])}
  OBVIOUS
<1> QED  BY <1>5, <1>6 DEF AtParams

LEMMA HeaderStep ==
  ASSUME NEW given, NEW i, NEW s, AtParams(s, i, given), s.left = {}
  PROVE  AtHeader([s EXCEPT !.at = "header"], i, given)
<1>1. PICK left \in SUBSET {l \in DOMAIN given : IsExpr(given[l])} :
        s = [at |-> "params", executor |-> "http", context |-> given, left |-> left,
             result |-> [l \in DOMAIN given |->
                           IF l \in left THEN given[l] ELSE ResolveValue(given[l], given, i)]]
  BY DEF AtParams
<1>2. left = {}
  BY <1>1
<1>3. s = [at |-> "params", executor |-> "http", context |-> given, left |-> {}, result |-> Resolved(given, i)]
  BY <1>1, <1>2 DEF Resolved
<1> QED  BY <1>3 DEF AtHeader

\* The expressions among the last n texts of a prompt, and how they come about.
FromStep(p, n, rest) == IF IsExpr(p[Len(p) - n + 1]) THEN <<p[Len(p) - n + 1]>> \o rest ELSE rest

IsFrom(from, p, m) == from = [n \in 0 .. m |-> IF n = 0 THEN << >> ELSE FromStep(p, n, from[n - 1])]

RestOf(p, n) == (CHOOSE from : IsFrom(from, p, Len(p)))[n]

LEMMA FromExists == ASSUME NEW p PROVE \A m \in Nat : \E from : IsFrom(from, p, m)
<1> DEFINE S == {m \in Nat : \E from : IsFrom(from, p, m)}
<1>1. 0 \in S
  <2>1. IsFrom([n \in 0 .. 0 |-> << >>], p, 0)  BY DEF IsFrom
  <2> QED  BY <2>1
<1>2. ASSUME NEW m \in S PROVE m + 1 \in S
  <2>1. PICK from : IsFrom(from, p, m)  OBVIOUS
  <2> DEFINE next == FromStep(p, m + 1, from[m])
             longer == [n \in 0 .. m + 1 |-> IF n = m + 1 THEN next ELSE from[n]]
  <2>2. ASSUME NEW n \in 0 .. m + 1
        PROVE  longer[n] = IF n = 0 THEN << >> ELSE FromStep(p, n, longer[n - 1])
    <3> HIDE DEF next
    <3>1. CASE n = m + 1
      <4>1. n # 0 /\ n - 1 = m /\ m \in 0 .. m + 1 /\ m # m + 1  BY <3>1
      <4>2. longer[n] = next /\ longer[n - 1] = from[m]  BY <3>1, <4>1
      <4> QED  BY <3>1, <4>1, <4>2 DEF next
    <3>2. CASE n # m + 1
      <4>1. n \in 0 .. m /\ longer[n] = from[n]  BY <3>2
      <4>2. n # 0 => longer[n - 1] = from[n - 1]  BY <3>2
      <4>3. from[n] = IF n = 0 THEN << >> ELSE FromStep(p, n, from[n - 1])
        BY <2>1, <4>1 DEF IsFrom
      <4> QED  BY <4>1, <4>2, <4>3
    <3> QED  BY <3>1, <3>2
  <2>3. IsFrom(longer, p, m + 1)  BY <2>2 DEF IsFrom
  <2> QED  BY <2>3
<1> HIDE DEF S
<1>3. S \in SUBSET Nat  BY DEF S
<1>4. S = Nat  BY <1>1, <1>2, <1>3, Induction
<1> QED  BY <1>4 DEF S

\* The next of the expressions left is that of the first position that has one.
NextIs(p, n) ==
  \/ /\ RestOf(p, n) = << >>
     /\ \A j \in DOMAIN p : j > Len(p) - n => ~IsExpr(p[j])
  \/ \E x \in DOMAIN p :
       /\ RestOf(p, n) # << >> /\ Head(RestOf(p, n)) = p[x] /\ Tail(RestOf(p, n)) = RestOf(p, Len(p) - x)
       /\ x > Len(p) - n /\ IsExpr(p[x])
       /\ \A j \in DOMAIN p : j > Len(p) - n /\ j < x => ~IsExpr(p[j])

LEMMA HeadOfJoined ==
  ASSUME NEW T, NEW t \in T, NEW s \in Seq(T)
  PROVE  <<t>> \o s \in Seq(T) /\ <<t>> \o s # << >> /\ Head(<<t>> \o s) = t /\ Tail(<<t>> \o s) = s
<1>1. <<t>> \in Seq(T) /\ Len(<<t>>) = 1
  OBVIOUS
<1>2. <<t>> \o s \in Seq(T) /\ Len(<<t>> \o s) = 1 + Len(s) /\ Len(s) \in Nat
  BY <1>1
<1>3. PICK u : u = <<t>> \o s
  OBVIOUS
<1>4. u[1] = t /\ \A j \in 1 .. Len(s) : u[j + 1] = s[j]
  BY <1>1, <1>2, <1>3
<1>5. u \in Seq(T) /\ Len(u) = 1 + Len(s) /\ u # << >>
  BY <1>2, <1>3
<1>6. Head(u) = t
  BY <1>4, <1>5
<1>7. Tail(u) \in Seq(T) /\ Len(Tail(u)) = Len(s) /\ \A j \in 1 .. Len(s) : Tail(u)[j] = s[j]
  BY <1>2, <1>4, <1>5
<1>8. Tail(u) = s
  BY <1>2, <1>7
<1> QED  BY <1>3, <1>5, <1>6, <1>8

LEMMA RestIs ==
  ASSUME NEW p, p \in Seq(Range(p))
  PROVE  /\ Expressions(p) = RestOf(p, Len(p))
         /\ \A n \in 0 .. Len(p) : NextIs(p, n)
<1> DEFINE from == CHOOSE f : IsFrom(f, p, Len(p))
<1>1. Len(p) \in Nat /\ DOMAIN p = 1 .. Len(p) /\ \A j \in DOMAIN p : p[j] \in Range(p)
  OBVIOUS
<1>2. Expressions(p) = RestOf(p, Len(p))
  BY DEF Expressions, RestOf, IsFrom, FromStep
<1>3. IsFrom(from, p, Len(p))
  BY <1>1, FromExists
<1>4. \A n : RestOf(p, n) = from[n]
  BY DEF RestOf
<1> HIDE DEF from
<1>5. \A n \in 0 .. Len(p) : RestOf(p, n) = IF n = 0 THEN << >> ELSE FromStep(p, n, RestOf(p, n - 1))
  <2>1. \A n \in 0 .. Len(p) : from[n] = IF n = 0 THEN << >> ELSE FromStep(p, n, from[n - 1])
    BY <1>3 DEF IsFrom
  <2> QED  BY <1>4, <2>1
<1> DEFINE S == {n \in Nat : n <= Len(p) => RestOf(p, n) \in Seq(Range(p)) /\ NextIs(p, n)}
<1>6. 0 \in S
  <2>1. RestOf(p, 0) = << >>  BY <1>1, <1>5
  <2>2. \A j \in DOMAIN p : ~(j > Len(p) - 0)  BY <1>1
  <2>3. NextIs(p, 0)  BY <2>1, <2>2 DEF NextIs
  <2>4. << >> \in Seq(Range(p))  OBVIOUS
  <2>5. RestOf(p, 0) \in Seq(Range(p))  BY <2>1, <2>4
  <2> QED  BY <2>3, <2>5
<1>7. ASSUME NEW n \in S PROVE n + 1 \in S
  <2>1. n \in Nat /\ (n <= Len(p) => RestOf(p, n) \in Seq(Range(p)) /\ NextIs(p, n))  OBVIOUS
  <2> HIDE DEF S
  <2>2. CASE n + 1 <= Len(p)
    <3> DEFINE x == Len(p) - n
    <3>1. RestOf(p, n) \in Seq(Range(p)) /\ NextIs(p, n)  BY <1>1, <2>1, <2>2
    <3>2. x \in DOMAIN p /\ Len(p) - (n + 1) + 1 = x /\ Len(p) - x = n  BY <1>1, <2>1, <2>2
    <3>3. RestOf(p, n + 1) = FromStep(p, n + 1, RestOf(p, n))
      <4>1. n + 1 \in 0 .. Len(p) /\ n + 1 # 0 /\ (n + 1) - 1 = n  BY <1>1, <2>1, <2>2
      <4> QED  BY <1>5, <4>1
    <3>4. \A j \in DOMAIN p : j > Len(p) - (n + 1) <=> j = x \/ j > Len(p) - n
      BY <1>1, <2>1, <2>2
    <3>5. x > Len(p) - (n + 1) /\ \A j \in DOMAIN p : ~(j > Len(p) - (n + 1) /\ j < x)
      BY <1>1, <2>1, <2>2
    <3> HIDE DEF x
    <3>6. CASE IsExpr(p[x])
      <4>1. RestOf(p, n + 1) = <<p[x]>> \o RestOf(p, n)  BY <3>2, <3>3, <3>6 DEF FromStep
      <4>2. /\ RestOf(p, n + 1) \in Seq(Range(p)) /\ RestOf(p, n + 1) # << >>
            /\ Head(RestOf(p, n + 1)) = p[x] /\ Tail(RestOf(p, n + 1)) = RestOf(p, n)
        <5>1. PICK T, t, s : T = Range(p) /\ t = p[x] /\ s = RestOf(p, n)  OBVIOUS
        <5>2. t \in T /\ s \in Seq(T)  BY <1>1, <3>1, <3>2, <5>1
        <5>3. <<t>> \o s \in Seq(T) /\ <<t>> \o s # << >> /\ Head(<<t>> \o s) = t /\ Tail(<<t>> \o s) = s
          BY <5>2, HeadOfJoined
        <5> QED  BY <4>1, <5>1, <5>3
      <4>3. NextIs(p, n + 1)  BY <3>2, <3>5, <3>6, <4>2 DEF NextIs
      <4> QED  BY <2>1, <4>2, <4>3 DEF S
    <3>7. CASE ~IsExpr(p[x])
      <4>1. RestOf(p, n + 1) = RestOf(p, n)  BY <3>2, <3>3, <3>7 DEF FromStep
      <4>2. NextIs(p, n + 1)
        <5>1. CASE RestOf(p, n) = << >> /\ \A j \in DOMAIN p : j > Len(p) - n => ~IsExpr(p[j])
          BY <3>4, <3>7, <4>1, <5>1 DEF NextIs
        <5>2. CASE \E y \in DOMAIN p :
                     /\ RestOf(p, n) # << >> /\ Head(RestOf(p, n)) = p[y]
                     /\ Tail(RestOf(p, n)) = RestOf(p, Len(p) - y)
                     /\ y > Len(p) - n /\ IsExpr(p[y])
                     /\ \A j \in DOMAIN p : j > Len(p) - n /\ j < y => ~IsExpr(p[j])
          BY <3>4, <3>7, <4>1, <5>2 DEF NextIs
        <5> QED  BY <3>1, <5>1, <5>2 DEF NextIs
      <4> QED  BY <2>1, <3>1, <4>1, <4>2 DEF S
    <3> QED  BY <3>6, <3>7
  <2>3. CASE ~(n + 1 <= Len(p))  BY <2>1, <2>3 DEF S
  <2> QED  BY <2>2, <2>3
<1> HIDE DEF S
<1>8. S \in SUBSET Nat  BY DEF S
<1>9. S = Nat  BY <1>6, <1>7, <1>8, Induction
<1>10. \A n \in 0 .. Len(p) : NextIs(p, n)
  <2>1. \A n \in 0 .. Len(p) : n \in S /\ n <= Len(p)  BY <1>1, <1>9
  <2> QED  BY <2>1 DEF S
<1> QED  BY <1>2, <1>10

\* A prompt of which the texts up to x have been filled in.
Filled(p, o, i, x) == [j \in DOMAIN p |-> IF j <= x THEN ResolveValue(p[j], o, i) ELSE p[j]]

FitsIn(p, o, i) ==
  \A n \in DOMAIN p :
    IsExpr(p[n]) => LET value == Evaluate(p[n], o, i)
                    IN  value # MatchRef /\ (IsExpr(value) => ~Contains(p, value))

LEMMA FillNext ==
  ASSUME NEW p, p \in Seq(Range(p)), NEW o, NEW i, FitsIn(p, o, i),
         NEW x \in 0 .. Len(p), NEW y \in DOMAIN p, y > x, IsExpr(p[y]),
         \A j \in DOMAIN p : j > x /\ j < y => ~IsExpr(p[j])
  PROVE  ReplaceFirst(Filled(p, o, i, x), p[y], Evaluate(p[y], o, i)) = Filled(p, o, i, y)
<1> DEFINE out == Filled(p, o, i, x)
           A == {j \in 1 .. Len(out) : out[j] = p[y]}
           v == Evaluate(p[y], o, i)
<1>1. Len(p) \in Nat /\ DOMAIN p = 1 .. Len(p) /\ y \in Nat /\ x \in Nat
  OBVIOUS
<1>2. DOMAIN out = 1 .. Len(p) /\ \A j \in 1 .. Len(p) : out[j] = IF j <= x THEN ResolveValue(p[j], o, i) ELSE p[j]
  BY <1>1 DEF Filled
<1>3. Len(out) = Len(p)
  <2> DEFINE T == {out[j] : j \in 1 .. Len(p)}
  <2>1. out \in [1 .. Len(p) -> T]  BY <1>1 DEF Filled
  <2> HIDE DEF out, T
  <2>2. out \in Seq(T)  BY <1>1, <2>1
  <2> QED  BY <1>1, <1>2, <2>2
<1>4. \A j \in 1 .. Len(p) : j < y => out[j] # p[y]
  <2>1. SUFFICES ASSUME NEW j \in 1 .. Len(p), j < y PROVE out[j] # p[y]
    OBVIOUS
  <2>2. CASE ~IsExpr(p[j])
    <3>1. out[j] = p[j]  BY <1>2, <2>2 DEF ResolveValue
    <3> QED  BY <2>2, <3>1
  <2>3. CASE IsExpr(p[j])
    <3>1. j <= x /\ out[j] = Evaluate(p[j], o, i)  BY <1>1, <1>2, <2>1, <2>3 DEF ResolveValue
    <3>2. IsExpr(out[j]) => ~Contains(p, out[j])  BY <1>1, <2>3, <3>1 DEF FitsIn
    <3>3. Contains(p, p[y])  BY <1>1 DEF Contains
    <3> QED  BY <3>2, <3>3
  <2> QED  BY <2>2, <2>3
<1>5. out[y] = p[y] /\ y \in 1 .. Len(p)
  BY <1>1, <1>2
<1>6. Min(A) = y
  <2>1. A \in SUBSET Nat /\ y \in A /\ \A j \in A : y <= j
    <3>1. \A j \in A : j \in 1 .. Len(p) /\ out[j] = p[y]  BY <1>3
    <3> HIDE DEF out
    <3> QED  BY <1>1, <1>3, <1>4, <1>5, <3>1
  <2> HIDE DEF A
  <2>2. Min(A) \in A /\ \A k \in A : Min(A) <= k  BY <2>1, LeastIs
  <2>3. Min(A) \in Nat /\ y \in Nat /\ y <= Min(A) /\ Min(A) <= y  BY <1>1, <2>1, <2>2
  <2> QED  BY <2>3
<1>7. A # {} /\ y # 0
  <2> HIDE DEF out
  <2> QED  BY <1>1, <1>3, <1>5
<1>8. v # MatchRef
  BY <1>1 DEF FitsIn
<1>9. ReplaceFirst(out, p[y], v) = [out EXCEPT ![y] = v]
  <2> HIDE DEF out, v
  <2> QED  BY <1>6, <1>7, <1>8 DEF ReplaceFirst, SelectInSeq, ReplaceAt
<1>10. ResolveValue(p[y], o, i) = v
  BY DEF ResolveValue
<1>11. ASSUME NEW j \in 1 .. Len(p)
       PROVE  (IF j = y THEN v ELSE out[j]) = IF j <= y THEN ResolveValue(p[j], o, i) ELSE p[j]
  <2>1. CASE j = y  BY <1>1, <1>10, <2>1
  <2>2. CASE j <= x  BY <1>1, <1>2, <2>2
  <2>3. CASE j > x /\ j < y
    <3>1. ~IsExpr(p[j])  BY <1>1, <2>3
    <3>2. ResolveValue(p[j], o, i) = p[j]  BY <3>1 DEF ResolveValue
    <3>3. out[j] = p[j] /\ j # y /\ j <= y  BY <1>1, <1>2, <2>3
    <3> QED  BY <3>2, <3>3
  <2>4. CASE j > y  BY <1>1, <1>2, <2>4
  <2> QED  BY <1>1, <2>1, <2>2, <2>3, <2>4
<1>12. [out EXCEPT ![y] = v] = [j \in 1 .. Len(p) |-> IF j = y THEN v ELSE out[j]]
  <2>1. out = [j \in 1 .. Len(p) |-> out[j]]  BY <1>1 DEF Filled
  <2> HIDE DEF out, v
  <2> QED  BY <2>1
<1> HIDE DEF out, v
<1>13. [j \in 1 .. Len(p) |-> IF j = y THEN v ELSE out[j]] = Filled(p, o, i, y)
  BY <1>1, <1>11 DEF Filled
<1> QED  BY <1>9, <1>12, <1>13 DEF out, v

\* Where a prompt is at, and when it is filled in.
AtPrompt(s, i, o) ==
  \E p \in Prompts :
    /\ s = [at |-> "prompt", executor |-> "llm", prompt |-> p, out |-> s.out, matches |-> s.matches]
    /\ FitsIn(p, o, i) => \E x \in 0 .. Len(p) :
                            s.out = Filled(p, o, i, x) /\ s.matches = RestOf(p, Len(p) - x)

LlmDone(s, i, o) ==
  \E p \in Prompts :
    /\ s = [at |-> "done", executor |-> "llm", prompt |-> p, out |-> s.out, matches |-> s.matches]
    /\ FitsIn(p, o, i) => s.out = [j \in DOMAIN p |-> ResolveValue(p[j], o, i)]

LEMMA PromptIs ==
  ASSUME NEW p \in Prompts
  PROVE  p \in Seq(Range(p)) /\ Len(p) \in Nat /\ DOMAIN p = 1 .. Len(p)
<1>1. PICK T : T = Range(p)
  OBVIOUS
<1>2. p \in Seq(T)
  BY <1>1, ParamsAssumption
<1> QED  BY <1>1, <1>2

LEMMA PromptStart ==
  ASSUME NEW p \in Prompts, NEW i, NEW o,
         NEW s, s = [at |-> "prompt", executor |-> "llm", prompt |-> p, out |-> p, matches |-> Expressions(p)]
  PROVE  AtPrompt(s, i, o)
<1>1. p \in Seq(Range(p))
  BY ParamsAssumption
<1>2. Expressions(p) = RestOf(p, Len(p))
  BY <1>1, RestIs
<1>3. 0 \in 0 .. Len(p) /\ Len(p) - 0 = Len(p) /\ DOMAIN p = 1 .. Len(p) /\ p = [j \in DOMAIN p |-> p[j]]
  BY <1>1
<1>4. p = Filled(p, o, i, 0)
  <2>1. \A j \in DOMAIN p : ~(j <= 0)  BY <1>3
  <2> QED  BY <1>3, <2>1 DEF Filled
<1>5. s.out = p /\ s.matches = Expressions(p)
  OBVIOUS
<1>6. s = [at |-> "prompt", executor |-> "llm", prompt |-> p, out |-> s.out, matches |-> s.matches]
  BY <1>5
<1> QED  BY <1>2, <1>3, <1>4, <1>5, <1>6 DEF AtPrompt

LEMMA PromptFields ==
  ASSUME NEW p, NEW out, NEW matches,
         NEW t, t = [at |-> "prompt", executor |-> "llm", prompt |-> p, out |-> out, matches |-> matches]
  PROVE  t.out = out /\ t.matches = matches
OBVIOUS

Inserted(t, s, i, o) ==
  t = [s EXCEPT !.out = ReplaceFirst(@, Head(s.matches), Evaluate(Head(s.matches), o, i)),
                !.matches = Tail(@)]

LEMMA PromptStep ==
  ASSUME NEW i, NEW o, NEW s, AtPrompt(s, i, o), s.matches # << >>, NEW t, Inserted(t, s, i, o)
  PROVE  AtPrompt(t, i, o)
<1>1. PICK p \in Prompts :
        /\ s = [at |-> "prompt", executor |-> "llm", prompt |-> p, out |-> s.out, matches |-> s.matches]
        /\ FitsIn(p, o, i) => \E x \in 0 .. Len(p) :
                                s.out = Filled(p, o, i, x) /\ s.matches = RestOf(p, Len(p) - x)
  BY DEF AtPrompt
<1>2. /\ t.out = ReplaceFirst(s.out, Head(s.matches), Evaluate(Head(s.matches), o, i))
      /\ t.matches = Tail(s.matches)
      /\ t = [at |-> "prompt", executor |-> "llm", prompt |-> p, out |-> t.out, matches |-> t.matches]
  <2>1. PICK text, rest : /\ text = ReplaceFirst(s.out, Head(s.matches), Evaluate(Head(s.matches), o, i))
                          /\ rest = Tail(s.matches)
    OBVIOUS
  <2>2. t = [s EXCEPT !.out = text, !.matches = rest]
    BY <2>1 DEF Inserted
  <2>3. PICK out, matches :
          s = [at |-> "prompt", executor |-> "llm", prompt |-> p, out |-> out, matches |-> matches]
    BY <1>1
  <2>4. t = [at |-> "prompt", executor |-> "llm", prompt |-> p, out |-> text, matches |-> rest]
    BY <2>2, <2>3
  <2>5. t.out = text /\ t.matches = rest
    BY <2>4, PromptFields
  <2> QED  BY <2>1, <2>4, <2>5
<1>3. ASSUME FitsIn(p, o, i)
      PROVE  \E x \in 0 .. Len(p) : t.out = Filled(p, o, i, x) /\ t.matches = RestOf(p, Len(p) - x)
  <2>1. PICK x \in 0 .. Len(p) : s.out = Filled(p, o, i, x) /\ s.matches = RestOf(p, Len(p) - x)
    BY <1>1, <1>3
  <2>2. p \in Seq(Range(p)) /\ Len(p) \in Nat /\ DOMAIN p = 1 .. Len(p)
    BY PromptIs
  <2>3. Len(p) - x \in 0 .. Len(p) /\ Len(p) - (Len(p) - x) = x
    BY <2>2
  <2>4. NextIs(p, Len(p) - x)
    BY <2>2, <2>3, RestIs
  <2>5. PICK y \in DOMAIN p :
          /\ Head(s.matches) = p[y] /\ Tail(s.matches) = RestOf(p, Len(p) - y)
          /\ y > x /\ IsExpr(p[y])
          /\ \A j \in DOMAIN p : j > x /\ j < y => ~IsExpr(p[j])
    BY <2>1, <2>3, <2>4 DEF NextIs
  <2>6. ReplaceFirst(Filled(p, o, i, x), p[y], Evaluate(p[y], o, i)) = Filled(p, o, i, y)
    BY <1>3, <2>2, <2>5, FillNext
  <2>7. y \in 0 .. Len(p)
    BY <2>2
  <2> QED  BY <1>2, <2>1, <2>5, <2>6, <2>7
<1> QED  BY <1>2, <1>3 DEF AtPrompt

LEMMA PromptEnd ==
  ASSUME NEW i, NEW o, NEW s, AtPrompt(s, i, o), s.matches = << >>,
         NEW t, t = [s EXCEPT !.at = "done"]
  PROVE  LlmDone(t, i, o)
<1>1. PICK p \in Prompts :
        /\ s = [at |-> "prompt", executor |-> "llm", prompt |-> p, out |-> s.out, matches |-> s.matches]
        /\ FitsIn(p, o, i) => \E x \in 0 .. Len(p) :
                                s.out = Filled(p, o, i, x) /\ s.matches = RestOf(p, Len(p) - x)
  BY DEF AtPrompt
<1>2. /\ t.out = s.out
      /\ t = [at |-> "done", executor |-> "llm", prompt |-> p, out |-> t.out, matches |-> t.matches]
  BY <1>1
<1>3. ASSUME FitsIn(p, o, i) PROVE t.out = [j \in DOMAIN p |-> ResolveValue(p[j], o, i)]
  <2>1. PICK x \in 0 .. Len(p) : s.out = Filled(p, o, i, x) /\ s.matches = RestOf(p, Len(p) - x)
    BY <1>1, <1>3
  <2>2. p \in Seq(Range(p)) /\ Len(p) \in Nat /\ DOMAIN p = 1 .. Len(p)
    BY PromptIs
  <2>3. Len(p) - x \in 0 .. Len(p) /\ Len(p) - (Len(p) - x) = x
    BY <2>2
  <2>4. NextIs(p, Len(p) - x)
    BY <2>2, <2>3, RestIs
  <2>5. \A j \in DOMAIN p : j > x => ~IsExpr(p[j])
    BY <2>1, <2>3, <2>4 DEF NextIs
  <2>6. \A j \in DOMAIN p : j > x => ResolveValue(p[j], o, i) = p[j]
    BY <2>5 DEF ResolveValue
  <2>7. \A j \in DOMAIN p : j <= x \/ j > x
    BY <2>2
  <2>8. Filled(p, o, i, x) = [j \in DOMAIN p |-> ResolveValue(p[j], o, i)]
    BY <2>6, <2>7 DEF Filled
  <2> QED  BY <1>2, <2>1, <2>8
<1> QED  BY <1>2, <1>3 DEF LlmDone

LlmFailed(s) == s = [at |-> "failed", executor |-> "llm"]

InstanceFits(s, i, given, o, chosen) ==
  \/ s = Idle
  \/ AtParams(s, i, given) \/ AtHeader(s, i, given) \/ HttpDone(s, i, given) \/ HttpFailed(s, given, chosen)
  \/ AtPrompt(s, i, o) \/ LlmDone(s, i, o) \/ LlmFailed(s)

\* Before a run the instances are idle; from then on what they are given is fixed.
ParamsInv ==
  /\ RowsMapped /\ DOMAIN inst = FanOut
  /\ overrides \in Overrides \union {NoRun}
  /\ overrides = NoRun => \A i \in FanOut : inst[i] = Idle
  /\ \A i \in FanOut : InstanceFits(inst[i], i, Given, overrides, dateParams)

LEMMA ParamsInvInit == ParamsInit => ParamsInv
<1> SUFFICES ASSUME ParamsInit PROVE ParamsInv
  OBVIOUS
<1>1. PICK none : none = << >>
  OBVIOUS
<1>2. none \in Seq(Rows) /\ DOMAIN none = {}
  BY <1>1
<1>3. rows = none /\ static = none /\ dateParams \in DateLists
  BY <1>1 DEF ParamsInit
<1>4. RowsMapped
  BY <1>2, <1>3 DEF RowsMapped, MapsRows
<1> QED  BY <1>4 DEF ParamsInit, ParamsInv, InstanceFits

\* An edit keeps rows and map together; no instance has begun.
LEMMA RowsEdited ==
  ASSUME ParamsInv, NotRun, UNCHANGED <<dateParams, overrides, inst>>,
         rows' \in Seq(Rows), MapsRows(static', rows')
  PROVE  ParamsInv'
<1>1. RowsMapped'
  BY DEF ParamsInv, RowsMapped
<1>2. \A i \in FanOut : inst'[i] = Idle
  BY DEF ParamsInv, NotRun
<1>3. DOMAIN inst' = FanOut /\ overrides' \in Overrides \union {NoRun}
  BY DEF ParamsInv
<1> QED  BY <1>1, <1>2, <1>3 DEF ParamsInv, InstanceFits

LEMMA EmitKeeps == ASSUME ParamsInv, NotRun, NEW list \in Seq(Rows), Emit(list) PROVE ParamsInv'
<1>1. MapsRows(MapOf(list), list)
  BY MapOfIs
<1>2. rows' = list /\ static' = MapOf(list) /\ UNCHANGED <<dateParams, overrides, inst>>
  BY DEF Emit
<1>3. rows' \in Seq(Rows) /\ MapsRows(static', rows')
  BY <1>1, <1>2
<1> QED  BY <1>2, <1>3, RowsEdited

\* A row without a key is not on the map.
IsBlank(entry) == entry.key = ""

LEMMA AppendIs ==
  ASSUME NEW T, NEW s \in Seq(T), NEW e \in T, NEW t, t = Append(s, e)
  PROVE  /\ Len(s) \in Nat /\ DOMAIN s = 1 .. Len(s)
         /\ t \in Seq(T) /\ DOMAIN t = 1 .. Len(s) + 1
         /\ t[Len(s) + 1] = e /\ \A n \in 1 .. Len(s) : t[n] = s[n]
OBVIOUS

LEMMA BlankAdded ==
  ASSUME NEW list \in Seq(Rows), NEW map, MapsRows(map, list), NEW b \in Rows, IsBlank(b),
         NEW more, more = Append(list, b)
  PROVE  more \in Seq(Rows) /\ MapsRows(map, more)
<1>1. /\ Len(list) \in Nat /\ DOMAIN list = 1 .. Len(list)
      /\ more \in Seq(Rows) /\ DOMAIN more = 1 .. Len(list) + 1
      /\ more[Len(list) + 1] = b /\ \A n \in 1 .. Len(list) : more[n] = list[n]
  BY AppendIs
<1>2. \A n \in DOMAIN more : n \in DOMAIN list \/ n = Len(list) + 1
  BY <1>1
<1>3. \A n \in DOMAIN list : n \in DOMAIN more /\ more[n] = list[n]
  BY <1>1
<1>4. {more[n].key : n \in DOMAIN more} \ {""} = {list[n].key : n \in DOMAIN list} \ {""}
  <2>1. \A n \in DOMAIN more : more[n].key # "" => \E l \in DOMAIN list : list[l].key = more[n].key
    BY <1>1, <1>2, <1>3 DEF IsBlank
  <2>2. \A n \in DOMAIN list : \E l \in DOMAIN more : more[l].key = list[n].key
    BY <1>3
  <2>3. ASSUME NEW k, k # "" PROVE (\E n \in DOMAIN more : more[n].key = k) <=> \E n \in DOMAIN list : list[n].key = k
    <3>1. ASSUME NEW n \in DOMAIN more, more[n].key = k PROVE \E l \in DOMAIN list : list[l].key = k
      BY <2>1, <2>3, <3>1
    <3>2. ASSUME NEW n \in DOMAIN list, list[n].key = k PROVE \E l \in DOMAIN more : more[l].key = k
      BY <2>2, <3>2
    <3> QED  BY <3>1, <3>2
  <2>4. ASSUME NEW k
        PROVE  k \in {more[n].key : n \in DOMAIN more} \ {""} <=> k \in {list[n].key : n \in DOMAIN list} \ {""}
    <3>1. CASE k = ""  BY <3>1
    <3>2. CASE k # ""
      <4>1. (\E n \in DOMAIN more : more[n].key = k) <=> \E n \in DOMAIN list : list[n].key = k
        BY <2>3, <3>2
      <4> QED  BY <3>2, <4>1
    <3> QED  BY <3>1, <3>2
  <2> QED  BY <2>4
<1>5. ASSUME NEW n \in DOMAIN more, LastOf(more, n) PROVE map[more[n].key] = more[n].text
  <2>1. n \in DOMAIN list  BY <1>1, <1>2, <1>5 DEF LastOf, IsBlank
  <2>2. LastOf(list, n)  BY <1>3, <1>5, <2>1 DEF LastOf
  <2> QED  BY <1>3, <2>1, <2>2 DEF MapsRows
<1>6. DOMAIN map = {more[n].key : n \in DOMAIN more} \ {""}
  BY <1>4 DEF MapsRows
<1> QED  BY <1>1, <1>5, <1>6 DEF MapsRows

\* The rows made from a map give that map again.
LEMMA Remounted ==
  ASSUME NEW list \in Seq(Rows), NEW map, MapsRows(map, list),
         NEW made, made = [n \in DOMAIN SetToSeq(DOMAIN map) |->
                             LET k == SetToSeq(DOMAIN map)[n] IN [key |-> k, text |-> map[k]]]
  PROVE  made \in Seq(Rows) /\ MapsRows(map, made)
<1> DEFINE N == Cardinality(DOMAIN map)
           ks == SetToSeq(DOMAIN map)
<1>1. Len(list) \in Nat /\ DOMAIN list = 1 .. Len(list) /\ \A n \in DOMAIN list : list[n] \in Rows
  OBVIOUS
<1>2. IsFiniteSet(DOMAIN map)
  <2> DEFINE all == {list[n].key : n \in DOMAIN list}
             f == [n \in DOMAIN list |-> list[n].key]
  <2>1. f \in Surjection(DOMAIN list, all)  BY DEF Surjection
  <2>2. IsFiniteSet(DOMAIN list)  BY <1>1, UpTo
  <2> HIDE DEF f, all
  <2>3. IsFiniteSet(all)  BY <2>1, <2>2, FS_Surjection
  <2>4. DOMAIN map \in SUBSET all  BY DEF MapsRows, all
  <2> QED  BY <2>3, <2>4, FS_Subset
<1>3. N \in Nat /\ ExistsBijection(1 .. N, DOMAIN map)
  BY <1>2, FS_CardinalityType
<1>4. \E f \in [1 .. N -> DOMAIN map] : IsInjective(f)
  BY <1>3 DEF ExistsBijection, Bijection, Injection
<1>5. ks \in [1 .. N -> DOMAIN map] /\ IsInjective(ks)
  BY <1>4 DEF SetToSeq
<1>6. ks \in Surjection(1 .. N, DOMAIN map)
  <2>1. ks \in Injection(1 .. N, DOMAIN map)  BY <1>5 DEF Injection
  <2>2. Cardinality(1 .. N) = N  BY <1>3, UpTo
  <2> HIDE DEF ks
  <2>3. Cardinality(1 .. N) = Cardinality(DOMAIN map)  BY <2>2
  <2> HIDE DEF N
  <2> QED  BY <1>2, <2>1, <2>3, FS_Injection
<1>7. made = [n \in 1 .. N |-> [key |-> ks[n], text |-> map[ks[n]]]]
  BY <1>5
<1> HIDE DEF ks
<1>8. ASSUME NEW k \in DOMAIN map PROVE k \in Keys /\ k # "" /\ map[k] \in ParamTexts \union {Blank}
  <2> DEFINE A == {n \in 1 .. Len(list) : list[n].key = k}
  <2>1. A \in SUBSET (1 .. Len(list)) /\ A # {} /\ k # ""
    <3>1. k \in {list[n].key : n \in DOMAIN list} \ {""}  BY DEF MapsRows
    <3>2. PICK n \in 1 .. Len(list) : list[n].key = k  BY <1>1, <3>1
    <3> QED  BY <3>1, <3>2
  <2> HIDE DEF A
  <2>2. Max(A) \in A /\ \A l \in A : Max(A) >= l
    BY <1>1, <2>1, GreatestIs
  <2>3. PICK m \in 1 .. Len(list) : list[m].key = k /\ \A l \in A : m >= l
    BY <2>2 DEF A
  <2>4. \A l \in 1 .. Len(list) : l > m => list[l].key # k
    BY <1>1, <2>3 DEF A
  <2>5. LastOf(list, m)
    BY <1>1, <2>1, <2>3, <2>4 DEF LastOf
  <2>6. map[k] = list[m].text
    BY <1>1, <2>3, <2>5 DEF MapsRows
  <2>7. list[m] \in Rows
    BY <1>1, <2>3
  <2> QED  BY <2>1, <2>3, <2>6, <2>7 DEF Rows
<1>9. \A n \in 1 .. N : ks[n] \in DOMAIN map
  BY <1>5
<1>10. \A n \in 1 .. N : made[n] = [key |-> ks[n], text |-> map[ks[n]]]
  BY <1>7
<1>11. \A n \in 1 .. N : [key |-> ks[n], text |-> map[ks[n]]] \in Rows
  BY <1>8, <1>9 DEF Rows
<1>12. made \in [1 .. N -> Rows] /\ DOMAIN made = 1 .. N
  BY <1>7, <1>11
<1>13. made \in Seq(Rows)
  <2> HIDE DEF N
  <2> QED  BY <1>3, <1>12
<1>14. ASSUME NEW n \in 1 .. N PROVE made[n].key = ks[n] /\ made[n].text = map[ks[n]]
  <2>1. PICK r : r = [key |-> ks[n], text |-> map[ks[n]]]  OBVIOUS
  <2>2. r.key = ks[n] /\ r.text = map[ks[n]]  BY <2>1
  <2>3. made[n] = r  BY <1>10, <2>1
  <2> QED  BY <2>2, <2>3
<1>15. DOMAIN map = {made[n].key : n \in DOMAIN made} \ {""}
  <2> HIDE DEF N
  <2>1. ASSUME NEW n \in 1 .. N PROVE made[n].key \in DOMAIN map /\ made[n].key # ""
    BY <1>8, <1>9, <1>14
  <2>2. ASSUME NEW k \in DOMAIN map PROVE \E n \in 1 .. N : made[n].key = k
    <3>1. PICK n \in 1 .. N : ks[n] = k  BY <1>6 DEF Surjection
    <3> QED  BY <1>14, <3>1
  <2>3. ASSUME NEW k PROVE k \in DOMAIN map <=> k \in {made[n].key : n \in 1 .. N} \ {""}
    BY <2>1, <2>2
  <2>4. DOMAIN map = {made[n].key : n \in 1 .. N} \ {""}  BY <2>3
  <2> QED  BY <1>12, <2>4
<1>16. \A n \in DOMAIN made : map[made[n].key] = made[n].text
  BY <1>12, <1>14
<1> QED  BY <1>13, <1>15, <1>16 DEF MapsRows

LEMMA StateIs ==
  ASSUME NEW s, NEW i, NEW given, NEW o, NEW chosen, InstanceFits(s, i, given, o, chosen)
  PROVE  /\ s.at = "params" => AtParams(s, i, given)
         /\ s.at = "header" => AtHeader(s, i, given)
         /\ s.at = "prompt" => AtPrompt(s, i, o)
         /\ s.at = "done" => HttpDone(s, i, given) \/ LlmDone(s, i, o)
         /\ s.at = "failed" => HttpFailed(s, given, chosen) \/ LlmFailed(s)
         /\ s.at \notin {"params", "header", "prompt", "done", "failed"} => s = Idle
<1>1. s = Idle => s.at = "idle"
  BY DEF Idle
<1>2. AtParams(s, i, given) => s.at = "params"
  BY DEF AtParams
<1>3. AtHeader(s, i, given) => s.at = "header"
  BY DEF AtHeader
<1>4. HttpDone(s, i, given) => s.at = "done"
  BY DEF HttpDone
<1>5. HttpFailed(s, given, chosen) => s.at = "failed"
  BY DEF HttpFailed
<1>6. AtPrompt(s, i, o) => s.at = "prompt"
  BY DEF AtPrompt
<1>7. LlmDone(s, i, o) => s.at = "done"
  BY DEF LlmDone
<1>8. LlmFailed(s) => s.at = "failed"
  BY DEF LlmFailed
<1> QED  BY <1>1, <1>2, <1>3, <1>4, <1>5, <1>6, <1>7, <1>8 DEF InstanceFits

\* A step of one instance of a run.
LEMMA Went ==
  ASSUME ParamsInv, NEW i \in FanOut, NEW s, Goes(i, s), EditorStays, overrides # NoRun,
         InstanceFits(s, i, Given, overrides, dateParams)
  PROVE  ParamsInv'
<1>1. RowsMapped' /\ Given' = Given /\ overrides' = overrides /\ dateParams' = dateParams
  BY DEF EditorStays, ParamsInv, RowsMapped, Given
<1>2. DOMAIN inst' = FanOut /\ \A j \in FanOut : inst'[j] = IF j = i THEN s ELSE inst[j]
  BY DEF Goes, ParamsInv
<1>3. \A j \in FanOut : InstanceFits(inst'[j], j, Given, overrides, dateParams)
  BY <1>2 DEF ParamsInv
<1>4. \A j \in FanOut : InstanceFits(inst[j], j, Given, overrides, dateParams)'
  BY <1>1, <1>3
<1>5. overrides' \in Overrides \union {NoRun}
  BY <1>1 DEF ParamsInv
<1> QED  BY <1>1, <1>2, <1>4, <1>5 DEF ParamsInv

LEMMA NotIdle ==
  ASSUME ParamsInv, NEW i \in FanOut, inst[i].at \in {"params", "header", "prompt"}
  PROVE  overrides # NoRun /\ InstanceFits(inst[i], i, Given, overrides, dateParams)
BY DEF ParamsInv, Idle

LEMMA StartParamsKeeps == ASSUME ParamsInv, NEW i \in FanOut, StartParams(i) PROVE ParamsInv'
<1>1. Given = OnTop(overrides, Dated(static, dateParams)) /\ \E ks, map : Given = [k \in ks |-> map[k]]
  <2>1. PICK under : under = Dated(static, dateParams)  OBVIOUS
  <2>2. Given = [k \in DOMAIN overrides \union DOMAIN under |-> IF k \in DOMAIN overrides THEN overrides[k] ELSE under[k]]
    BY <2>1 DEF Given, OnTop
  <2>3. Given = [k \in DOMAIN Given |-> Given[k]]  BY <2>2
  <2> QED  BY <2>3 DEF Given
<1>2. overrides # NoRun /\ EditorStays
  BY DEF StartParams
<1>3. CASE \A n \in DOMAIN dateParams : dateParams[n].valid
  <2>1. PICK s : s = [at |-> "params", executor |-> "http", result |-> Given, context |-> Given,
                      left |-> {k \in DOMAIN Given : IsExpr(Given[k])}]
    OBVIOUS
  <2>2. Goes(i, s)  BY <1>3, <2>1 DEF StartParams, Given
  <2>3. PICK g : g = Given  OBVIOUS
  <2>4. AtParams(s, i, g)
    <3>1. s = [at |-> "params", executor |-> "http", result |-> g, context |-> g,
               left |-> {k \in DOMAIN g : IsExpr(g[k])}]
      BY <2>1, <2>3
    <3>2. \E ks, map : g = [k \in ks |-> map[k]]  BY <1>1, <2>3
    <3> QED  BY <3>1, <3>2, StartIs
  <2>5. InstanceFits(s, i, Given, overrides, dateParams)  BY <2>3, <2>4 DEF InstanceFits
  <2> QED  BY <1>2, <2>2, <2>5, Went
<1>4. CASE ~ \A n \in DOMAIN dateParams : dateParams[n].valid
  <2>1. PICK s : s = [at |-> "failed", executor |-> "http"]
    OBVIOUS
  <2>2. Goes(i, s)  BY <1>4, <2>1 DEF StartParams
  <2>3. HttpFailed(s, Given, dateParams)  BY <1>4, <2>1 DEF HttpFailed
  <2>4. InstanceFits(s, i, Given, overrides, dateParams)  BY <2>3 DEF InstanceFits
  <2> QED  BY <1>2, <2>2, <2>4, Went
<1> QED  BY <1>3, <1>4

LEMMA EvaluateParamKeeps ==
  ASSUME ParamsInv, NEW i \in FanOut, NEW k \in inst[i].left, EvaluateParam(i, k)
  PROVE  ParamsInv'
<1>1. inst[i].at = "params" /\ EditorStays
  BY DEF EvaluateParam
<1>2. overrides # NoRun /\ AtParams(inst[i], i, Given)
  BY <1>1, NotIdle, StateIs
<1>3. CASE inst[i].context[k] = Broken
  <2>1. PICK s : s = [at |-> "failed", executor |-> inst[i].executor]
    OBVIOUS
  <2>2. Goes(i, s)  BY <1>3, <2>1 DEF EvaluateParam, Fail
  <2>3. k \in DOMAIN Given /\ Given[k] = Broken /\ inst[i].executor = "http"
    BY <1>2, <1>3 DEF AtParams
  <2>4. HttpFailed(s, Given, dateParams)  BY <2>1, <2>3 DEF HttpFailed
  <2>5. InstanceFits(s, i, Given, overrides, dateParams)  BY <2>4 DEF InstanceFits
  <2> QED  BY <1>1, <1>2, <2>2, <2>5, Went
<1>4. CASE inst[i].context[k] # Broken
  <2>1. PICK s, t : /\ s = inst[i]
                    /\ t = [s EXCEPT !.result[k] = Evaluate(s.context[k], s.context, i), !.left = @ \ {k}]
    OBVIOUS
  <2>2. Goes(i, t)  BY <1>4, <2>1 DEF EvaluateParam
  <2>3. PICK g : g = Given  OBVIOUS
  <2>4. AtParams(s, i, g) /\ k \in s.left  BY <1>2, <2>1, <2>3
  <2>5. AtParams(t, i, g)  BY <2>1, <2>4, ParamStep
  <2>6. InstanceFits(t, i, Given, overrides, dateParams)  BY <2>3, <2>5 DEF InstanceFits
  <2> QED  BY <1>1, <1>2, <2>2, <2>6, Went
<1> QED  BY <1>3, <1>4

LEMMA ParamsResolvedKeeps == ASSUME ParamsInv, NEW i \in FanOut, ParamsResolved(i) PROVE ParamsInv'
<1>1. inst[i].at = "params" /\ inst[i].left = {} /\ EditorStays
  BY DEF ParamsResolved
<1>2. overrides # NoRun /\ AtParams(inst[i], i, Given)
  BY <1>1, NotIdle, StateIs
<1>3. PICK s, t : s = inst[i] /\ t = [s EXCEPT !.at = "header"]
  OBVIOUS
<1>4. Goes(i, t)
  BY <1>3 DEF ParamsResolved
<1>5. PICK g : g = Given
  OBVIOUS
<1>6. AtHeader(t, i, g)
  BY <1>1, <1>2, <1>3, <1>5, HeaderStep
<1>7. InstanceFits(t, i, Given, overrides, dateParams)
  BY <1>5, <1>6 DEF InstanceFits
<1> QED  BY <1>1, <1>2, <1>4, <1>7, Went

LEMMA ResolveHeaderKeeps == ASSUME ParamsInv, NEW i \in FanOut, ResolveHeader(i) PROVE ParamsInv'
<1>1. inst[i].at = "header" /\ EditorStays
  BY DEF ResolveHeader
<1>2. overrides # NoRun /\ AtHeader(inst[i], i, Given)
  BY <1>1, NotIdle, StateIs
<1>3. inst[i].result = Resolved(Given, i)
  BY <1>2 DEF AtHeader
<1>4. PICK t : t = [at |-> "done", executor |-> "http", result |-> inst[i].result,
                    header |-> ResolveValue(HeaderText, inst[i].result, i)]
  OBVIOUS
<1>5. Goes(i, t)
  BY <1>4 DEF ResolveHeader
<1>6. HttpDone(t, i, Given)
  BY <1>3, <1>4 DEF HttpDone
<1>7. InstanceFits(t, i, Given, overrides, dateParams)
  BY <1>6 DEF InstanceFits
<1> QED  BY <1>1, <1>2, <1>5, <1>7, Went

LEMMA StartPromptKeeps ==
  ASSUME ParamsInv, NEW i \in FanOut, NEW p \in Prompts, StartPrompt(i, p)
  PROVE  ParamsInv'
<1>1. overrides # NoRun /\ EditorStays
  BY DEF StartPrompt
<1>2. PICK s : s = [at |-> "prompt", executor |-> "llm", prompt |-> p, out |-> p, matches |-> Expressions(p)]
  OBVIOUS
<1>3. Goes(i, s)
  BY <1>2 DEF StartPrompt
<1>4. AtPrompt(s, i, overrides)
  BY <1>2, PromptStart
<1>5. InstanceFits(s, i, Given, overrides, dateParams)
  BY <1>4 DEF InstanceFits
<1> QED  BY <1>1, <1>3, <1>5, Went

LEMMA InterpolateKeeps == ASSUME ParamsInv, NEW i \in FanOut, Interpolate(i) PROVE ParamsInv'
<1>1. inst[i].at = "prompt" /\ inst[i].matches # << >> /\ EditorStays
  BY DEF Interpolate
<1>2. overrides # NoRun /\ AtPrompt(inst[i], i, overrides)
  BY <1>1, NotIdle, StateIs
<1>3. CASE Head(inst[i].matches) = Broken
  <2>1. PICK s : s = [at |-> "failed", executor |-> inst[i].executor]
    OBVIOUS
  <2>2. Goes(i, s)  BY <1>3, <2>1 DEF Interpolate, Fail
  <2>3. inst[i].executor = "llm"  BY <1>2 DEF AtPrompt
  <2>4. LlmFailed(s)  BY <2>1, <2>3 DEF LlmFailed
  <2>5. InstanceFits(s, i, Given, overrides, dateParams)  BY <2>4 DEF InstanceFits
  <2> QED  BY <1>1, <1>2, <2>2, <2>5, Went
<1>4. CASE Head(inst[i].matches) # Broken
  <2>1. PICK t : t = [inst[i] EXCEPT !.out = ReplaceFirst(@, Head(inst[i].matches),
                                                          Evaluate(Head(inst[i].matches), overrides, i)),
                                     !.matches = Tail(@)]
    OBVIOUS
  <2>2. Goes(i, t)  BY <1>4, <2>1 DEF Interpolate
  <2>3. Inserted(t, inst[i], i, overrides)  BY <2>1 DEF Inserted
  <2>4. AtPrompt(t, i, overrides)  BY <1>1, <1>2, <2>3, PromptStep
  <2>5. InstanceFits(t, i, Given, overrides, dateParams)  BY <2>4 DEF InstanceFits
  <2> QED  BY <1>1, <1>2, <2>2, <2>5, Went
<1> QED  BY <1>3, <1>4

LEMMA PromptDoneKeeps == ASSUME ParamsInv, NEW i \in FanOut, PromptDone(i) PROVE ParamsInv'
<1>1. inst[i].at = "prompt" /\ inst[i].matches = << >> /\ EditorStays
  BY DEF PromptDone
<1>2. overrides # NoRun /\ AtPrompt(inst[i], i, overrides)
  BY <1>1, NotIdle, StateIs
<1>3. PICK t : t = [inst[i] EXCEPT !.at = "done"]
  OBVIOUS
<1>4. Goes(i, t)
  BY <1>3 DEF PromptDone
<1>5. LlmDone(t, i, overrides)
  BY <1>1, <1>2, <1>3, PromptEnd
<1>6. InstanceFits(t, i, Given, overrides, dateParams)
  BY <1>5 DEF InstanceFits
<1> QED  BY <1>1, <1>2, <1>4, <1>6, Went

\* What an editor's list is of when a row is taken out or replaced.
LEMMA ListsEdited ==
  ASSUME NEW S, NEW s \in Seq(S)
  PROVE  /\ Len(s) \in Nat /\ DOMAIN s = 1 .. Len(s) /\ \A n \in DOMAIN s : s[n] \in S
         /\ \A n \in DOMAIN s : RemoveAt(s, n) \in Seq(S)
         /\ \A n \in DOMAIN s, e \in S : [s EXCEPT ![n] = e] \in Seq(S)
<1>1. Len(s) \in Nat /\ DOMAIN s = 1 .. Len(s) /\ \A n \in DOMAIN s : s[n] \in S
  OBVIOUS
<1>2. ASSUME NEW n \in DOMAIN s PROVE RemoveAt(s, n) \in Seq(S)
  <2>1. SubSeq(s, 1, n - 1) \in Seq(S)
    <3>1. \A m \in 1 .. n - 1 : s[m] \in S  BY <1>1
    <3> QED  BY <1>1, <3>1
  <2>2. SubSeq(s, n + 1, Len(s)) \in Seq(S)
    <3>1. \A m \in n + 1 .. Len(s) : s[m] \in S  BY <1>1
    <3> QED  BY <1>1, <3>1
  <2> QED  BY <2>1, <2>2 DEF RemoveAt
<1>3. \A n \in DOMAIN s, e \in S : [s EXCEPT ![n] = e] \in Seq(S)
  OBVIOUS
<1> QED  BY <1>1, <1>2, <1>3

LEMMA EditorKeeps ==
  ASSUME ParamsInv,
         \/ AddRow \/ Remount
         \/ \E n \in DOMAIN rows :
              \/ RemoveRow(n)
              \/ \E k \in Keys \union {""} : UpdateRow(n, [rows[n] EXCEPT !.key = k])
              \/ \E t \in ParamTexts : UpdateRow(n, [rows[n] EXCEPT !.text = t])
  PROVE  ParamsInv'
<1>1. rows \in Seq(Rows) /\ MapsRows(static, rows)
  BY DEF ParamsInv, RowsMapped
<1>2. Len(rows) \in Nat /\ DOMAIN rows = 1 .. Len(rows) /\ \A n \in DOMAIN rows : rows[n] \in Rows
  BY <1>1, ListsEdited
<1>3. CASE AddRow
  <2>1. PICK b, more : b = [key |-> "", text |-> Blank] /\ more = Append(rows, b)
    OBVIOUS
  <2>2. b \in Rows /\ IsBlank(b)  BY <2>1 DEF Rows, IsBlank
  <2>3. more \in Seq(Rows) /\ MapsRows(static, more)  BY <1>1, <2>1, <2>2, BlankAdded
  <2>4. NotRun /\ rows' = more /\ UNCHANGED <<static, dateParams, overrides, inst>>
    BY <1>3, <2>1 DEF AddRow
  <2> QED  BY <2>3, <2>4, RowsEdited
<1>4. CASE Remount
  <2>1. NotRun /\ UNCHANGED <<static, dateParams, overrides, inst>>
    BY <1>4 DEF Remount
  <2>2. rows' = [n \in DOMAIN SetToSeq(DOMAIN static) |->
                   LET k == SetToSeq(DOMAIN static)[n] IN [key |-> k, text |-> static[k]]]
    BY <1>4 DEF Remount
  <2>3. rows' \in Seq(Rows) /\ MapsRows(static, rows')
    BY <1>1, <2>2, Remounted
  <2> QED  BY <2>1, <2>3, RowsEdited
<1>5. ASSUME NEW n \in DOMAIN rows, RemoveRow(n) PROVE ParamsInv'
  <2>1. PICK list : list = RemoveAt(rows, n)  OBVIOUS
  <2>2. list \in Seq(Rows)  BY <1>1, <2>1, ListsEdited
  <2> QED  BY <1>5, <2>1, <2>2, EmitKeeps DEF RemoveRow
<1>6. ASSUME NEW n \in DOMAIN rows, NEW entry \in Rows, UpdateRow(n, entry) PROVE ParamsInv'
  <2>1. PICK list : list = [rows EXCEPT ![n] = entry]  OBVIOUS
  <2>2. list \in Seq(Rows)  BY <1>1, <2>1, ListsEdited
  <2> QED  BY <1>6, <2>1, <2>2, EmitKeeps DEF UpdateRow
<1>7. ASSUME NEW n \in DOMAIN rows, NEW k \in Keys \union {""}, NEW t \in ParamTexts
      PROVE  [rows[n] EXCEPT !.key = k] \in Rows /\ [rows[n] EXCEPT !.text = t] \in Rows
  BY <1>2 DEF Rows
<1>8. ASSUME NEW n \in DOMAIN rows, NEW k \in Keys \union {""}, UpdateRow(n, [rows[n] EXCEPT !.key = k])
      PROVE  ParamsInv'
  <2>1. PICK entry : entry = [rows[n] EXCEPT !.key = k]  OBVIOUS
  <2>2. entry \in Rows  BY <1>2, <2>1 DEF Rows
  <2> QED  BY <1>6, <1>8, <2>1, <2>2
<1>9. ASSUME NEW n \in DOMAIN rows, NEW t \in ParamTexts, UpdateRow(n, [rows[n] EXCEPT !.text = t])
      PROVE  ParamsInv'
  <2>1. PICK entry : entry = [rows[n] EXCEPT !.text = t]  OBVIOUS
  <2>2. entry \in Rows  BY <1>2, <2>1 DEF Rows
  <2> QED  BY <1>6, <1>9, <2>1, <2>2
<1> QED  BY <1>3, <1>4, <1>5, <1>8, <1>9

LEMMA ParamsInvStep == ASSUME ParamsInv, [ParamsNext]_paramVars PROVE ParamsInv'
<1>1. CASE AddRow \/ Remount
  BY <1>1, EditorKeeps
<1>2. CASE \E n \in DOMAIN rows :
             \/ RemoveRow(n)
             \/ \E k \in Keys \union {""} : UpdateRow(n, [rows[n] EXCEPT !.key = k])
             \/ \E t \in ParamTexts : UpdateRow(n, [rows[n] EXCEPT !.text = t])
  BY <1>2, EditorKeeps
<1>3. ASSUME NEW o \in Overrides, RunNow(o) PROVE ParamsInv'
  <2>1. NotRun /\ overrides' = o /\ UNCHANGED <<rows, static, dateParams, inst>>
    BY <1>3 DEF RunNow
  <2>2. RowsMapped' /\ DOMAIN inst' = FanOut /\ \A i \in FanOut : inst'[i] = Idle
    BY <2>1 DEF ParamsInv, RowsMapped, NotRun
  <2> QED  BY <2>1, <2>2 DEF ParamsInv, InstanceFits
<1>4. CASE \E i \in FanOut :
             \/ StartParams(i) \/ ParamsResolved(i) \/ ResolveHeader(i) \/ Interpolate(i) \/ PromptDone(i)
             \/ inst[i].at = "params" /\ \E k \in inst[i].left : EvaluateParam(i, k)
             \/ \E prompt \in Prompts : StartPrompt(i, prompt)
  BY <1>4, StartParamsKeeps, ParamsResolvedKeeps, ResolveHeaderKeeps, InterpolateKeeps, PromptDoneKeeps,
     EvaluateParamKeeps, StartPromptKeeps
<1>5. CASE UNCHANGED paramVars
  <2>1. UNCHANGED <<rows, static, dateParams, overrides, inst>>  BY <1>5 DEF paramVars
  <2>2. Given' = Given /\ RowsMapped'  BY <2>1 DEF Given, ParamsInv, RowsMapped
  <2>3. \A i \in FanOut : InstanceFits(inst[i], i, Given, overrides, dateParams)'
    BY <2>1, <2>2 DEF ParamsInv
  <2> QED  BY <2>1, <2>2, <2>3 DEF ParamsInv
<1> QED  BY <1>1, <1>2, <1>3, <1>4, <1>5 DEF ParamsNext

\* Executors are given what was written, whatever the order of the expressions
\* (resolveNodeParams, interpolateExpr).
THEOREM ExecutorsAreGivenWhatIsWritten == ParamsSpec => []GivenAsWritten
<1>1. ParamsInv => GivenAsWritten
  <2>1. SUFFICES ASSUME ParamsInv, NEW i \in FanOut
        PROVE  /\ inst[i].at = "done" /\ inst[i].executor = "http" =>
                    /\ inst[i].result = [k \in WrittenKeys |-> ResolveValue(Written(k), AllWritten, i)]
                    /\ inst[i].header = ResolveValue(HeaderText, inst[i].result, i)
               /\ inst[i].at = "done" /\ inst[i].executor = "llm" /\ Insertable(inst[i].prompt, i) =>
                    inst[i].out = [n \in DOMAIN inst[i].prompt |-> ResolveValue(inst[i].prompt[n], overrides, i)]
               /\ inst[i].at = "failed" /\ inst[i].executor = "http" =>
                    (\E k \in WrittenKeys : Written(k) = Broken) \/ \E n \in DOMAIN dateParams : ~dateParams[n].valid
    BY DEF GivenAsWritten
  <2>2. Given = AllWritten
    BY <2>1, WrittenIs DEF ParamsInv
  <2>3. DOMAIN Given = WrittenKeys /\ \A k \in WrittenKeys : Given[k] = Written(k)
    BY <2>2 DEF AllWritten
  <2>4. InstanceFits(inst[i], i, Given, overrides, dateParams)
    BY <2>1 DEF ParamsInv
  <2>5. HttpDone(inst[i], i, Given) => inst[i].executor = "http"
    BY DEF HttpDone
  <2>6. LlmDone(inst[i], i, overrides) => inst[i].executor = "llm"
    BY DEF LlmDone
  <2>7. LlmFailed(inst[i]) => inst[i].executor = "llm"
    BY DEF LlmFailed
  <2>8. ASSUME inst[i].at = "done", inst[i].executor = "http"
        PROVE  /\ inst[i].result = [k \in WrittenKeys |-> ResolveValue(Written(k), AllWritten, i)]
               /\ inst[i].header = ResolveValue(HeaderText, inst[i].result, i)
    <3>1. HttpDone(inst[i], i, Given)  BY <2>4, <2>6, <2>8, StateIs
    <3>2. inst[i].result = Resolved(Given, i) /\ inst[i].header = ResolveValue(HeaderText, Resolved(Given, i), i)
      BY <3>1 DEF HttpDone
    <3>3. Resolved(Given, i) = [k \in WrittenKeys |-> ResolveValue(Written(k), AllWritten, i)]
      BY <2>2, <2>3 DEF Resolved
    <3> QED  BY <3>2, <3>3
  <2>9. ASSUME inst[i].at = "done", inst[i].executor = "llm", Insertable(inst[i].prompt, i)
        PROVE  inst[i].out = [n \in DOMAIN inst[i].prompt |-> ResolveValue(inst[i].prompt[n], overrides, i)]
    <3>1. LlmDone(inst[i], i, overrides)  BY <2>4, <2>5, <2>9, StateIs
    <3>2. FitsIn(inst[i].prompt, overrides, i)  BY <2>9 DEF Insertable, FitsIn
    <3>3. PICK p \in Prompts :
            /\ inst[i] = [at |-> "done", executor |-> "llm", prompt |-> p, out |-> inst[i].out, matches |-> inst[i].matches]
            /\ FitsIn(p, overrides, i) => inst[i].out = [j \in DOMAIN p |-> ResolveValue(p[j], overrides, i)]
      BY <3>1 DEF LlmDone
    <3>4. inst[i].prompt = p  BY <3>3
    <3> QED  BY <3>2, <3>3, <3>4
  <2>10. ASSUME inst[i].at = "failed", inst[i].executor = "http"
         PROVE  (\E k \in WrittenKeys : Written(k) = Broken) \/ \E n \in DOMAIN dateParams : ~dateParams[n].valid
    <3>1. HttpFailed(inst[i], Given, dateParams)  BY <2>4, <2>7, <2>10, StateIs
    <3> QED  BY <2>3, <3>1 DEF HttpFailed
  <2> QED  BY <2>8, <2>9, <2>10
<1> QED  BY <1>1, ParamsInvInit, ParamsInvStep, PTL DEF ParamsSpec

=============================================================================
