------------------------------ MODULE CronBuilder -----------------------------
(***************************************************************************)
(* The cron builder of the flow editor (CronBuilder.tsx): the expression   *)
(* lives in the page, the builder keeps two views of it, a simple one and  *)
(* the six fields, each set when the builder is mounted and by its own     *)
(* inputs. A field is a record of a kind and a number. The time and the    *)
(* day of the simple view keep what they were set to when it was opened.   *)
(***************************************************************************)
EXTENDS Naturals, Sequences

CONSTANTS
  Intervals,  \* numbers the user types as an interval
  Typed       \* contents the user types into a field

\* The kind of a field and its number, 0 where it has none.
CronFields == [kind : {"any", "at", "every", "steps", "range"}, n : Nat]

ASSUME CronAssumption == Intervals \subseteq Nat /\ Typed \subseteq CronFields

VARIABLES
  expr,    \* the expression: a sequence of fields
  mode,    \* "simple" or "advanced"
  simple,  \* the simple view
  fields6  \* the six fields of the advanced view

cronVars == <<expr, mode, simple, fields6>>

Star == [kind |-> "any", n |-> 0]           \* *
At(n) == [kind |-> "at", n |-> n]          \* n
Every(n) == [kind |-> "every", n |-> n]    \* */n
StepList(n) == [kind |-> "steps", n |-> n]    \* */n,... : a list that begins with a step
Span == [kind |-> "range", n |-> 0]       \* 1-5, L and the like

SimpleTypes == {"seconds", "minutes", "hours", "daily", "weekly", "monthly"}

\* What the builder shows when the expression is not a simple one.
DefaultSimple == [type |-> "minutes", every |-> 5, hour |-> 9, minute |-> 0, dow |-> 1, dom |-> 1]
DefaultFields == <<At(0), Star, Star, Star, Star, Star>>

ToExpr(s) ==
  CASE s.type = "seconds" -> <<Every(s.every), Star, Star, Star, Star, Star>>
    [] s.type = "minutes" -> <<At(0), Every(s.every), Star, Star, Star, Star>>
    [] s.type = "hours" -> <<At(0), At(0), Every(s.every), Star, Star, Star>>
    [] s.type = "daily" -> <<At(0), At(s.minute), At(s.hour), Star, Star, Star>>
    [] s.type = "weekly" -> <<At(0), At(s.minute), At(s.hour), Star, Star, At(s.dow)>>
    [] s.type = "monthly" -> <<At(0), At(s.minute), At(s.hour), At(s.dom), Star, Star>>

\* parseInt reads the step of a list as well.
IsStep(f, max) == f.kind \in {"every", "steps"} /\ f.n \in 1 .. max
IsAt(f, min, max) == f.kind = "at" /\ f.n \in min .. max

\* Mutant: the month is not looked at.
TypesIgnoringMonth(e) ==
  LET any(S) == \A i \in S : e[i] = Star
      time == e[1] = At(0) /\ IsAt(e[2], 0, 59) /\ IsAt(e[3], 0, 23)
  IN  {t \in SimpleTypes :
        \/ t = "seconds" /\ IsStep(e[1], 59) /\ any(2 .. 6)
        \/ t = "minutes" /\ e[1] = At(0) /\ IsStep(e[2], 59) /\ any(3 .. 6)
        \/ t = "hours" /\ e[1] = At(0) /\ e[2] = At(0) /\ IsStep(e[3], 23) /\ any(4 .. 6)
        \/ t = "daily" /\ time /\ any({4, 6})
        \/ t = "weekly" /\ time /\ any({4}) /\ IsAt(e[6], 0, 6)
        \/ t = "monthly" /\ time /\ IsAt(e[4], 1, 31) /\ any({6})}

\* The simple types whose pattern a six-field expression has: at most one.
MatchingTypes(e) ==
  LET any(S) == \A i \in S : e[i] = Star
      time == e[1] = At(0) /\ IsAt(e[2], 0, 59) /\ IsAt(e[3], 0, 23)
  IN  {t \in SimpleTypes :
        \/ t = "seconds" /\ IsStep(e[1], 59) /\ any(2 .. 6)
        \/ t = "minutes" /\ e[1] = At(0) /\ IsStep(e[2], 59) /\ any(3 .. 6)
        \/ t = "hours" /\ e[1] = At(0) /\ e[2] = At(0) /\ IsStep(e[3], 23) /\ any(4 .. 6)
        \/ t = "daily" /\ time /\ any(4 .. 6)
        \/ t = "weekly" /\ time /\ any({4, 5}) /\ IsAt(e[6], 0, 6)
        \/ t = "monthly" /\ time /\ IsAt(e[4], 1, 31) /\ any({5, 6})}

IsSimple(e) == Len(e) = 6 /\ MatchingTypes(e) # {}

\* parseSimple, of an expression that is a simple one.
ParseSimple(e) ==
  LET t == CHOOSE t \in MatchingTypes(e) : TRUE
      timed == t \in {"daily", "weekly", "monthly"}
  IN  [type |-> t,
       every |-> CASE t = "seconds" -> e[1].n [] t = "minutes" -> e[2].n
                   [] t = "hours" -> e[3].n [] OTHER -> 1,
       hour |-> IF timed THEN e[3].n ELSE 0, minute |-> IF timed THEN e[2].n ELSE 0,
       dow |-> IF t = "weekly" THEN e[6].n ELSE 1, dom |-> IF t = "monthly" THEN e[4].n ELSE 1]

-----------------------------------------------------------------------------

SimpleOf(e) == IF IsSimple(e) THEN ParseSimple(e) ELSE DefaultSimple
FieldsOf(e) == IF Len(e) = 6 THEN e ELSE DefaultFields
ModeOf(e) == IF IsSimple(e) THEN "simple" ELSE "advanced"

\* A flow made elsewhere may have an expression of five fields.
CronInit ==
  /\ expr \in {ToExpr(DefaultSimple), <<Every(5), Star, Star, Star, Star>>}
  /\ mode = ModeOf(expr) /\ simple = SimpleOf(expr) /\ fields6 = FieldsOf(expr)

\* The trigger is switched to manual and back, or the page is opened again.
Mount ==
  /\ mode' = ModeOf(expr) /\ simple' = SimpleOf(expr) /\ fields6' = FieldsOf(expr)
  /\ UNCHANGED expr

PatchSimple(patched) ==
  /\ mode = "simple"
  /\ simple' = patched /\ expr' = ToExpr(patched)
  /\ UNCHANGED <<mode, fields6>>

PatchField(i, f) ==
  /\ mode = "advanced"
  /\ fields6' = [fields6 EXCEPT ![i] = f] /\ expr' = fields6'
  /\ UNCHANGED <<mode, simple>>

\* An expression that is not a simple one is replaced.
SwitchToSimple ==
  /\ mode' = "simple"
  /\ simple' = SimpleOf(expr)
  /\ expr' = ToExpr(simple')
  /\ UNCHANGED fields6

SwitchToAdvanced ==
  /\ mode' = "advanced"
  /\ fields6' = FieldsOf(expr)
  /\ UNCHANGED <<expr, simple>>

CronNext ==
  \/ Mount \/ SwitchToSimple \/ SwitchToAdvanced
  \/ \E t \in SimpleTypes : PatchSimple([simple EXCEPT !.type = t])
  \/ \E n \in Intervals :
       simple.type \in {"seconds", "minutes", "hours"} /\ PatchSimple([simple EXCEPT !.every = n])
  \/ \E i \in 1 .. 6, f \in Typed : PatchField(i, f)

CronSpec == CronInit /\ [][CronNext]_cronVars
-----------------------------------------------------------------------------
(* Properties *)

\* The view the builder shows is the expression that will be saved, after any
\* switching between the views and reopening. Left out are expressions that
\* the code shows as something else: those without seconds, and lists that
\* begin with a step, which are read as the step alone.
ShownIsSaved ==
  Len(expr) = 6 /\ (\A i \in 1 .. 6 : expr[i].kind # "steps") =>
    expr = IF mode = "simple" THEN ToExpr(simple) ELSE fields6
=============================================================================
