-------------------------------- MODULE Params --------------------------------
(***************************************************************************)
(* The parameters of a node, from the rows they are typed in               *)
(* (KeyValueEditor.tsx, ManualRunDialog.tsx) to what an executor is given  *)
(* (params.ts). A text is plain or one expression; a prompt is a sequence  *)
(* of texts. Each instance of a fan-out resolves the node for itself, its  *)
(* item at hand, from a copy of the parameters. Of what an expression may  *)
(* read there are the parameters and the item; JSONata itself, dates (a    *)
(* date parameter is valid or not) and secrets are abstracted.             *)
(***************************************************************************)
EXTENDS SequencesExt

CONSTANTS
  Keys,        \* names of parameters
  ParamTexts,  \* what may be typed as a value
  FanOut,      \* the items, and so the instances, of the node
  DateLists,   \* the lists of date parameters the node may have
  Overrides,   \* the maps a manual run may be started with
  HeaderText,  \* a header of an HTTP node
  Prompts,     \* prompts an LLM node may have
  MaxRows,     \* bound of the rows of the editor
  NoRun        \* the node has not been run yet

Plain(v) == [form |-> "plain", of |-> v]
ParamExpr(k) == [form |-> "param", of |-> k]   \* ={{ params.k }}
ItemExpr == [form |-> "item", of |-> ""]       \* ={{ item }}
Broken == [form |-> "broken", of |-> ""]       \* an expression that throws
Blank == Plain("")
MatchRef == Plain("$&")                        \* a text that has a $& in it

\* A row without a key is none; a run starts with a map of its own; the prompts
\* and the lists of dates are sequences.
ASSUME ParamsAssumption ==
  /\ "" \notin Keys /\ NoRun \notin Overrides
  /\ \A prompt \in Prompts : prompt \in Seq(Range(prompt))
  /\ \A dates \in DateLists : dates \in Seq(Range(dates))

VARIABLES
  rows,       \* the rows of the editor: key and text
  static,     \* the map it has emitted, the node's static parameters
  dateParams,      \* the node's date parameters, in order
  overrides,  \* what the run was started with, or what no run has
  inst         \* what each instance is at

paramVars == <<rows, static, dateParams, overrides, inst>>

Idle == [at |-> "idle"]

ParamsInit ==
  /\ rows = << >> /\ static = << >>
  /\ dateParams \in DateLists
  /\ overrides = NoRun
  /\ inst = [i \in FanOut |-> Idle]

ParamsTypeOK ==
  /\ \A n \in DOMAIN rows : rows[n] \in [key : Keys \union {""}, text : ParamTexts \union {Blank}]
  /\ DOMAIN static \subseteq Keys
  /\ overrides \in Overrides \union {NoRun}
  /\ \A i \in FanOut : inst[i].at \in {"idle", "params", "header", "prompt", "done", "failed"}

-----------------------------------------------------------------------------
(* The editor *)

\* A map with one more entry, and one map over another.
Put(map, key, text) == [k \in DOMAIN map \union {key} |-> IF k = key THEN text ELSE map[k]]
OnTop(map, under) ==
  [k \in DOMAIN map \union DOMAIN under |-> IF k \in DOMAIN map THEN map[k] ELSE under[k]]

\* The map of the rows that have a key; of two with the same one, the later.
MapOf(list) ==
  FoldLeft(LAMBDA map, row : IF row.key = "" THEN map ELSE Put(map, row.key, row.text), << >>, list)

Emit(list) ==
  /\ rows' = list /\ static' = MapOf(list)
  /\ UNCHANGED <<dateParams, overrides, inst>>

NotRun == overrides = NoRun

\* A blank row, which the map does not show.
AddRow ==
  /\ NotRun /\ Len(rows) < MaxRows
  /\ rows' = Append(rows, [key |-> "", text |-> Blank])
  /\ UNCHANGED <<static, dateParams, overrides, inst>>

UpdateRow(n, row) == NotRun /\ Emit([rows EXCEPT ![n] = row])
RemoveRow(n) == NotRun /\ Emit(RemoveAt(rows, n))

\* The form is shown again, or its node renamed: the rows are made from the map.
Remount ==
  /\ NotRun
  /\ rows' = [n \in DOMAIN SetToSeq(DOMAIN static) |->
                LET k == SetToSeq(DOMAIN static)[n] IN [key |-> k, text |-> static[k]]]
  /\ UNCHANGED <<static, dateParams, overrides, inst>>

\* The flow is saved and run.
RunNow(o) ==
  /\ NotRun
  /\ overrides' = o
  /\ UNCHANGED <<rows, static, dateParams, inst>>

-----------------------------------------------------------------------------
(* Expressions *)

IsExpr(t) == t.form # "plain"

\* What an expression evaluates to, as a text.
Evaluate(t, params, item) ==
  IF t.form = "item" THEN Plain(item)
  ELSE IF t.of \in DOMAIN params THEN params[t.of] ELSE Blank

\* resolveValueExpr, for a text that does not throw.
ResolveValue(t, params, item) == IF IsExpr(t) THEN Evaluate(t, params, item) ELSE t

\* String.replace: the first occurrence, where $& stands for what is replaced.
ReplaceFirst(out, match, value) ==
  LET n == SelectInSeq(out, LAMBDA t : t = match)
  IN  IF n = 0 THEN out ELSE ReplaceAt(out, n, IF value = MatchRef THEN match ELSE value)

Goes(i, state) == inst' = [inst EXCEPT ![i] = state]
Fail(i) == Goes(i, [at |-> "failed", executor |-> inst[i].executor])
EditorStays == UNCHANGED <<rows, static, dateParams, overrides>>

-----------------------------------------------------------------------------
(* The instances *)

\* The static parameters with a date for each date parameter.
Dated(map, dates) == FoldLeft(LAMBDA under, d : Put(under, d.key, Plain("date")), map, dates)

\* Static parameters, under the date parameters, under the run's.
StartParams(i) ==
  /\ overrides # NoRun /\ inst[i] = Idle
  /\ EditorStays
  /\ LET result == OnTop(overrides, Dated(static, dateParams))
     IN  IF \A n \in DOMAIN dateParams : dateParams[n].valid
         THEN Goes(i, [at |-> "params", executor |-> "http", result |-> result, context |-> result,
                     left |-> {k \in DOMAIN result : IsExpr(result[k])}])
         ELSE Goes(i, [at |-> "failed", executor |-> "http"])

\* Mutant: expressions read what has been resolved so far.
EvaluateLive(i, k) ==
  /\ inst[i].at = "params" /\ k \in inst[i].left
  /\ EditorStays
  /\ IF inst[i].context[k] = Broken THEN Fail(i)
     ELSE Goes(i, [inst[i] EXCEPT !.result[k] = Evaluate(inst[i].context[k], inst[i].result, i), !.left = @ \ {k}])

\* The next expression, of the parameters as they were before any was evaluated.
\* The order, that of the keys, is left open.
EvaluateParam(i, k) ==
  /\ inst[i].at = "params" /\ k \in inst[i].left
  /\ EditorStays
  /\ IF inst[i].context[k] = Broken THEN Fail(i)
     ELSE Goes(i, [inst[i] EXCEPT !.result[k] = Evaluate(inst[i].context[k], inst[i].context, i), !.left = @ \ {k}])

ParamsResolved(i) ==
  /\ inst[i].at = "params" /\ inst[i].left = {}
  /\ EditorStays
  /\ Goes(i, [inst[i] EXCEPT !.at = "header"])

\* The header reads the parameters as they have been resolved.
ResolveHeader(i) ==
  /\ inst[i].at = "header"
  /\ EditorStays
  /\ Goes(i, [at |-> "done", executor |-> "http", result |-> inst[i].result,
            header |-> ResolveValue(HeaderText, inst[i].result, i)])

\* The expressions of a prompt, in their order: of its last n texts, for each n.
\* (SelectSeq, which the proofs cannot expand.)
Expressions(prompt) ==
  LET from[n \in 0 .. Len(prompt)] ==
        IF n = 0 THEN << >>
        ELSE LET t == prompt[Len(prompt) - n + 1]
             IN  IF IsExpr(t) THEN <<t>> \o from[n - 1] ELSE from[n - 1]
  IN  from[Len(prompt)]

\* A prompt, whose expressions read the run's parameters alone.
StartPrompt(i, prompt) ==
  /\ overrides # NoRun /\ inst[i] = Idle
  /\ EditorStays
  /\ Goes(i, [at |-> "prompt", executor |-> "llm", prompt |-> prompt, out |-> prompt,
            matches |-> Expressions(prompt)])

Interpolate(i) ==
  /\ inst[i].at = "prompt" /\ inst[i].matches # << >>
  /\ EditorStays
  /\ LET match == Head(inst[i].matches)
     IN  IF match = Broken THEN Fail(i)
         ELSE Goes(i, [inst[i] EXCEPT !.out = ReplaceFirst(@, match, Evaluate(match, overrides, i)),
                                   !.matches = Tail(@)])

PromptDone(i) ==
  /\ inst[i].at = "prompt" /\ inst[i].matches = << >>
  /\ EditorStays
  /\ Goes(i, [inst[i] EXCEPT !.at = "done"])

ParamsNext ==
  \/ AddRow \/ Remount \/ \E o \in Overrides : RunNow(o)
  \/ \E n \in DOMAIN rows :
       \/ RemoveRow(n)
       \/ \E k \in Keys \union {""} : UpdateRow(n, [rows[n] EXCEPT !.key = k])
       \/ \E t \in ParamTexts : UpdateRow(n, [rows[n] EXCEPT !.text = t])
  \/ \E i \in FanOut :
       \/ StartParams(i) \/ ParamsResolved(i) \/ ResolveHeader(i) \/ Interpolate(i) \/ PromptDone(i)
       \/ inst[i].at = "params" /\ \E k \in inst[i].left : EvaluateParam(i, k)
       \/ \E prompt \in Prompts : StartPrompt(i, prompt)

ParamsSpec == ParamsInit /\ [][ParamsNext]_paramVars

-----------------------------------------------------------------------------
(* Properties *)

\* The value written for k: the run's, else a date, else the last row with the key.
Written(k) ==
  LET typed == SelectLastInSeq(rows, LAMBDA row : row.key = k)
  IN  IF k \in DOMAIN overrides THEN overrides[k]
      ELSE IF \E n \in DOMAIN dateParams : dateParams[n].key = k THEN Plain("date")
      ELSE rows[typed].text
WrittenKeys ==
  DOMAIN overrides \union {dateParams[n].key : n \in DOMAIN dateParams} \union ({rows[n].key : n \in DOMAIN rows} \ {""})
AllWritten == [k \in WrittenKeys |-> Written(k)]

\* What is inserted in a prompt has no $& and is no expression of it.
Insertable(prompt, i) ==
  \A n \in DOMAIN prompt :
    IsExpr(prompt[n]) => LET value == Evaluate(prompt[n], overrides, i)
                         IN  value # MatchRef /\ (IsExpr(value) => ~Contains(prompt, value))

\* Every instance is given its parameters, header and prompt as they are written:
\* each expression is replaced by its value of the parameters as typed, not of those
\* evaluated before it, whatever the order of the keys, and of two equal expressions in
\* a prompt each gets its own place; an instance fails only over a date or an expression
\* that is wrong. The exception the code has is a prompt with a value that reads like
\* one of its expressions, or has a $& in it.
GivenAsWritten ==
  \A i \in FanOut :
    /\ (inst[i].at = "done" /\ inst[i].executor = "http") =>
         /\ inst[i].result = [k \in WrittenKeys |-> ResolveValue(Written(k), AllWritten, i)]
         /\ inst[i].header = ResolveValue(HeaderText, inst[i].result, i)
    /\ (inst[i].at = "done" /\ inst[i].executor = "llm" /\ Insertable(inst[i].prompt, i)) =>
         inst[i].out = [n \in DOMAIN inst[i].prompt |-> ResolveValue(inst[i].prompt[n], overrides, i)]
    /\ (inst[i].at = "failed" /\ inst[i].executor = "http") =>
         (\E k \in WrittenKeys : Written(k) = Broken) \/ \E n \in DOMAIN dateParams : ~dateParams[n].valid
===============================================================================
