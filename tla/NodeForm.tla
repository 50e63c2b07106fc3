------------------------------- MODULE NodeForm -------------------------------
(***************************************************************************)
(* The form of one node (NodeForm.tsx) against the schema that the server  *)
(* checks when the flow is saved (schema.ts): two descriptions of a node,  *)
(* kept in step by hand. A text is "text" or "empty", and the text of a    *)
(* URL "malformed" when it is none; a number is "positive" or "zero" (any  *)
(* that is not a positive integer); a field that is not set is not in the  *)
(* domain. Choices from a list, header and parameter tables, fan-out, join *)
(* and retry are left out.                                                 *)
(***************************************************************************)
EXTENDS Naturals, SequencesExt

CONSTANTS
  FormTypes,  \* executor types the user picks from
  MaxSet,     \* optional fields set at a time
  MaxItems    \* tools, and date parameters

\* "batch" is spring-batch.
Types == {"http", "k8s", "subflow", "script", "llm", "batch"}

ASSUME FormAssumption == FormTypes \subseteq Types /\ {MaxSet, MaxItems} \subseteq Nat

VARIABLES
  texts,    \* the node's id and name
  type,     \* type of its executor
  fields,   \* fields of the executor
  tools,    \* of an llm executor: a sequence of texts
  dates,    \* date parameters: a sequence of texts
  numbers,  \* numeric fields
  waits     \* completion by callback

formVars == <<texts, type, fields, tools, dates, numbers, waits>>

FormTexts == {"text", "empty"}
FieldTexts == FormTexts \union {"malformed"}
NumberFields == {"timeoutMs", "callbackTimeoutMs", "maxToolTurns"}

\* The panels of the executors: texts that are kept when they are empty, and
\* texts that are unset then.
HttpPanel == [keeps |-> {"url"}, unsets |-> {}]
K8sPanel == [keeps |-> {"image"}, unsets |-> {"namespace", "command"}]
SubflowPanel == [keeps |-> {"flowId"}, unsets |-> {}]
ScriptPanel == [keeps |-> {"code"}, unsets |-> {"image"}]
LlmPanel == [keeps |-> {"prompt"}, unsets |-> {"model", "system", "effort", "apiKeySecret"}]
BatchPanel == [keeps |-> {"image"}, unsets |-> {"namespace", "command", "jobName", "profiles"}]

Panel ==
  [http |-> HttpPanel, k8s |-> K8sPanel, subflow |-> SubflowPanel, script |-> ScriptPanel,
   llm |-> LlmPanel, batch |-> BatchPanel]
Required == [t \in Types |-> Panel[t].keeps]
Optional == [t \in Types |-> Panel[t].unsets]

FormTypeOK ==
  /\ texts \in [{"id", "name"} -> FormTexts]
  /\ type \in Types
  /\ DOMAIN fields \subseteq Required[type] \union Optional[type]
  /\ \A f \in DOMAIN fields : fields[f] \in FieldTexts
  /\ \A s \in {tools, dates} : s \in Seq(FormTexts) /\ Len(s) <= MaxItems
  /\ DOMAIN numbers \subseteq NumberFields
  /\ \A n \in DOMAIN numbers : numbers[n] \in {"positive", "zero"}
  /\ waits \in BOOLEAN

\* The default executors: only a sub-flow has yet to be filled in, and an llm
\* comes with a model.
Default(t) ==
  [f \in Required[t] \union (IF t = "llm" THEN {"model"} ELSE {}) |->
     IF t = "subflow" THEN "empty" ELSE "text"]

FormInit ==
  /\ texts = [t \in {"id", "name"} |-> "text"]
  /\ type = "http" /\ fields = Default("http")
  /\ tools = << >> /\ dates = << >>
  /\ numbers = << >> /\ waits = FALSE

TypeText(t, v) ==
  /\ texts' = [texts EXCEPT ![t] = v]
  /\ UNCHANGED <<type, fields, tools, dates, numbers, waits>>

\* Another type starts from its default; nothing of the old executor stays.
SwitchType(t) ==
  /\ t # type
  /\ type' = t /\ fields' = Default(t)
  /\ tools' = << >>
  /\ numbers' = Restrict(numbers, DOMAIN numbers \ {"maxToolTurns"})
  /\ UNCHANGED <<texts, dates, waits>>

With(f, k, v) == [x \in DOMAIN f \union {k} |-> IF x = k THEN v ELSE f[x]]

\* patchExecutor with the text of a field; only a URL has a form to miss.
EnterField(f, v) ==
  /\ v = "malformed" => f = "url"
  /\ Cardinality((DOMAIN fields \union {f}) \ Required[type]) <= MaxSet
  /\ fields' = With(fields, f, v)
  /\ UNCHANGED <<texts, type, tools, dates, numbers, waits>>

\* Mutant: an optional field that is cleared keeps the empty text.
ClearToEmpty(f) ==
  /\ f \in DOMAIN fields
  /\ fields' = With(fields, f, "empty")
  /\ UNCHANGED <<texts, type, tools, dates, numbers, waits>>

ClearField(f) ==
  /\ f \in DOMAIN fields
  /\ fields' = IF f \in Required[type] THEN With(fields, f, "empty")
               ELSE Restrict(fields, DOMAIN fields \ {f})
  /\ UNCHANGED <<texts, type, tools, dates, numbers, waits>>

AddTool ==
  /\ type = "llm" /\ Len(tools) < MaxItems
  /\ tools' = Append(tools, "empty")
  /\ UNCHANGED <<texts, type, fields, dates, numbers, waits>>

PatchTool(i, v) ==
  /\ tools' = [tools EXCEPT ![i] = v]
  /\ UNCHANGED <<texts, type, fields, dates, numbers, waits>>

RemoveTool(i) ==
  /\ tools' = RemoveAt(tools, i)
  /\ UNCHANGED <<texts, type, fields, dates, numbers, waits>>

\* setDateParams: a new parameter has an expression and no key.
SetDates(s) ==
  /\ Len(s) <= MaxItems /\ dates' = s
  /\ UNCHANGED <<texts, type, fields, tools, numbers, waits>>

\* The form shows some numeric fields only next to what they are about.
NumberShown(n) ==
  CASE n = "timeoutMs" -> TRUE
    [] n = "callbackTimeoutMs" -> waits
    [] n = "maxToolTurns" -> tools # << >>

EnterNumber(n, v) ==
  /\ NumberShown(n)
  /\ numbers' = With(numbers, n, v)
  /\ UNCHANGED <<texts, type, fields, tools, dates, waits>>

ClearNumber(n) ==
  /\ NumberShown(n)
  /\ numbers' = Restrict(numbers, DOMAIN numbers \ {n})
  /\ UNCHANGED <<texts, type, fields, tools, dates, waits>>

SetCompletion(w) ==
  /\ waits' = w
  /\ UNCHANGED <<texts, type, fields, tools, dates, numbers>>

FormNext ==
  \/ \E t \in DOMAIN texts, v \in FormTexts : TypeText(t, v)
  \/ \E t \in FormTypes : SwitchType(t)
  \/ \E f \in Required[type] \union Optional[type] :
       ClearField(f) \/ \E v \in {"text", "malformed"} : EnterField(f, v)
  \/ AddTool
  \/ \E i \in DOMAIN tools : RemoveTool(i) \/ \E v \in FormTexts : PatchTool(i, v)
  \/ SetDates(Append(dates, "empty"))
  \/ \E i \in DOMAIN dates :
       SetDates(RemoveAt(dates, i)) \/ \E v \in FormTexts : SetDates([dates EXCEPT ![i] = v])
  \/ \E n \in NumberFields : ClearNumber(n) \/ \E v \in {"positive", "zero"} : EnterNumber(n, v)
  \/ \E w \in BOOLEAN : SetCompletion(w)

FormSpec == FormInit /\ [][FormNext]_formVars

-----------------------------------------------------------------------------
(* schema.ts *)

\* The executors' schemas: fields that must be there, fields that may not be
\* empty when they are, and fields that must be URLs.
HttpSchema == [has |-> {"url"}, nonEmpty |-> {"url"}, urls |-> {"url"}]
K8sSchema == [has |-> {"image"}, nonEmpty |-> {"image"}, urls |-> {}]
SubflowSchema == [has |-> {"flowId"}, nonEmpty |-> {"flowId"}, urls |-> {}]
ScriptSchema == [has |-> {"code"}, nonEmpty |-> {"code", "image"}, urls |-> {}]
LlmSchema == [has |-> {"prompt"}, nonEmpty |-> {"prompt", "model", "effort", "apiKeySecret"}, urls |-> {}]
BatchSchema == [has |-> {"image"}, nonEmpty |-> {"image", "jobName", "profiles"}, urls |-> {}]

Schema ==
  [http |-> HttpSchema, k8s |-> K8sSchema, subflow |-> SubflowSchema, script |-> ScriptSchema,
   llm |-> LlmSchema, batch |-> BatchSchema]

ExecutorAccepted ==
  /\ Schema[type].has \subseteq DOMAIN fields
  /\ \A f \in DOMAIN fields \intersect Schema[type].nonEmpty : fields[f] # "empty"
  /\ \A f \in DOMAIN fields \intersect Schema[type].urls : fields[f] # "malformed"
  /\ \A i \in DOMAIN tools : tools[i] = "text"

\* flowNodeSchema
NodeAccepted ==
  /\ \A t \in DOMAIN texts : texts[t] = "text"
  /\ ExecutorAccepted
  /\ \A i \in DOMAIN dates : dates[i] = "text"
  /\ \A n \in DOMAIN numbers : numbers[n] = "positive"

-----------------------------------------------------------------------------
(* Properties *)

\* A node that the server refuses has an empty text where the form asks for
\* one, a URL that is none, or a number zero: clearing a field that may be left
\* out, or switching the type, never makes the flow one that cannot be saved.
RefusalExplained ==
  \/ NodeAccepted
  \/ \E t \in DOMAIN texts : texts[t] = "empty"
  \/ \E f \in Required[type] : fields[f] \in {"empty", "malformed"}
  \/ \E s \in {tools, dates} : \E i \in DOMAIN s : s[i] = "empty"
  \/ \E n \in DOMAIN numbers : numbers[n] = "zero"

\* The cause of a refusal is on the form. The code does not keep this: a zero
\* stays where its field is no longer shown.
RefusalVisible == \A n \in DOMAIN numbers : numbers[n] = "zero" => NumberShown(n)
=============================================================================
