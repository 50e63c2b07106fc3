------------------------------- MODULE RunView --------------------------------
(***************************************************************************)
(* What the page of a flow shows of the selected run (FlowPage.tsx, its    *)
(* sheet RunDetailSheet.tsx, useRunStream.ts) against the rows: the status *)
(* laid over a node of the graph, and the sheet. Both are loaded by        *)
(* requests, whose answers come in any order, and kept up to date by       *)
(* events that say that something has changed. A row is the number of      *)
(* changes of the run's status and of each instance of its node, of which  *)
(* a fan-out has several: the overlay has room for one of them. The table  *)
(* of runs, which is loaded again at every event, log lines and columns    *)
(* the page does not show are left out.                                    *)
(***************************************************************************)
EXTENDS Naturals, SequencesExt

CONSTANTS
  ViewedRuns,  \* runs of the flow
  Instances,   \* instances of the node
  MaxChanges,  \* bound of the changes of the rows
  MaxFetches,  \* requests under way at once
  NoRow        \* nothing is shown, nothing has been read

Fields == {"status"} \union Instances

ASSUME ViewAssumption ==
  /\ {MaxChanges, MaxFetches} \subseteq Nat
  /\ NoRow \notin ViewedRuns \union Nat \union [Fields -> Nat]
  /\ "status" \notin Instances /\ Instances # {}

VARIABLES
  row,       \* the rows of the runs
  untold,   \* events of changes that have yet to be published
  selected,  \* the run the page has selected, or NoRow
  inbox,     \* events on their way to the page and to the sheet, in order
  fetches,   \* requests under way, in the order they were sent
  view,      \* what the overlay, <<instance, value>>, and the sheet show
  latest,    \* what the overlay was last told of each instance, a history
  misled     \* views that an answer or event has been lost to, or came late for, a history

runViewVars == <<row, untold, selected, inbox, fetches, view, latest, misled>>

Views == {"overlay", "sheet"}
Streamers == {"page", "sheet"}
Changed == MapThenSumSet(LAMBDA r : MapThenSumSet(LAMBDA f : row[r][f], Fields), ViewedRuns)

RunViewTypeOK ==
  /\ row \in [ViewedRuns -> [Fields -> 0 .. MaxChanges]]
  /\ selected \in ViewedRuns \union {NoRow}
  /\ Len(fetches) <= MaxFetches
  /\ DOMAIN view = Views /\ misled \subseteq Views
  /\ latest \in [Instances -> 0 .. MaxChanges \union {NoRow}]

Fetch(v, r) == [view |-> v, run |-> r, got |-> NoRow]
Ask(reqs) == Len(fetches \o reqs) <= MaxFetches /\ fetches' = fetches \o reqs

RunViewInit ==
  /\ row = [r \in ViewedRuns |-> [f \in Fields |-> 0]]
  /\ untold = {} /\ selected = NoRow
  /\ inbox = [s \in Streamers |-> << >>]
  /\ fetches = << >>
  /\ view = [v \in Views |-> NoRow] /\ latest = [k \in Instances |-> NoRow]
  /\ misled = {}

-----------------------------------------------------------------------------
(* The rows and the events *)

\* A worker, or a request of someone else, writes the row, or the first row of
\* an instance (claimNodeRun, updateNodeRun and the writers like them) ...
ChangeRow(r, f) ==
  /\ Changed < MaxChanges
  /\ row' = [row EXCEPT ![r][f] = @ + 1]
  /\ untold' = untold \union {[run |-> r, field |-> f, value |-> row[r][f] + 1]}

Write(r, f) ==
  /\ ChangeRow(r, f)
  /\ UNCHANGED <<selected, inbox, fetches, view, latest, misled>>

\* The retry of a run's first job deletes the rows that are RUNNING, and tells
\* no one.
DropRow(r, k) ==
  /\ Changed < MaxChanges /\ row[r][k] > 0
  /\ row' = [row EXCEPT ![r][k] = @ + 1]
  /\ misled' = IF r = selected THEN Views ELSE misled
  /\ UNCHANGED <<untold, selected, inbox, fetches, view, latest>>

Concerns(e, s) == s = "page" \/ e.run = selected
ViewsOf(e, s) ==
  IF s = "sheet" THEN {"sheet"} ELSE IF e.field \in Instances /\ e.run = selected THEN {"overlay"} ELSE {}

\* ... and publishes an event, which the streams that are open get: the page's,
\* of all runs, and the sheet's, of its run. A stream may be opening, or opening
\* again, at any time, one that breaks loses what was sent, and the process may
\* die first, so that no one hears.
PublishEvent(e, hear) ==
  /\ \A s \in hear : Concerns(e, s)
  /\ untold' = untold \ {e}
  /\ inbox' = [s \in Streamers |-> IF s \in hear THEN Append(inbox[s], e) ELSE inbox[s]]
  /\ misled' = misled \union UNION {ViewsOf(e, s) : s \in {t \in Streamers \ hear : Concerns(e, t)}}
  /\ UNCHANGED <<row, selected, fetches, view, latest>>

StreamBreaks(s) ==
  /\ inbox[s] # << >>
  /\ inbox' = [inbox EXCEPT ![s] = << >>]
  /\ misled' = misled \union UNION {ViewsOf(inbox[s][i], s) : i \in DOMAIN inbox[s]}
  /\ UNCHANGED <<row, untold, selected, fetches, view, latest>>

\* The API reads the rows for a request.
ReadRows(i) ==
  /\ fetches[i].got = NoRow
  /\ fetches' = [fetches EXCEPT ![i].got = row[fetches[i].run]]
  /\ UNCHANGED <<row, untold, selected, inbox, view, latest, misled>>

-----------------------------------------------------------------------------
(* The page *)

\* A row of the table is clicked: the sheet opens, empty, and both it and the
\* overlay load the run.
SelectRun(r) ==
  /\ selected = NoRow
  /\ selected' = r
  /\ Ask(<<Fetch("sheet", r), Fetch("overlay", r)>>)
  /\ view' = [view EXCEPT !.sheet = NoRow]
  /\ misled' = {}
  /\ UNCHANGED <<row, untold, inbox, latest>>

CloseSheet ==
  /\ selected # NoRow
  /\ selected' = NoRow
  /\ inbox' = [inbox EXCEPT !.sheet = << >>]
  /\ view' = [view EXCEPT !.sheet = NoRow, !.overlay = NoRow]
  /\ latest' = [k \in Instances |-> NoRow]
  /\ UNCHANGED <<row, untold, fetches, misled>>

\* The answer is shown, whatever is selected by now and whatever was asked for
\* or shown since. Of the instances the overlay shows the one the database gives
\* last.
ShowAnswer(i) ==
  /\ fetches[i].got # NoRow
  /\ LET q == fetches[i]
         late == \/ q.run # selected
                 \/ \E j \in 1 .. i - 1 : fetches[j].view = q.view
     IN  /\ IF q.view = "sheet"
            THEN view' = [view EXCEPT !.sheet = <<q.run, q.got>>] /\ UNCHANGED latest
            ELSE /\ \E k \in Instances : view' = [view EXCEPT !.overlay = <<k, q.got[k]>>]
                 /\ latest' = [k \in Instances |-> q.got[k]]
         /\ misled' = IF late THEN misled \union {q.view} ELSE misled
  /\ fetches' = RemoveAt(fetches, i)
  /\ UNCHANGED <<row, untold, selected, inbox>>

\* A message, or nothing at all; what is shown stays.
FetchFails(i) ==
  /\ fetches' = RemoveAt(fetches, i)
  /\ misled' = misled \union {fetches[i].view}
  /\ UNCHANGED <<row, untold, selected, inbox, view, latest>>

\* The page's events: the node of the selected run is given the status of the
\* event's instance.
PageHears ==
  /\ inbox.page # << >>
  /\ inbox' = [inbox EXCEPT !.page = Tail(@)]
  /\ LET e == Head(inbox.page) IN
     IF e.field \in Instances /\ e.run = selected
     THEN /\ view' = [view EXCEPT !.overlay = <<e.field, e.value>>]
          /\ latest' = [latest EXCEPT ![e.field] = e.value]
          /\ misled' =
               IF \/ \E i \in DOMAIN fetches : fetches[i].view = "overlay" /\ fetches[i].got # NoRow
                  \/ latest[e.field] # NoRow /\ latest[e.field] > e.value
               THEN misled \union {"overlay"} ELSE misled
     ELSE UNCHANGED <<view, latest, misled>>
  /\ UNCHANGED <<row, untold, selected, fetches>>

\* Mutant: the sheet is loaded again only when the run's own status changes.
HearsOwnStatus ==
  /\ inbox.sheet # << >>
  /\ inbox' = [inbox EXCEPT !.sheet = Tail(@)]
  /\ IF Head(inbox.sheet).field = "status" THEN Ask(<<Fetch("sheet", selected)>>) ELSE UNCHANGED fetches
  /\ UNCHANGED <<row, untold, selected, view, latest, misled>>

\* The sheet's events: it is loaded again.
SheetHears ==
  /\ inbox.sheet # << >>
  /\ inbox' = [inbox EXCEPT !.sheet = Tail(@)]
  /\ Ask(<<Fetch("sheet", selected)>>)
  /\ UNCHANGED <<row, untold, selected, view, latest, misled>>

\* The sheet is loaded by its button, and when a cancel, an approval or a
\* rejection of run r has been answered (it writes the row, as others do): r is
\* the run that was selected when that was clicked.
Refresh(r) ==
  /\ Ask(<<Fetch("sheet", r)>>)
  /\ UNCHANGED <<row, untold, selected, inbox, view, latest, misled>>

RunViewNext ==
  \/ \E r \in ViewedRuns : SelectRun(r) \/ (\E f \in Fields : Write(r, f)) \/ \E k \in Instances : DropRow(r, k)
  \/ \E e \in untold : \E hear \in SUBSET Streamers : PublishEvent(e, hear)
  \/ \E s \in Streamers : StreamBreaks(s)
  \/ \E i \in DOMAIN fetches : ReadRows(i) \/ ShowAnswer(i) \/ FetchFails(i)
  \/ CloseSheet \/ PageHears \/ SheetHears \/ \E r \in ViewedRuns : Refresh(r)

RunViewSpec == RunViewInit /\ [][RunViewNext]_runViewVars

-----------------------------------------------------------------------------
(* Properties *)

\* When nothing is on its way, the page shows the selected run as its row is:
\* the sheet all of it, the graph the status of one of the node's instances (of
\* the others it may show nothing, which is what the code does to a fan-out).
\* The exceptions are the ones the code has: a view that missed an event while
\* its stream was not open, whose request failed, that an answer reached after a
\* later one, after an event or after another run was selected, or an event
\* after a later one of the same instance; and rows that were deleted, of which
\* there is no event.
ViewSettles ==
  (/\ fetches = << >> /\ untold = {}
   /\ \A s \in Streamers : inbox[s] = << >>
   /\ selected # NoRow) =>
    /\ "sheet" \notin misled => view.sheet = <<selected, row[selected]>>
    /\ "overlay" \notin misled =>
         \E k \in Instances : view.overlay = <<k, row[selected][k]>>
=============================================================================
