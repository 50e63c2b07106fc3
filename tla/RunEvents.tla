------------------------------- MODULE RunEvents ------------------------------
(***************************************************************************)
(* The run event bus of one API instance (RunEventsService) and the event  *)
(* streams of browsers (RunStreamController, useRunStream): streams share  *)
(* a set of listeners per run, made for the first and dropped with the     *)
(* last, and one Redis subscription.                                       *)
(***************************************************************************)
EXTENDS Naturals, FiniteSets, Functions

CONSTANTS
  Streams,  \* event streams that may be open
  WatchedRuns,    \* runs that are watched
  ListenerSets      \* identities of listener sets

All == "*"

ASSUME BusAssumption == All \notin WatchedRuns \union ListenerSets

VARIABLES
  redis,      \* the subscription: "none", "pending" or "done"
  listeners,  \* the listener sets ever made: their members
  byRun,      \* the set each run has now, a partial function
  stream,     \* each stream: what it watches and the set it is in, or closed
  heard       \* the last event: who was open for it and who got it, a history

busVars == <<redis, listeners, byRun, stream, heard>>

Closed == [key |-> All, set |-> All, open |-> FALSE]
Global == All

BusTypeOK ==
  /\ redis \in {"none", "pending", "done"}
  /\ listeners \in [ListenerSets \union {Global} -> SUBSET Streams]
  /\ DOMAIN byRun \subseteq WatchedRuns /\ \A r \in DOMAIN byRun : byRun[r] \in ListenerSets
  /\ stream \in [Streams -> [key : WatchedRuns \union {All}, set : ListenerSets \union {Global}, open : BOOLEAN]]
  /\ heard \in [open : SUBSET Streams, got : SUBSET Streams]

BusInit ==
  /\ redis = "none"
  /\ listeners = [b \in ListenerSets \union {Global} |-> {}]
  /\ byRun = << >>
  /\ stream = [s \in Streams |-> Closed]
  /\ heard = [open |-> {}, got |-> {}]

\* A new set is one that nothing refers to.
FreshSets ==
  {b \in ListenerSets : b \notin {byRun[r] : r \in DOMAIN byRun}
                  /\ \A s \in Streams : stream[s].open => stream[s].set # b}

\* ensureSubscriber
Ensured == IF redis = "none" THEN "pending" ELSE redis

\* subscribe, with bucket.
Join(s, key, b) ==
  /\ listeners' = [listeners EXCEPT ![b] = @ \union {s}]
  /\ stream' = [stream EXCEPT ![s] = [key |-> key, set |-> b, open |-> TRUE]]
  /\ redis' = Ensured
  /\ UNCHANGED heard

OpenStream(s, r) ==
  /\ ~stream[s].open
  /\ IF r \in DOMAIN byRun
     THEN Join(s, r, byRun[r]) /\ UNCHANGED byRun
     ELSE /\ FreshSets # {}
          /\ LET b == CHOOSE b \in FreshSets : TRUE
             IN  Join(s, r, b) /\ byRun' = [x \in DOMAIN byRun \union {r} |->
                                              IF x = r THEN b ELSE byRun[x]]

OpenAll(s) ==
  /\ ~stream[s].open
  /\ Join(s, All, Global) /\ UNCHANGED byRun

\* Mutant: the run's set is dropped with any of its streams.
CloseDropping(s) ==
  /\ stream[s].open
  /\ listeners' = [listeners EXCEPT ![stream[s].set] = @ \ {s}]
  /\ byRun' = Restrict(byRun, DOMAIN byRun \ {stream[s].key})
  /\ stream' = [stream EXCEPT ![s] = Closed]
  /\ UNCHANGED <<redis, heard>>

\* The function that subscribe returned, called once, when the browser goes.
CloseStream(s) ==
  /\ stream[s].open
  /\ listeners' = [listeners EXCEPT ![stream[s].set] = @ \ {s}]
  /\ byRun' = IF stream[s].key # All /\ listeners[stream[s].set] = {s}
              THEN Restrict(byRun, DOMAIN byRun \ {stream[s].key}) ELSE byRun
  /\ stream' = [stream EXCEPT ![s] = Closed]
  /\ UNCHANGED <<redis, heard>>

\* psubscribe answers; after a failure the next stream tries again.
Psubscribed ==
  /\ redis = "pending" /\ redis' \in {"done", "none"}
  /\ UNCHANGED <<listeners, byRun, stream, heard>>

\* dispatch
Dispatch(r) ==
  /\ redis = "done"
  /\ heard' = [open |-> {s \in Streams : stream[s].open /\ stream[s].key \in {r, All}},
               got |-> listeners[Global]
                         \union IF r \in DOMAIN byRun THEN listeners[byRun[r]] ELSE {}]
  /\ UNCHANGED <<redis, listeners, byRun, stream>>

BusNext ==
  \/ Psubscribed
  \/ \E r \in WatchedRuns : Dispatch(r)
  \/ \E s \in Streams : OpenAll(s) \/ CloseStream(s) \/ \E r \in WatchedRuns : OpenStream(s, r)

BusSpec == BusInit /\ [][BusNext]_busVars
-----------------------------------------------------------------------------
(* Properties *)

\* An event that reaches the instance is given to exactly the streams that
\* are open for its run or for all, however streams came and went before.
HeardByOpen == heard.got = heard.open
=============================================================================
