--------------------------- MODULE EventTriggers ----------------------------
(***************************************************************************)
(* EventTriggerService and RedisStreamAdapter: triggers are created and    *)
(* removed on any API instance, which then restarts its consumer loop with *)
(* the topics it has read from the database; messages of a topic go to one *)
(* loop of the consumer group, which launches the matching flows.          *)
(***************************************************************************)
EXTENDS Naturals, Sequences

CONSTANTS
  Servers,       \* API instances
  Triggers,      \* FlowEventTrigger rows that may be created
  TopicOf,       \* the topic of each trigger
  Messages,      \* stream entries that may be published
  MessageTopic,  \* the topic of each
  Matching,      \* <<message, trigger>> pairs that matchesFilter accepts
  Edits,         \* management requests, each made once
  MaxKills       \* bound of the number of crashes

ASSUME EventAssumption ==
  /\ Servers # {} /\ DOMAIN TopicOf = Triggers /\ DOMAIN MessageTopic = Messages
  /\ Matching \subseteq Messages \X Triggers
  /\ Edits \intersect Servers = {} /\ MaxKills \in Nat

Reloads == Edits \union Servers  \* an instance reloads when it starts, too
Topics  == {TopicOf[t] : t \in Triggers}

VARIABLES
  enabled,     \* triggers in the database
  reload,      \* next step of each reload
  server,      \* the instance that handles the request
  found,       \* the topics its query has returned
  stopping,    \* reloads of an instance that wait for the connection to quit
  conn,        \* RedisStreamAdapter.conn: none, open or quit
  hadConn,     \* the reload found a connection to quit
  running,     \* RedisStreamAdapter.running
  topics,      \* RedisStreamAdapter.topics
  loop,        \* a loop of the instance reads the stream
  groups,      \* topics whose consumer group exists
  message,     \* the fate of each message
  reader,      \* the instance that has read it
  todo,        \* triggers the handler has yet to launch
  kills,       \* crashes so far
  overlapped   \* two reloads of an instance were in progress, a history

evVars == <<enabled, reload, server, found, stopping, conn, hadConn, running, topics,
            loop, groups, message, reader, todo, kills, overlapped>>
adapterVars == <<stopping, conn, hadConn, running, topics, loop, groups>>
messageVars == <<message, reader, todo>>

EventTypeOK ==
  /\ enabled \subseteq Triggers
  /\ reload \in [Reloads -> {"new", "idle", "find", "start", "quit", "group"}]
  /\ server \in [Reloads -> Servers]
  /\ found \in [Reloads -> SUBSET Topics]
  /\ \A i \in Servers : \A k \in DOMAIN stopping[i] : stopping[i][k] \in Reloads
  /\ conn \in [Servers -> {"none", "open", "quit"}]
  /\ hadConn \subseteq Reloads
  /\ running \in [Servers -> BOOLEAN] /\ loop \in [Servers -> BOOLEAN]
  /\ topics \in [Servers -> SUBSET Topics]
  /\ groups \subseteq Topics
  /\ message \in [Messages -> {"none", "missed", "waiting", "read", "handling", "done", "lost"}]
  /\ reader \in [Messages -> Servers]
  /\ todo \in [Messages -> SUBSET Triggers]
  /\ kills \in 0 .. MaxKills
  /\ overlapped \in BOOLEAN

\* Every instance begins with onModuleInit's reload.
EventInit ==
  /\ enabled = {}
  /\ reload = [p \in Reloads |-> IF p \in Servers THEN "find" ELSE "new"]
  /\ server = [p \in Reloads |-> IF p \in Servers THEN p ELSE CHOOSE i \in Servers : TRUE]
  /\ found = [p \in Reloads |-> {}]
  /\ stopping = [i \in Servers |-> <<>>]
  /\ conn = [i \in Servers |-> "none"]
  /\ hadConn = {}
  /\ running = [i \in Servers |-> FALSE]
  /\ topics = [i \in Servers |-> {}]
  /\ loop = [i \in Servers |-> FALSE]
  /\ groups = {}
  /\ message = [m \in Messages |-> "none"]
  /\ reader = [m \in Messages |-> CHOOSE i \in Servers : TRUE]
  /\ todo = [m \in Messages |-> {}]
  /\ kills = 0 /\ overlapped = FALSE

UnderWay(i) == {p \in Reloads : server[p] = i /\ reload[p] \notin {"new", "idle"}}

-----------------------------------------------------------------------------
(* EventTriggerService: create and remove write the row, then reload *)

\* Mutant: a new trigger is saved and nothing reloaded.
EditWithoutReload(p, i, t) ==
  /\ reload[p] = "new"
  /\ enabled' = IF t \in enabled THEN enabled \ {t} ELSE enabled \union {t}
  /\ reload' = [reload EXCEPT ![p] = "idle"]
  /\ UNCHANGED <<server, found, adapterVars, messageVars, kills, overlapped>>

Edit(p, i, t) ==
  /\ reload[p] = "new"
  /\ enabled' = IF t \in enabled THEN enabled \ {t} ELSE enabled \union {t}
  /\ reload' = [reload EXCEPT ![p] = "find"]
  /\ server' = [server EXCEPT ![p] = i]
  /\ overlapped' = (overlapped \/ UnderWay(i) # {})
  /\ UNCHANGED <<found, adapterVars, messageVars, kills>>

FindTriggers(p) ==
  /\ reload[p] = "find"
  /\ found' = [found EXCEPT ![p] = {TopicOf[t] : t \in enabled}]
  /\ reload' = [reload EXCEPT ![p] = "start"]
  /\ UNCHANGED <<enabled, server, adapterVars, messageVars, kills, overlapped>>

-----------------------------------------------------------------------------
(* RedisStreamAdapter.start, with stop at its beginning *)

\* Queries may be answered in another order than they were made.
BeginStop(p) ==
  /\ reload[p] = "start"
  /\ LET i == server[p] IN
     /\ running' = [running EXCEPT ![i] = FALSE]
     /\ hadConn' = IF conn[i] = "none" THEN hadConn \ {p} ELSE hadConn \union {p}
     /\ conn' = [conn EXCEPT ![i] = IF @ = "none" THEN @ ELSE "quit"]
     /\ stopping' = [stopping EXCEPT ![i] = Append(@, p)]
  /\ reload' = [reload EXCEPT ![p] = "quit"]
  /\ UNCHANGED <<enabled, server, found, topics, loop, groups, messageVars, kills, overlapped>>

\* The connection is down, after any read that blocked it. With no topic the
\* adapter stays stopped, else it connects and creates the consumer groups.
SetTopics(p) ==
  /\ reload[p] = "quit"
  /\ LET i == server[p] IN
     /\ Head(stopping[i]) = p
     /\ stopping' = [stopping EXCEPT ![i] = Tail(@)]
     /\ topics' = [topics EXCEPT ![i] = found[p]]
     /\ loop' = [loop EXCEPT ![i] = @ /\ running[i]]
     /\ \/ /\ found[p] = {}
           /\ conn' = [conn EXCEPT ![i] = IF p \in hadConn THEN "none" ELSE @]
           /\ reload' = [reload EXCEPT ![p] = "idle"]
        \/ /\ found[p] # {}
           /\ conn' = [conn EXCEPT ![i] = "open"]
           /\ reload' = [reload EXCEPT ![p] = "group"]
  /\ hadConn' = hadConn \ {p}
  /\ UNCHANGED <<enabled, server, found, running, groups, messageVars, kills, overlapped>>

\* Mutant: the flag that keeps the loop going is not set again.
SubscribeStopped(p) ==
  /\ reload[p] = "group"
  /\ groups' = groups \union found[p]
  /\ reload' = [reload EXCEPT ![p] = "idle"]
  /\ found' = [found EXCEPT ![p] = {}]
  /\ UNCHANGED <<enabled, server, stopping, conn, hadConn, running, topics, loop, messageVars, kills, overlapped>>

\* The groups exist: the loop starts, on the connection of that moment. If a
\* later reload has taken the connection away, the call may fail instead.
Subscribe(p) ==
  /\ reload[p] = "group"
  /\ LET i == server[p] IN
     \/ /\ groups' = groups \union found[p]
        /\ running' = [running EXCEPT ![i] = TRUE]
        /\ loop' = [loop EXCEPT ![i] = @ \/ conn[i] = "open"]
     \/ /\ conn[i] # "open"
        /\ UNCHANGED <<groups, running, loop>>
  /\ reload' = [reload EXCEPT ![p] = "idle"]
  /\ found' = [found EXCEPT ![p] = {}]
  /\ UNCHANGED <<enabled, server, stopping, conn, hadConn, topics, messageVars, kills, overlapped>>

-----------------------------------------------------------------------------
(* Messages: the adapter's loop and the service's handle *)

\* A new group begins at the stream's end: earlier messages are not delivered.
Publish(m) ==
  /\ message[m] = "none"
  /\ message' = [message EXCEPT ![m] = IF MessageTopic[m] \in groups THEN "waiting" ELSE "missed"]
  /\ UNCHANGED <<enabled, reload, server, found, adapterVars, reader, todo, kills, overlapped>>

\* The entry goes to one reader of the group. It is acknowledged without
\* waiting for its handler; unacknowledged ones would not be read again either.
ReadMessage(i, m) ==
  /\ message[m] = "waiting" /\ loop[i] /\ MessageTopic[m] \in topics[i]
  /\ message' = [message EXCEPT ![m] = "read"]
  /\ reader' = [reader EXCEPT ![m] = i]
  /\ UNCHANGED <<enabled, reload, server, found, adapterVars, todo, kills, overlapped>>

\* handle looks up the triggers of the topic and keeps those that match.
Handle(m) ==
  /\ message[m] = "read"
  /\ todo' = [todo EXCEPT ![m] = {t \in enabled : TopicOf[t] = MessageTopic[m] /\ <<m, t>> \in Matching}]
  /\ message' = [message EXCEPT ![m] = "handling"]
  /\ UNCHANGED <<enabled, reload, server, found, adapterVars, reader, kills, overlapped>>

LaunchNext(m) ==
  /\ message[m] = "handling"
  /\ \/ /\ todo[m] = {}
        /\ message' = [message EXCEPT ![m] = "done"]
        /\ UNCHANGED todo
     \/ \E t \in todo[m] :
        /\ todo' = [todo EXCEPT ![m] = @ \ {t}]
        /\ UNCHANGED message
  /\ UNCHANGED <<enabled, reload, server, found, adapterVars, reader, kills, overlapped>>

\* The process dies, on its own or by a rejection nobody handles, and starts
\* again; the messages its handlers worked on are not delivered again.
Kill(i) ==
  /\ kills < MaxKills
  /\ kills' = kills + 1
  /\ reload' = [p \in Reloads |->
                  CASE p = i -> "find"
                    [] p \in UnderWay(i) \ {i} -> "idle"
                    [] OTHER -> reload[p]]
  /\ stopping' = [stopping EXCEPT ![i] = <<>>]
  /\ conn' = [conn EXCEPT ![i] = "none"]
  /\ running' = [running EXCEPT ![i] = FALSE]
  /\ topics' = [topics EXCEPT ![i] = {}]
  /\ loop' = [loop EXCEPT ![i] = FALSE]
  /\ message' = [m \in Messages |->
                   IF message[m] \in {"read", "handling"} /\ reader[m] = i THEN "lost" ELSE message[m]]
  /\ found' = [p \in Reloads |-> IF server[p] = i THEN {} ELSE found[p]]
  /\ hadConn' = {p \in hadConn : server[p] # i}
  /\ todo' = [m \in Messages |-> IF reader[m] = i THEN {} ELSE todo[m]]
  /\ UNCHANGED <<enabled, server, groups, reader, overlapped>>

ReloadStep(p) == FindTriggers(p) \/ BeginStop(p) \/ SetTopics(p) \/ Subscribe(p)
MessageStep(m) == (\E i \in Servers : ReadMessage(i, m)) \/ Handle(m) \/ LaunchNext(m)

EventNext ==
  \/ \E p \in Edits, i \in Servers, t \in Triggers : Edit(p, i, t)
  \/ \E p \in Reloads : ReloadStep(p)
  \/ \E m \in Messages : Publish(m) \/ MessageStep(m)
  \/ \E i \in Servers : Kill(i)

EventSpec == EventInit /\ [][EventNext]_evVars

\* Requests are carried through and the loops read; users, publishers and
\* crashes may do nothing.
EventFairness ==
  /\ \A p \in Reloads : WF_evVars(ReloadStep(p))
  /\ \A m \in Messages : WF_evVars(MessageStep(m))

-----------------------------------------------------------------------------
(* Properties *)

Consumed(i) == IF running[i] /\ loop[i] THEN topics[i] ELSE {}

\* With no reload under way, every trigger's topic is consumed by an instance,
\* also after crashes, as long as an instance's reloads did not overlap: then
\* an older query's topics may replace a newer one's.
TriggersConsumed ==
  (\A i \in Servers : UnderWay(i) = {}) /\ ~overlapped =>
    \A t \in enabled : \E i \in Servers : TopicOf[t] \in Consumed(i)

\* A message of a group is handled, unless an instance died with it, the
\* topic's triggers were removed, or reloads overlapped.
MessagesHandled ==
  \A m \in Messages :
    message[m] = "waiting" ~>
      \/ message[m] \in {"done", "lost"} \/ overlapped
      \/ \A t \in enabled : TopicOf[t] # MessageTopic[m]
=============================================================================
