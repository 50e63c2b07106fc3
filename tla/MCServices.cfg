SPECIFICATION Spec
CONSTANTS
  Runs = {r1}
  Origins = {"manual", "backfill"}
  Deciders = {d1, d2}
  MayDie = TRUE
  Flows = {"A", "B", "C"}
  MaxDepth <- FlowLimits
  NoLimit = NoLimit
  AllowedFlows <- FlowAllows
  WalkBound = 2
  Slots = 2
  MaxRuns = 3
  Servers = {i1}
  Triggers = {"t1", "t2"}
  TopicOf <- Topic
  Messages = {"m1"}
  MessageTopic <- TopicOfMessage
  Matching <- Matches
  Edits = {e1, e2}
  MaxKills = 1
  HookCalls = {c1, c2}
  MaxPerWindow = 2
  MaxHits = 4
  Kinds = {"http", "job", "script", "llm"}
  Items = {1, 2}
  FanOut <- Fan
  MaxRetries = 1
  Ticks = {p1, p2}
  AgentRetries = 0
  HasTimeout = TRUE
  Calls = {k1}
  Offered <- EveryCall
  MaxTurns = 1
  MaxCrashes = 1
INVARIANTS ApprovedBeforeRun StartedOnce NoRecursion TriggersConsumed SuccessIsOwn TurnHasOneOwner NoLostResume
PROPERTIES CancelKept PendingEnds RunsDrain MessagesHandled TokenUnblocked ExecutionSettles AgentEnds
CHECK_DEADLOCK FALSE
