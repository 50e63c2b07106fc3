SPECIFICATION PlaneSpec
CONSTANTS
  Runs = {1, 2}
  Origins = {}
  Deciders = {}
  MayDie = TRUE
  TimerCalls = {i1, i2}
  Skip = TRUE
  LockTtl = 2
  MaxLag = 1
  MaxTime = 2
  Ticks = {p1, p2}
  AgentRetries = 0
  HasTimeout = FALSE
  Calls = {c1, c2}
  Offered <- TwoThenOne
  MaxTurns = 2
  MaxCrashes = 0
  Users = {"u", "v"}
  Founder = "u"
  Admin = "admin"
  Roles = {"admin"}
  Changes = {q1}
  Logins = {l1}
  MaxStates = 1
  Bodies = {"b1", "b2"}
  Cron = {"b1"}
  Notes = {"n", ""}
  Null = ""
  Unset = Unset
  Patches <- SomePatches
  FlowEdits = {f1, f2}
  Apis = {a1}
  MaxVersions = 2
  NoFlow = NoFlow
  Tabs = {t1, t2}
  Secrets = {"s1"}
  Plains = {"p"}
  Mask = "****"
  NoText = ""
  Streams = {w1, w2, w3}
  WatchedRuns = {x1, x2}
  ListenerSets = {n1, n2, n3}
  Steps = {1, 2, 3}
  EdgeIds = {1, 2}
  Conditions = {"success"}
  MaxId = 3
  FormTypes = {"llm", "script", "http", "batch"}
  MaxSet = 2
  MaxItems = 1
  Intervals = {60}
  Typed <- SomeFields
  ViewedRuns = {y1}
  Instances = {v1, v2}
  MaxChanges = 2
  MaxFetches = 2
  NoRow = NoRow
  Keys = {"a", "b"}
  ParamTexts <- SomeTexts
  FanOut = {"i", "j"}
  DateLists <- SomeDates
  Overrides <- SomeOverrides
  HeaderText <- HeaderOfA
  Prompts <- SomePrompts
  MaxRows = 2
  NoRun = NoRun
  Finishes = {n1, n2}
  Channels = {"slack", "email"}
  Processes = {p1, p2}
  MaxConfigs = 1
VIEW PartOfState
INVARIANTS OneRunPerSecond NoOverlap CallsThenResults AdminRemains LocalRolesKept PastIsKept JobsFollowFlow MaskNotStored HeardByOpen NoDanglingEdge NodesDistinct StoredIsSortable RefusalExplained ShownIsSaved ViewSettles GivenAsWritten ToldAsWanted
PROPERTIES SecretKept AgentResultStable
CHECK_DEADLOCK FALSE
