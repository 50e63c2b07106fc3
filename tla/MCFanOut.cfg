SPECIFICATION Spec
CONSTANTS
  Nodes <- FanNodes
  Edges <- FanEdges
  Pos <- FanPos
  ForEach = {"f"}
  Lengths <- TwoItems
  BatchLimit <- LimitOne
  Join <- JoinAll
  JoinPercent <- FanPercent
  MaxItems = 2
  MaxNodeRuns = 0
  Callback = {}
  RunJob = RunJob
  NoJob = NoJob
  ApiMayCrash = FALSE
  MayCrash = {RunJob}
  Requests = {}
  NoRequest = NoRequest
  MaxBeats = 0
  Sweepers = {}
  HasSla = FALSE
  MaxLost = 1
  Users = {}
INVARIANTS
  FanOutComplete
CHECK_DEADLOCK FALSE
