SPECIFICATION Spec
CONSTANTS
  Nodes <- FanNodes
  Edges <- FanEdges
  Pos <- FanPos
  ForEach = {"f"}
  Lengths <- FanLengths
  BatchLimit <- LimitTwo
  Join <- FanJoin
  JoinPercent <- FanPercent
  MaxItems = 5
  MaxNodeRuns = 5
  Callback = {}
  RunJob = RunJob
  NoJob = NoJob
  ApiMayCrash = FALSE
  MayCrash = {RunJob}
  Requests = {}
  NoRequest = NoRequest
  MaxBeats = 0
  Sweepers = {w1}
  HasSla = FALSE
  MaxLost = 1
  Users = {}
PROPERTIES
  ImplementsPromise
CHECK_DEADLOCK FALSE
