SPECIFICATION FairSpec
CONSTANTS
  Nodes <- ChainNodes
  Edges <- ChainEdges
  Pos <- ChainPos
  ForEach = {}
  Lengths <- PlainLengths
  BatchLimit <- LimitOne
  Join <- JoinAll
  JoinPercent <- NoPercent
  MaxItems = 1
  MaxNodeRuns = 0
  Callback = {"a"}
  RunJob = RunJob
  NoJob = NoJob
  ApiMayCrash = FALSE
  MayCrash <- Jobs
  Requests = {h1}
  NoRequest = NoRequest
  MaxBeats = 0
  Sweepers = {w1}
  HasSla = FALSE
  MaxLost = 1
  Users = {}
PROPERTIES
  RunEnds
CHECK_DEADLOCK FALSE
