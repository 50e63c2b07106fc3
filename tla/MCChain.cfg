SPECIFICATION Spec
CONSTANTS
  Nodes <- ChainNodes
  Edges <- ChainEdges
  Pos <- ChainPos
  ForEach = {}
  Lengths <- PlainLengths
  BatchLimit <- LimitOne
  Join <- JoinAll
  JoinPercent <- NoPercent
  MaxItems = 1
  MaxNodeRuns = 0
  Callback = {"a"}
  RunJob = RunJob
  NoJob = NoJob
  ApiMayCrash = TRUE
  MayCrash = {RunJob}
  Requests = {h1}
  NoRequest = NoRequest
  MaxBeats = 1
  Sweepers = {w1}
  HasSla = TRUE
  MaxLost = 0
  Users = {u1}
INVARIANTS
  FinishedOnce
CHECK_DEADLOCK FALSE
