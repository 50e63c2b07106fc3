SPECIFICATION Spec
CONSTANTS
  Nodes <- ForkNodes
  Edges <- ForkEdges
  Pos <- ForkPos
  ForEach = {}
  Lengths <- PlainLengths
  BatchLimit <- LimitOne
  Join <- JoinAll
  JoinPercent <- NoPercent
  MaxItems = 1
  MaxNodeRuns = 0
  Callback = {"a", "b"}
  RunJob = RunJob
  NoJob = NoJob
  ApiMayCrash = FALSE
  MayCrash = {}
  Requests = {h1}
  NoRequest = NoRequest
  MaxBeats = 0
  Sweepers = {w1}
  HasSla = FALSE
  MaxLost = 0
  Users = {}
PROPERTIES
  OrphanHasNoWorker
CHECK_DEADLOCK FALSE
