SPECIFICATION Spec
CONSTANTS
  Threads = {t1, t2}
  Vertices <- UpTo3
  Messages <- Ranks
  Values <- Ranks
  None = None
  Combine <- SumCombine
  Program <- Run
  Applications = {"pagerank"}
  Jobs <- PageRankLoss
  Unit = 60
  start_vertex = 0
  UINT_MAX = 100
  ROUND = 2
  One = 60
INVARIANT BroadcastDelivered
