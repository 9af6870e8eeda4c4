SPECIFICATION FairSpec
CONSTANTS
  Threads = {t1, t2}
  Vertices <- UpTo3
  Messages <- Ranks
  Values <- Ranks
  None = None
  Combine <- SumCombine
  Program <- Run
  Applications = {"any", "pagerank"}
  Jobs <- AnyAndPageRankJobs
  start_vertex = 0
  UINT_MAX = 100
  ROUND = 2
  One = 60
INVARIANTS TypeOK FetchedEverything ActiveCount
PROPERTIES Termination ImplementsBSP
