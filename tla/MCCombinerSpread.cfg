SPECIFICATION FairSpec
CONSTANTS
  Threads = {t1, t2, t3}
  Vertices <- UpTo3
  Messages <- Ids
  Values <- Ids
  None = None
  Combine <- MinCombine
  Program <- Run
  Applications = {"any", "cc"}
  Jobs <- AnyAndCCJobs
  Unit = 1
  start_vertex = 0
  UINT_MAX = 100
  ROUND = 2
  One = 1000
INVARIANTS TypeOK SpreadListExact MergeFits
PROPERTIES Termination ImplementsBSP
