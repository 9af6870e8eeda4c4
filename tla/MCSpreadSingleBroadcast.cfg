SPECIFICATION FairSpec
CONSTANTS
  Threads = {t1, t2}
  Vertices <- UpTo3
  Messages <- Distances
  Values <- Distances
  None = None
  Combine <- MinCombine
  Program <- Run
  Applications = {"any", "sssp"}
  Jobs <- AnyAndSSSPJobs
  start_vertex = 0
  UINT_MAX = 100
  ROUND = 2
  One = 1000
INVARIANTS TypeOK TargetsAreReceivers CleanStart SSSPResult
PROPERTIES Termination ImplementsBSP
