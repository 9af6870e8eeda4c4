SPECIFICATION Spec
CONSTANTS
  Vertices <- UpTo3
  Messages <- Distances
  Values <- Distances
  None = None
  Combine <- MinCombine
  Program <- Run
  Applications = {"sssp"}
  Jobs <- SSSPJobs
  KeepsUnread = TRUE
  VotesCount = TRUE
  SourceArgument = 1
  ScheduleArgument = static
  start_vertex <- ParsedSource
  UINT_MAX = 100
  ROUND = 2
  One = 1000
INVARIANT SourceIsTheOneAsked
