SPECIFICATION FairSpec
CONSTANTS
  VertexCount = 4
  ip_thread_count = 3
  IdLimit = 16
  None = None
  Builds <- GeneratedBuilds
  Stored <- AllStored
  MaxOutDegrees = {2, 4}
  EdgeBound = 3
INVARIANTS TypeOK LoadsGraph MirrorsEdges ProperNeighbours
PROPERTIES CountsAgree Loads
