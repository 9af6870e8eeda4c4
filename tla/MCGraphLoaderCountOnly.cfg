SPECIFICATION Spec
CONSTANTS
  VertexCount = 3
  ip_thread_count = 2
  IdLimit = 16
  None = None
  Builds <- CountBuild
  Stored <- RingCounted
  MaxOutDegrees = {0}
  EdgeBound = 0
INVARIANT CountsInNeighbours
