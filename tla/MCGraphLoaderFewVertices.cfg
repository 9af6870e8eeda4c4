SPECIFICATION Spec
CONSTANTS
  VertexCount = 2
  ip_thread_count = 3
  IdLimit = 16
  None = None
  Builds <- DirectedBuilds
  Stored <- RingPushed
  MaxOutDegrees = {0}
  EdgeBound = 0
INVARIANT InitialisesVertices
