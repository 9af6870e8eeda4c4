SPECIFICATION Spec
CONSTANTS
  VertexCount = 4
  ip_thread_count = 1
  IdLimit = 16
  None = None
  Builds <- GeneratedBuilds
  Stored <- AllStored
  MaxOutDegrees = {3}
  EdgeBound = 4
INVARIANT ExclusionsAvailable
