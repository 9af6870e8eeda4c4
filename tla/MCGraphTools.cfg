SPECIFICATION Spec
CONSTANTS
  Inputs <- Files
  Uninitialised <- Garbage
  Headers <- GivenNumbers
  Tools = {"iPregel", "ligra"}
  Arguments <- Sizes
  CHUNK_PERCENT = 3
  UnsignedLimit = 8
INVARIANTS TypeOK EdgesJoinVertices RenumbersGraph ConvertsGraph
