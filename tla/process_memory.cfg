SPECIFICATION FairSpec
CONSTANTS
  PageSize = 4
  AddrSpace = 12
  ChunkLists <- MCChunkLists
INVARIANT
  ExactlyTheChunksAreMapped
PROPERTY
  ConstructionEnds
CHECK_DEADLOCK FALSE
