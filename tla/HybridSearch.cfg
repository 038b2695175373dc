SPECIFICATION SearchSpec
CONSTANTS
  MaxElements = 3
  MaxTokens = 5
  Sizes = {2, 3}
  Overlaps = {0, 1, 2}
  TopKs = {1, 2}
  FetchCap = 3
  RrfK = 60
  MaxSearched = 4
INVARIANTS
  TextIsWhole
  ChunksInPlace
  NoChunkInAnother
  
PROPERTY ChunkingEnds
CHECK_DEADLOCK FALSE
