SPECIFICATION Spec
CONSTANTS
  Engines <- Mixed
  Prompts <- Branching
  chunk_size = 2
  Pages = 2
  L1Chunks = 2
  MaxRestarts = 1
INVARIANTS
  FinalIsWhole
  RetrievesOwnChunks
  LoadedIsWhole
