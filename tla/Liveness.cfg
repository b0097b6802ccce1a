SPECIFICATION FairSpec
CONSTANTS
  r1 = r1
  r2 = r2
  h1 = h1
  h2 = h2
  Junk = Junk
  NoRequest = NoRequest
  StoreThread = StoreThread
  Requests <- OneRequest
  Prompt <- ShortPrompt
  Keys <- OneChunk
  Sizes <- MCSizes
  ChunkNBytes = 1
  Capacity = 2
  WorldSize = 2
  NumAdapters = 1
  FSAdapters <- Adapter1
  L2Start <- Anything
  L2MayFail = FALSE
  MayLose = FALSE
  Aborts = FALSE
  Timeouts = {}
INVARIANT
  RetrieveNeverMisses
PROPERTIES
  LookupResolves
  WritesAreMirrored
  EvictionMakesRoom
  HoldsAreReturned
