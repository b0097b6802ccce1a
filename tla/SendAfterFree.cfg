SPECIFICATION Spec
CONSTANTS
  r1 = r1
  r2 = r2
  h1 = h1
  h2 = h2
  Junk = Junk
  NoRequest = NoRequest
  StoreThread = StoreThread
  Requests <- TwoRequests
  Prompt <- OtherPrompts
  Keys <- TwoChunks
  Sizes <- MCSizes
  ChunkNBytes = 1
  Capacity = 1
  WorldSize = 1
  NumAdapters = 1
  FSAdapters <- Adapter1
  L2Start <- Anything
  L2MayFail = FALSE
  MayLose = FALSE
  Aborts = TRUE
  Timeouts = {}
INVARIANT RetrieveSendsOwnBytes
