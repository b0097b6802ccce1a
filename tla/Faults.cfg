SPECIFICATION Spec
CONSTANTS
  r1 = r1
  r2 = r2
  h1 = h1
  h2 = h2
  Junk = Junk
  NoRequest = NoRequest
  StoreThread = StoreThread
  Requests <- OneRequest
  Prompt <- LongPrompt
  Keys <- TwoChunks
  Sizes <- MCSizes
  ChunkNBytes = 1
  Capacity = 2
  WorldSize = 1
  NumAdapters = 2
  FSAdapters <- BothAdapters
  L2Start <- Anything
  L2MayFail = TRUE
  MayLose = TRUE
  Aborts = FALSE
  Timeouts = {}
PROPERTY ImplementsContract
CHECK_DEADLOCK FALSE
