SPECIFICATION FairSpec
CONSTANTS
  long = long
  short = short
  Requests <- Both
  PromptLens <- Prompts
  MaxTokens <- Limits
  NumBlocks = 4
  block_size = 1
  chunk_size = 2
INVARIANTS
  StoresAreConsecutive
  ComputedIsFilled
  StoresOwnBytes
  LoadsOwnBlocks
PROPERTIES
  FinishedIsFreed
  LoadsAreReported
CHECK_DEADLOCK FALSE
