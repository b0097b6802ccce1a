SPECIFICATION Spec
CONSTANTS
  MaxCalls = 2
  CallSizes = {1, 4, 7}
  blocks_per_chunk = 2
  BlockCounts = {3, 4}
  Paddings = {0, 1}
  AxisSizes = {2, 3}
  NumLayers = 2
INVARIANTS
  ExtractsOwnBytes
  LandsOwnBytes
  BlocksAreFound
CHECK_DEADLOCK FALSE
