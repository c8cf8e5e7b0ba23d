\* Two pairs, five swaps in two blocks, everything but markFailed may fail.
SPECIFICATION FairIngestSpec
CONSTANTS
  a = a
  b = b
  Pairs <- MCPairs
  Log <- MCLog
  FirstBuys = 2
  TargetBuys = 1
  ChunkSize = 1
  MarkFaults = FALSE
  Faults = 1
  Disturbances = 1
INVARIANTS NothingDropped CountsSound
PROPERTIES MovesForward CatchesUp
CHECK_DEADLOCK FALSE
