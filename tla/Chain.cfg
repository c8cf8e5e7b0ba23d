\* One pair, three blocks, reorgs and faults, in both execution modes.
SPECIFICATION FairSpec
CONSTANTS
  a = a
  b = b
  Pairs <- MCPairs
  Events <- MCEvents
  Content <- MCContent
  PairOf <- MCPairOf
  Created <- MCCreated
  Incompatible = {}
  Modes = {"live", "dry-run"}
  Target = 1
  Retention = 2
  ChunkSize = 1
  MaxHeight = 3
  Forks = 2
  Comeback = FALSE
  Faults = 1
  Troubles = 2
INVARIANTS ChainSound NothingSkipped SessionsSound
PROPERTIES HealthyReplayed CatchesUp
CHECK_DEADLOCK FALSE
