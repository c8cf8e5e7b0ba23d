\* Entry and counted buy in two blocks; the exit monitor sells, and the later block is replaced.
SPECIFICATION Spec
CONSTANTS
  a = a
  b = b
  Pairs <- MCPairs
  Events <- MCEvents
  Content <- MCLonger
  PairOf <- MCPairOf
  Created <- MCCreated
  Incompatible = {}
  Modes = {"live"}
  Target = 2
  Retention = 3
  ChunkSize = 1
  MaxHeight = 4
  Forks = 2
  Comeback = FALSE
  Faults = 1
  Troubles = 2
INVARIANT SoldStaysSold
CHECK_DEADLOCK FALSE
