\* Chunks lock p1 and p2, direct calls p2: the two orders meet on p2.
\* A crossing stops everyone it reaches, the others of the instance too.
SPECIFICATION LocksFairSpec
CONSTANTS
  c1 = c1  c2 = c2  d1 = d1  d2 = d2
  Chunks <- MCChunks
  Directs <- MCDirects
  Listeners <- MCListeners
  Recoveries = {r1}
  Detaching = {}
  ChunkPairs = {p1, p2}
  DirectPairs = {p2}
INVARIANT OnlyCrossings
PROPERTIES Spec EveryoneServed
CHECK_DEADLOCK FALSE
