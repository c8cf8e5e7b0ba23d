\* One pair and its place; a reorg while the monitor, or the listener of new pairs, works.
SPECIFICATION Spec
CONSTANTS
  a = a
  b = b
  Pairs = {a, b}
  Capacity = 1
  Initially <- MCInitially
  Reorgs = 1
  Events = 2
INVARIANT NoReplayDeadlock
CHECK_DEADLOCK FALSE
