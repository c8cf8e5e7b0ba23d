\* Sessions when every write succeeds and the process stays up.
SPECIFICATION FairSpec
CONSTANTS
  p1 = p1
  Pairs = {p1}
  Modes = {"live"}
  StoreFaults = FALSE
  MaxTrades = 4
  MaxPositions = 1
  Crashes = FALSE
  ExitMonitor = FALSE
CHECK_DEADLOCK FALSE
INVARIANT TradesFollowed
PROPERTIES KeepsContract InFlightSettles ReviewSettles
