\* Two pairs for one position, with restarts and the exit monitor.
SPECIFICATION Spec
CONSTANTS
  p1 = p1
  p2 = p2
  Pairs = {p1, p2}
  Modes = {"live"}
  StoreFaults = FALSE
  MaxTrades = 2
  MaxPositions = 1
  Crashes = TRUE
  ExitMonitor = TRUE
SYMMETRY Symmetry
CHECK_DEADLOCK FALSE
INVARIANTS CapacityRespected PositionKept
