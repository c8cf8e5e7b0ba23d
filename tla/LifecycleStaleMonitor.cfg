\* The exit monitor saves HOLDING over a sale: two sales.
SPECIFICATION Spec
CONSTANTS
  p1 = p1
  Pairs = {p1}
  Modes = {"live"}
  StoreFaults = FALSE
  MaxTrades = 3
  MaxPositions = 1
  Crashes = FALSE
  ExitMonitor = TRUE
CHECK_DEADLOCK FALSE
INVARIANT NoDoubleSale
