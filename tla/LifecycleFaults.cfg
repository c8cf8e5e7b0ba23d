\* Sessions and trades, real or simulated, when writes fail and the process is restarted.
SPECIFICATION Spec
CONSTANTS
  p1 = p1
  Pairs = {p1}
  Modes = {"live", "dry-run"}
  StoreFaults = TRUE
  MaxTrades = 3
  MaxPositions = 1
  Crashes = TRUE
  ExitMonitor = FALSE
CHECK_DEADLOCK FALSE
INVARIANTS BookSound RecordsSound BroadcastRecorded NoDoubleBuy LeaseReturns QuarantineHolds
PROPERTIES BookPermanent SentOnce
