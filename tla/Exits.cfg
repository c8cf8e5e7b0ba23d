\* One position, every market, two policies, two revisions.
SPECIFICATION FairSpec
CONSTANTS
  a = a
  Pairs = {a}
  Policies <- MCPolicies
  Default <- Trailing
  Markets <- MCMarkets
  Bps = 10
  Cost = 100
  Overlap = FALSE
  Moves = 2
  MaxBuys = 1
  Faults = 1
INVARIANTS DecisionsSound SoldOnce
PROPERTIES SoldForReason PeakKept ExitsSettle
CHECK_DEADLOCK FALSE
