\* Two pairs and one place; a reorg, a change and a fault.
SPECIFICATION FairSpec
CONSTANTS
  a = a
  b = b
  Pairs = {a, b}
  Capacity = 1
  Initially <- MCInitially
  Reorgs = 1
  Events = 2
INVARIANTS MonitorsSound
PROPERTIES GateHolds AuditAfterReplay ReplayEnds WaitersAnswered PlacesServed
CHECK_DEADLOCK FALSE
