\* Three listeners and three recoveries, every nested run awaited.
SPECIFICATION FairSpec
CONSTANTS
  l1 = l1  l2 = l2  l3 = l3  r1 = r1  r2 = r2  r3 = r3
  Listeners <- MCListeners
  Recoveries <- MCRecoveries
  Detaching = {}
INVARIANTS BarrierSound
PROPERTIES AdmissionOrder RecoveryServed
