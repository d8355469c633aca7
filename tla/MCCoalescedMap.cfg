SPECIFICATION FairSpec
CONSTANTS
  Task = {t1, t2, t3}
  Key = {k1}
  MaxChan = 3
INVARIANTS
  SingleInitializer
  WaiterHasSource
  StaleOnlyIfDisplaced
PROPERTIES
  ImplementsAtomicMap
  WaitersAnswered
