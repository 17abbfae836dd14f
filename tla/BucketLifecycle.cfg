SPECIFICATION FairSpec
CONSTANTS
  t1 = t1
  t2 = t2
  nobody = nobody
  Nobody = nobody
  NrBuckets = 2
  Slots = 1
  Generations = {}
  Thread = {t1, t2}
  MaxOps = 2
  MaxQueue = 2
  AfterCrash = 1
  MaxCrash = 2
INVARIANTS TreesConsistent WorkAccounted 
PROPERTIES WorkerReturns
CHECK_DEADLOCK FALSE
