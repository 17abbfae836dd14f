SPECIFICATION FairSpec
CONSTANTS
  c1 = c1
  c2 = c2
  c3 = c3
  worker = worker
  nobody = nobody
  Client = {c1, c2}
  Worker = worker
  Nobody = nobody
  MaxOps = 1
  MaxBumps = 1
INVARIANTS CompletedCovers LifetimeSafe
PROPERTIES CallsComplete
