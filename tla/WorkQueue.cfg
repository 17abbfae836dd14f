SPECIFICATION Spec
CONSTANTS
  c1 = c1
  c2 = c2
  worker = worker
  w1 = w1
  w2 = w2
  nowork = nowork
  nobody = nobody
  Client = {c1, c2}
  Worker = worker
  Work = {w1, w2}
  NoWork = nowork
  Nobody = nobody
  Operations = {"queue", "flush", "cancel", "drain", "destroy"}
  MaxOps = 3
SYMMETRY Symmetry
INVARIANTS ItemsAccounted DestroyedEmpty
CHECK_DEADLOCK FALSE
