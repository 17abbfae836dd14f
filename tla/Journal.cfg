SPECIFICATION Spec
CONSTANTS
  n1 = n1
  n2 = n2
  Node = {n1, n2}
  NrBuckets = 4
  BucketSize = 4
  HeaderSize = 1
  RootSize = 1
  TxnSize = 1
  MaxCrash = 1
  Reorder = FALSE
  Scenarios <- MCScenarios
SYMMETRY Symmetry
INVARIANTS RecoverOk Durability WindowCovers ReclaimFreesSpace CheckpointReleases
CHECK_DEADLOCK FALSE
