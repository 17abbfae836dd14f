SPECIFICATION Spec
CONSTANTS
  MaxPos = 12
  Workloads <- MCWorkloads
  NodeU64s = 48
  Block = 6
  KeyU64s = 10
  PtrU64s = 11
  WhU64s = 5
  MaxOrder = 4
  FailAt = {1, 2, 3, 4}
  Reads = {2, 9}
  Pauses = {0, 1, 3, 4, 5, 6}
  MaxFlushes = 2
  AfterCrash = 2
  MaxFaults = 1
INVARIANTS  ContentExact  JournalCovers OpCompletes
CHECK_DEADLOCK FALSE
