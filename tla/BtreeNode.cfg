SPECIFICATION Spec
CONSTANTS
  Positions = {1, 2, 3}
  NodeBlocks = 3
  Block = 3
  MaxBsets = 3
  BigSet = 0
  RoomLeft = 1
  MidSize = 1
  LazyDead = 0
  MaxUpdates = 3
  MaxFails = 1
INVARIANTS LookupExact PathFollows NodeSound 
CHECK_DEADLOCK FALSE
