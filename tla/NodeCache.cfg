SPECIFICATION Spec
CONSTANTS
    Elasticity = 2
    MinSize = 4
    Seeds <- MCSeeds
    Node <- MCNode
    Key <- MCKey
    OnDisk = {2, 3}
    MaxOps = 5
    MaxFaults = 1
INVARIANTS CacheSound OneCopy HintsExact 
CHECK_DEADLOCK FALSE
