SPECIFICATION Spec
CONSTANTS
    t1 = t1
    t2 = t2
    t3 = t3
    Task = {t1, t2, t3}
    NoTask = NoTask
    StartTime <- SameTime
    InlineWaiters = 1
    Cancellers = {t1}
    WakeAllers = {}
    Relockers = {}
    MaxRefs = 1
    MaxSeq = 1
INVARIANTS MutualExclusion AssertsHold QueueConsistent
CHECK_DEADLOCK FALSE
