SPECIFICATION Spec
CONSTANTS
    t1 = t1
    t2 = t2
    t3 = t3
    Task = {t1, t2}
    NoTask = NoTask
    StartTime <- SameTime
    InlineWaiters = 1
    Cancellers = {t1}
    WakeAllers = {t2}
    Relockers = {t2}
    MaxRefs = 2
    MaxSeq = 2
PROPERTIES RelockSound
CHECK_DEADLOCK FALSE
