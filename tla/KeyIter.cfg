CONSTANTS
    Offsets = {1, 2}
    Ids = {1, 2, 3}
    Bitmap = 1
    Cuts = {0, 6}
    MaxRecords = 2
    MaxSnaps = 3
    MaxCommits = 2
    Ranges <- MCRanges
SPECIFICATION Spec
INVARIANTS CursorExact 
PROPERTIES ReplayStable RangeDeleted
CHECK_DEADLOCK FALSE
