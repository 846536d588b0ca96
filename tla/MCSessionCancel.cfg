CONSTANTS
    MaxBatch = 2
    MaxActivity = 2
    MaxEnds = 1
    MaxInterrupts = 1
    MaxContinues = 0
    MaxDrops = 0
    MaxLosses = 0
    ClientFirst = TRUE
SPECIFICATION Spec
INVARIANTS
    SnapshotIsCurrent
CHECK_DEADLOCK FALSE
