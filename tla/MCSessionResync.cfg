CONSTANTS
    MaxBatch = 3
    MaxActivity = 3
    MaxEnds = 1
    MaxInterrupts = 0
    MaxContinues = 0
    MaxDrops = 1
    MaxLosses = 0
    ClientFirst = TRUE
SPECIFICATION Spec
INVARIANTS
    EachTokenOnce
CHECK_DEADLOCK FALSE
