CONSTANTS
    MaxBatch = 2
    MaxActivity = 3
    MaxEnds = 2
    MaxInterrupts = 0
    MaxContinues = 0
    MaxDrops = 0
    MaxLosses = 1
    ClientFirst = TRUE
SPECIFICATION Spec
INVARIANTS
    StreamInv
    EndIsComplete
CHECK_DEADLOCK FALSE
