CONSTANTS
    MaxBatch = 2
    MaxActivity = 2
    MaxEnds = 1
    MaxInterrupts = 0
    MaxContinues = 2
    MaxDrops = 0
    MaxLosses = 0
    ClientFirst = TRUE
SPECIFICATION Spec
PROPERTIES
    LiveTaskIsKept
CHECK_DEADLOCK FALSE
