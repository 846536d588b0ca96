CONSTANTS
    MaxBatch = 2
    MaxActivity = 2
    MaxEnds = 2
    MaxInterrupts = 0
    MaxContinues = 1
    MaxDrops = 0
    MaxLosses = 0
    ClientFirst = TRUE
SPECIFICATION Spec
PROPERTIES
    LiveFrameCounts
CHECK_DEADLOCK FALSE
