CONSTANTS
    MaxBatch = 2
    MaxActivity = 1
    MaxEnds = 1
    MaxInterrupts = 0
    MaxContinues = 0
    MaxDrops = 0
    MaxLosses = 0
    ClientFirst = TRUE
SPECIFICATION Spec
PROPERTIES
    LateTextIsKept
CHECK_DEADLOCK FALSE
