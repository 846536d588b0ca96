CONSTANTS
    MaxBatch = 2
    MaxActivity = 2
    MaxEnds = 1
    MaxInterrupts = 1
    MaxContinues = 1
    MaxDrops = 1
    MaxLosses = 0
    ClientFirst = FALSE
SPECIFICATION LiveSpec
INVARIANTS
    RunIsOwned
    NoDoubleCount
PROPERTIES
    OutcomeIsFinal
    ClientLearnsTheEnd
CHECK_DEADLOCK FALSE
