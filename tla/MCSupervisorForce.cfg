CONSTANTS
    Sups = {opencode}
    MaxStarts = 1
    Slow = TRUE
SPECIFICATION CallerSpec
INVARIANTS
    StopForces
