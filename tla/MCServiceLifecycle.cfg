CONSTANTS
    Sups = {1, 2, 3}
    MaxStarts = 1
    Slow = FALSE
    Clients = {c1, c2}
    MaxAttempts = 2
    MaxReconnects = 2
SPECIFICATION LifecycleLiveSpec
CHECK_DEADLOCK FALSE
INVARIANTS
    LifecycleInv
    BootstrapIsHonest
PROPERTIES
    TeardownOrder
    CallsAnswer
