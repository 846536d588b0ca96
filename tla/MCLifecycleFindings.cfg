CONSTANTS
    Sups = {1, 2, 3}
    MaxStarts = 1
    Slow = FALSE
    Clients = {c1, c2}
    MaxAttempts = 2
    MaxReconnects = 2
SPECIFICATION LifecycleSpec
CHECK_DEADLOCK FALSE
\* One at a time: TLC stops at the first that does not hold.
INVARIANT QuitLeavesNothing
\* INVARIANT StoppedIsDown
\* INVARIANT RunningHasProxy
\* INVARIANT RunningReads
