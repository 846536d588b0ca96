CONSTANTS
    MaxPosts = 2
    MaxRestarts = 0
SPECIFICATION Spec
CHECK_DEADLOCK FALSE
\* One at a time: TLC stops at the first that does not hold.
PROPERTY StaleTurnKeepsStatus
\* INVARIANT FailedTurnIsOver
