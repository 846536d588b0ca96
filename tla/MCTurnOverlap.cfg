CONSTANTS
    MaxPosts = 2
    MaxRestarts = 0
SPECIFICATION Spec
INVARIANTS
    OneLiveTurn
CHECK_DEADLOCK FALSE
