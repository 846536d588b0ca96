CONSTANTS
    MaxPosts = 2
    MaxRestarts = 1
SPECIFICATION LiveSpec
INVARIANTS
    TurnInv
PROPERTIES
    NoPhantomReply
    StaleEndKeepsStatus
    TurnIsRecorded
CHECK_DEADLOCK FALSE
