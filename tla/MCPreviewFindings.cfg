CONSTANTS
    Requests = {p1, p2}
    Ops = {o1}
    MaxWorkspaces = 2
    MaxLaunches = 2
SPECIFICATION LiveSpec
CHECK_DEADLOCK FALSE
\* One at a time: TLC stops at the first that does not hold.
INVARIANT OnePreview
\* INVARIANT NoOrphan
\* INVARIANT RunsWhereAllowed
\* PROPERTY EveryStartSettles
