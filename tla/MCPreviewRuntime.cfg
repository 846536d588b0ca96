CONSTANTS
    Requests = {p1}
    Ops = {o1, o2}
    MaxWorkspaces = 2
    MaxLaunches = 2
SPECIFICATION LiveSpec
INVARIANTS
    PreviewInv
    StaysInWorkspace
PROPERTIES
    StartSettles
CHECK_DEADLOCK FALSE
