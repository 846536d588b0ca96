CONSTANTS
    Sources = {s1}
    NumPaths = 2
    Files = {1, 2}
    Workers = {w1}
    Reqs = {q1}
    QueueCap = 1
    ErrCap = 1
    MaxJobs = 2
    MaxVersion = 1
    MaxCrashes = 0
SPECIFICATION Spec
PROPERTIES
    ReadableIsKept
CHECK_DEADLOCK FALSE
