CONSTANTS
    Sources = {s1}
    NumPaths = 1
    Files = {1}
    Workers = {w1}
    Reqs = {q1}
    QueueCap = 1
    ErrCap = 1
    MaxJobs = 1
    MaxVersion = 1
    MaxCrashes = 1
SPECIFICATION LiveSpec
PROPERTIES
    QueuedIsServed
CHECK_DEADLOCK FALSE
