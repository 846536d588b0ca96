CONSTANTS
    Sources = {s1}
    NumPaths = 1
    Files = {1}
    Workers = {w1}
    Reqs = {q1}
    QueueCap = 1
    ErrCap = 1
    MaxJobs = 2
    MaxVersion = 2
    MaxCrashes = 0
SPECIFICATION Spec
INVARIANTS
    OldChunksCanBeDeleted
CHECK_DEADLOCK FALSE
