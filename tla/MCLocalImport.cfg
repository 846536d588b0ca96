CONSTANTS
    Sources = {s1}
    NumPaths = 2
    Files = {2}
    Workers = {w1}
    Reqs = {q1, q2}
    QueueCap = 1
    ErrCap = 1
    MaxJobs = 2
    MaxVersion = 2
    MaxCrashes = 1
SPECIFICATION LiveSpec
INVARIANTS
    ImportInv
    StaleIsDetected
PROPERTIES
    JobsMove
CHECK_DEADLOCK FALSE
