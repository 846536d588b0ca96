CONSTANTS
    postgres = postgres
    neo4j = neo4j
    llmSvc = llmSvc
    backend = backend
    Sups <- MCSups
    Leaves <- MCLeaves
    Backend = backend
    MaxStarts = 1
    Slow = FALSE
SPECIFICATION Spec
INVARIANTS
    BackendComesLast
PROPERTIES
    BackendGoesFirst
    StackSettles
CHECK_DEADLOCK FALSE
