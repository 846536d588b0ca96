CONSTANTS
    NumBranches = 2
    Concurrencies = {1, 2}
    MaxTurns = 2
    Modes = {"run_once", "retry_until_verified", "scheduled"}
    MaxFaults = 1
SPECIFICATION LiveSpec
INVARIANTS
    DispatchInv
    HonestOutcome
PROPERTIES
    AbortOpensNothing
    RunEnds
CHECK_DEADLOCK FALSE
