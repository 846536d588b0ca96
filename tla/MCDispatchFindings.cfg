CONSTANTS
    NumBranches = 1
    Concurrencies = {1}
    MaxTurns = 1
    Modes = {"run_once", "scheduled"}
    MaxFaults = 1
SPECIFICATION Spec
CHECK_DEADLOCK FALSE
\* One at a time: TLC stops at the first that does not hold.
INVARIANT CancelWins
\* INVARIANT RunningIsBound
\* INVARIANT NothingRunsOn
\* INVARIANT EvidenceIsRequired
