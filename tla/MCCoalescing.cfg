CONSTANTS
    MaxBatch = 3
    MaxEvents = 5
SPECIFICATION Spec
INVARIANTS
    CoalescingInv
    NothingLost
PROPERTIES
    TerminalLeaves
