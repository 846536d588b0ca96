CONSTANTS
    r1 = r1
    r2 = r2
    s1 = s1
    s2 = s2
    Requests <- MCRequests
    Sessions <- MCSessions
    sessionOf <- MCSessionOf
    MaxProceeds = 2
SPECIFICATION GateLiveSpec
INVARIANTS
    GateInv
    AuditedOnce
    MutationNeedsAllow
PROPERTIES
    DecisionIsFinal
    TerminalIsFrozen
    EveryRequestDecided
