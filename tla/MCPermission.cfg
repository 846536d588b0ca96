CONSTANTS
    r1 = r1
    r2 = r2
    r3 = r3
    s1 = s1
    s2 = s2
    Requests = {r1, r3}
    ServiceRequests = {r3}
    Sessions = {s1}
    sessionOf <- CallAndServiceTool
    Calls <- EveryCall
    PresetKinds = {"file_edit", "web_access"}
    MaxProceeds = 1
    MaxFrames = 1
    ReuseIds = FALSE
    Again = TRUE
SPECIFICATION LiveSpec
INVARIANTS
    GateInv
    ServiceToolHonest
PROPERTIES
    ImplementsContract
    TerminalIsFrozen
    ServiceToolEnds
    NoStrand
