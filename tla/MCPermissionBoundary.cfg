CONSTANTS
    r1 = r1
    r2 = r2
    r3 = r3
    s1 = s1
    s2 = s2
    Requests = {r1, r2}
    ServiceRequests = {}
    Sessions = {s1, s2}
    sessionOf <- TwoCallsTwoSessions
    Calls <- RepresentativeCalls
    PresetKinds = {"file_edit"}
    MaxProceeds = 1
    MaxFrames = 1
    ReuseIds = FALSE
    Again = FALSE
SPECIFICATION Spec
INVARIANTS
    BoundaryInv
    PresetHolds
PROPERTIES
    ImplementsContract
