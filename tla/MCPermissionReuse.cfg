CONSTANTS
    r1 = r1
    r2 = r2
    r3 = r3
    s1 = s1
    s2 = s2
    Requests = {r1}
    ServiceRequests = {}
    Sessions = {s1}
    sessionOf <- OneCall
    Calls <- RepresentativeCalls
    PresetKinds = {"command_exec"}
    MaxProceeds = 1
    MaxFrames = 1
    ReuseIds = TRUE
    Again = FALSE
SPECIFICATION LiveSpec
PROPERTIES
    NoStrand
