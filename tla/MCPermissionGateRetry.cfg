CONSTANTS
    r1 = r1
    r2 = r2
    s1 = s1
    s2 = s2
    Requests = {r1}
    Sessions = {s1}
    sessionOf <- MCSessionOfOne
    MaxProceeds = 1
SPECIFICATION GateRetrySpec
PROPERTIES
    RetryReachesRuntime
