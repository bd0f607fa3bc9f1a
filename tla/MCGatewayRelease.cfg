SPECIFICATION Spec
CONSTANTS
    c1 = c1
    k1 = k1
    Requests = {c1}
    Keys = {k1}
    Actuals = {1, 3}
    MaxFaults = 0
    KindsAsked = {"generate"}
    MeteredAsked = {TRUE, FALSE}
    Asks <- MCAsks
INVARIANTS
    FailureIsReleased
