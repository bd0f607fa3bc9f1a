SPECIFICATION BookSpec
CONSTANTS
    c1 = c1
    c2 = c2
    k1 = k1
    u1 = 1
    Requests = {c1}
    Keys = {k1}
    Actuals = {1}
    MaxFaults = 0
    KindsAsked = {"buffered", "generate"}
    MeteredAsked = {TRUE, FALSE}
    Asks <- MCAsks
    Users = {1}
    Purchases = {}
    Pack = 5
    LastDay = 0
    MaxTop = 1
    MaxSpan = 1
    DailyLimit = 1
INVARIANTS
    EachRequestOnce
