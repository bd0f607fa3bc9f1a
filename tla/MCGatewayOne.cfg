SPECIFICATION FairSpec
CONSTANTS
    c1 = c1
    k1 = k1
    Requests = {c1}
    Keys = {k1}
    Actuals = {0, 1, 3}
    MaxFaults = 2
    KindsAsked = {"stream", "buffered", "generate"}
    MeteredAsked = {TRUE, FALSE}
    Asks <- MCAsks
INVARIANTS
    TypeOK
    OutputIsPaid
    HangUpSettles
    ToldIsBilled
    EndIsMarked
PROPERTIES
    HoldSettles
    HandlersEnd
