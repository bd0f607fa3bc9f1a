SPECIFICATION MCSpec
CONSTANTS
    u1 = u1
    u2 = u2
    r1 = r1
    r2 = r2
    r3 = r3
    NoUser = NoUser
    Calls = {r1, r2, r3}
    Users = {u1, u2}
    Admins = {u2}
    Keys <- MCKeys
    Limiter <- MCLimiter
    Period <- MCPeriod
    Minute = 2
    Idle = 3
    MaxWait = 1
    Horizon = 4
    Asks <- MCAsks
    maxOutputTokens = 8
    maxInput = 8
    tokensPerCredit = 4
INVARIANTS
    TypeOK
    OneClientForAll
    IdentityIsProven
    RevocationIsImmediate
    HandedOnIsCovered
PROPERTIES
    BucketsAreKept
    RequestsEnd
