SPECIFICATION Spec
CONSTANTS
    u1 = u1
    r1 = r1
    r2 = r2
    s1 = s1
    Users = {u1}
    Reservations = {r1, r2}
    Settlements = {s1}
    Purchases = {}
    Reads = {}
    Amounts = {2}
    Actuals = {1, 3}
    LastDay = 2
    MaxLost = 0
    PlatformDailyLimit = 2
    PlatformCreditLimit = 4
    InitialCredits = 2
    MaxPurchasesPerDay = 1
    EnablePurchase = TRUE
SYMMETRY Symmetry
INVARIANTS
    CommitNeedsBalance
