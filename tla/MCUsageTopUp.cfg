SPECIFICATION Spec
CONSTANTS
    u1 = u1
    u2 = u2
    r1 = r1
    p1 = p1
    p2 = p2
    g1 = g1
    Users = {u1, u2}
    Reservations = {r1}
    Settlements = {}
    Purchases = {p1, p2}
    Reads = {g1}
    Amounts = {2}
    Actuals = {1}
    LastDay = 1
    MaxLost = 1
    PlatformDailyLimit = 2
    PlatformCreditLimit = 4
    InitialCredits = 1
    MaxPurchasesPerDay = 1
    EnablePurchase = TRUE
SYMMETRY Symmetry
INVARIANTS
    UserConservation
    DailyCaps
