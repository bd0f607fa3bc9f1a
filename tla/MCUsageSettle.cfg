SPECIFICATION Spec
CONSTANTS
    u1 = u1
    r1 = r1
    r2 = r2
    s1 = s1
    s2 = s2
    Users = {u1}
    Reservations = {r1, r2}
    Settlements = {s1, s2}
    Purchases = {}
    Reads = {}
    Amounts = {2}
    Actuals = {1, 3}
    LastDay = 2
    MaxLost = 0
    PlatformDailyLimit = 2
    PlatformCreditLimit = 4
    InitialCredits = 3
    MaxPurchasesPerDay = 1
    EnablePurchase = TRUE
SYMMETRY Symmetry
INVARIANTS
    TypeOK
    PlatformConservation
    Books
    DebtIsOverage
    OneOutcome
PROPERTIES
    HoldsKeepTheirPromise
