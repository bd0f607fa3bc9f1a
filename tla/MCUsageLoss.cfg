SPECIFICATION FairSpec
CONSTANTS
    u1 = u1
    r1 = r1
    r2 = r2
    s1 = s1
    p1 = p1
    g1 = g1
    Users = {u1}
    Reservations = {r1, r2}
    Settlements = {s1}
    Purchases = {p1}
    Reads = {}
    Amounts = {2}
    Actuals = {1, 3}
    LastDay = 1
    MaxLost = 1
    PlatformDailyLimit = 3
    PlatformCreditLimit = 5
    InitialCredits = 5
    MaxPurchasesPerDay = 1
    EnablePurchase = FALSE
INVARIANTS
    UserConservation
    Books
    BudgetWithinLimit
PROPERTIES
    BillIsFinal
    HandlersAnswer
