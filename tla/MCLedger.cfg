SPECIFICATION MCSpec
CONSTANTS
    c1 = c1
    c2 = c2
    k1 = k1
    k2 = k2
    u1 = 1
    p1 = p1
    Requests = {c1, c2}
    Keys = {k1, k2}
    Actuals = {0, 1}
    MaxFaults = 0
    KindsAsked = {"buffered", "generate"}
    MeteredAsked = {TRUE, FALSE}
    Asks <- MCAsks
    Users = {1, 2}
    Purchases = {p1}
    Pack = 5
    LastDay = 1
    MaxTop = 2
    MaxSpan = 2
    DailyLimit = 2
INVARIANTS
    BookTypeOK
    ReportsAgree
    QuietReportIsExact
    ReportIsLowerBound
    PurchasesAreReal
    LedgerIsLowerBound
