SPECIFICATION DeskSpec
CONSTANTS
    a1 = a1
    d1 = d1
    p1 = p1
    p2 = p2
    s1 = s1
    s2 = s2
    r1 = r1
    Account = {a1}
    System = System
    Key = {s1, s2, r1}
    HoldId = {h1, h2}
    Amount = {1, 2}
    Overdraft = {5}
    SystemOverdraft = 100
    TargetState = {}
    Card = {d1}
    AccountOf <- Issued
    Caller = {c1, c2}
    AuthKey = {p1, p2}
    SettleKey <- Settling
    ChargebackKey = {r1}
    Purchase <- Purchases
    Limits <- AllLimits
    DefaultLimits <- Roomy
    Threshold = 2
    Dispute = {q1}
    Investigator = {i1, i2}
    MaxRequests = 5
    MaxControls = 2
    MaxFailures = 1
INVARIANTS
    SettledIsDebited
    ApprovedIsReserved
    TimelineExplainsStatus
CHECK_DEADLOCK FALSE
