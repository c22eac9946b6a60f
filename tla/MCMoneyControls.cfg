SPECIFICATION FairControlsSpec
CONSTANTS
    a1 = a1
    platform = platform
    m1 = m1
    c1 = c1
    s1 = s1
    s2 = s2
    p1 = p1
    v1 = v1
    v2 = v2
    r1 = r1
    Account = {a1, platform}
    System = System
    Key <- Keys
    HoldId = {c1, p1, s1, s2, v1, v2}
    Amount = {1, 2, 3, 4}
    Overdraft = {0}
    SystemOverdraft = 100
    TargetState = {}
    Merchant = {m1}
    AccountOf <- Accounts
    TransferKey = {c1, p1, s1, s2, v1, v2}
    Rail = {"card", "instant"}
    Source <- Sources
    ApiRequest <- Requests
    Caller = {h1}
    Instance = {i1, i2}
    PlatformFees = platform
    Rules <- AllRules
    FeeKey <- FeeOf
    ReserveBps <- Reserves
    MaxCycle = 2
    SettlementKey <- Settling
    ReserveKey <- Reserving
    ReversalKey = {r1}
    MaxRequests = 2
    MaxFailures = 1
INVARIANTS
    FeesArePosted
    CyclesAddUp
    PaidOutIsSettled
PROPERTIES
    CollectedIsSettled
    ReserveIsReleased
CHECK_DEADLOCK FALSE
