SPECIFICATION PaySpec
CONSTANTS
    a1 = a1
    k1 = k1
    k2 = k2
    h1 = h1
    h2 = h2
    Account = {a1}
    System = System
    Key = {k1, k2}
    HoldId = {h1, h2}
    Amount = {1}
    Overdraft = {3}
    SystemOverdraft = 100
    TargetState = {}
    Handler = {c}
    Instance = {i}
    Investigator = {x}
    TransferRequest <- OneInbound
    Decisions = {"block"}
    OtherKey = {}
    ClaimBatch = 2
    MaxFailures = 0
    MaxRestarts = 1
INVARIANT
    GateHolds
CHECK_DEADLOCK FALSE
