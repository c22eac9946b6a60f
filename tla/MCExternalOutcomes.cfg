SPECIFICATION PaySpec
CONSTANTS
    a1 = a1
    k1 = k1
    k2 = k2
    h1 = h1
    h2 = h2
    Account = {a1}
    System = System
    Key = {k1, k2}
    HoldId = {h1, h2}
    Amount = {1}
    Overdraft = {3}
    SystemOverdraft = 100
    TargetState = {}
    Handler = {c, d}
    Instance = {i}
    Investigator = {x}
    TransferRequest <- OneOfEachDirection
    Decisions = {"allow", "hold", "block"}
    OtherKey = {}
    ClaimBatch = 2
    MaxFailures = 0
    MaxRestarts = 0
INVARIANTS
    HoldsBelongToTransfers
PROPERTIES
    ProcessingEnds
    ExecutedIsBooked
CHECK_DEADLOCK FALSE
