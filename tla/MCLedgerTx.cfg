SPECIFICATION TxSpec
CONSTANTS
    a1 = a1
    a2 = a2
    k1 = k1
    k2 = k2
    h1 = h1
    Account = {a1, a2}
    System = System
    Key = {k1, k2}
    HoldId = {h1}
    Amount = {1, 2}
    Overdraft = {2}
    SystemOverdraft = 100
    TargetState = {"frozen"}
    Caller = {p, q}
    Calls <- MixedCalls
    PoolSize = 2
INVARIANTS
    AnswersMatchBooks
PROPERTIES
    ImplementsLedger
    CallsReturn
CHECK_DEADLOCK FALSE
