SPECIFICATION Spec
CONSTANTS
    a1 = a1
    a2 = a2
    k1 = k1
    k2 = k2
    k3 = k3
    k4 = k4
    h1 = h1
    h2 = h2
    Account = {a1, a2}
    System = System
    Key = {k1, k2, k3}
    HoldId = {h1, h2}
    Amount = {1, 2}
    Overdraft = {0, 2}
    SystemOverdraft = 100
    TargetState = {"closed", "open"}
SYMMETRY Symmetric
PROPERTY
    HistoryIsAppendOnly
INVARIANTS
    TypeOK
    AvailableWithinOverdraft
    BooksBalance
    CapturedExactlyOnce
    ReversedExactlyOnce
CHECK_DEADLOCK FALSE
