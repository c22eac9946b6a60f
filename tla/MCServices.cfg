SPECIFICATION ServicesSpec
CONSTANTS
    t1 = t1
    r1 = r1
    Transfer <- Transfers
    Charge = {t1}
    Payout = {}
    Misreported = {t1}
    Recurring = {r1}
    Instance = {i1, i2}
    Endpoint = {e1}
    MaxAttempts = 2
    MaxEvents = 3
    MaxHookChanges = 2
    MaxMatchFailures = 1
    MaxTime = 2
    MaxBillFailures = 2
    Session = {s1, s2}
    Request = {q1}
    Customer = {c1, c2}
    MaxRecoveryFailures = 1
    ApiKey = {k1, k2, k3}
    Rotator = {c1, c2}
    MaxKeyFailures = 1
INVARIANTS
    OneEventPerInstance
    AttemptsAreCounted
    LinesHaveGrounds
    NoBillSkipped
    RecoveryCutsOff
    RotationKeepsAKey
PROPERTIES
    OutcomeIsReported
    OutcomeIsReconciled
    BillsCatchUp
CHECK_DEADLOCK FALSE
