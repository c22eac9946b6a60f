SPECIFICATION TransfersSpec
CONSTANTS
    a1 = a1
    a2 = a2
    k1 = k1
    k2 = k2
    s1 = s1
    ann = ann
    bob = bob
    Account = {a1, a2}
    System = System
    Key <- Keys
    HoldId = {h1, h2}
    Amount = {1}
    Overdraft = {0, 5}
    SystemOverdraft = 100
    TargetState = {}
    Identity = {ann, bob}
    OwnerOf <- Owners
    MaxSingle = 1
    MaxDaily = 2
    KillSwitch = TRUE
    MaxTime = 1
    Instance = {i}
    Schedule = {s1}
    ScheduleRequest <- Orders
    Handler = {c}
    SendRequest <- OneSend
    LargeAmount = 2
    Window = 1
    ReleaseBatch = 2
    MaxRequests = 2
    MaxFailures = 1
    MaxRestarts = 1
INVARIANTS
    CompletedMoved
    NoOccurrenceSkipped
PROPERTIES
    ClaimsEnd
    DueIsRun
CHECK_DEADLOCK FALSE
