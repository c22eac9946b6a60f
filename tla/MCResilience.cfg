SPECIFICATION ResilienceSpec
CONSTANTS
    i1 = i1
    i2 = i2
    g1 = g1
    g2 = g2
    o1 = o1
    o2 = o2
    Server = {i1, i2}
    Mover = {g1, g2}
    Operator = {o1, o2}
    HomeOf <- Homes
    Scope = {transfer}
    MaxChanges = 2
    MaxReadErrors = 1
INVARIANTS OwnChangeIsVisible
PROPERTIES SwitchTakesEffect ChecksReturn
CHECK_DEADLOCK FALSE
