SPECIFICATION Spec
CONSTANTS
    Cards = {c1}
    Users = {alice, bob}
    Amounts = {0, 1, 2, 4}
    Limits = {0, 1, 2, 3}
    MaxDay = 3
    MaxFunded = 6
    MaxU64 = 5
INVARIANTS
    TypeOK
    CounterIsExact
    DayWithinItsLimit
PROPERTY ImplementsVault
CHECK_DEADLOCK FALSE
