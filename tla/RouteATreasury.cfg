SPECIFICATION FairSpec
CONSTANTS
    Orders = {o1}
    Workers = {w1}
    Nil = Nil
    LeaseHolds = TRUE
    MaxCrashes = 1
    GatewayIds = {1, 2}
    Refs = {1, 2}
    Banks = {k, f}
    DefaultRail = k
    MaxFaults = 1
    MaxAttempts = 1
    SampledFully = 1
    MaxLosses = 0
    MaxUnheard = 1
INVARIANTS
    TypeOK
    PaidOnce
    SettledIsPaid
    ReloadedOnce
PROPERTY PayoutIsFollowed
CHECK_DEADLOCK FALSE
