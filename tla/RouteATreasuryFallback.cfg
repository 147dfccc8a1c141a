SPECIFICATION Spec
CONSTANTS
    Orders = {o1}
    Workers = {w1}
    Nil = Nil
    LeaseHolds = TRUE
    MaxCrashes = 0
    GatewayIds = {1, 2}
    Refs = {1, 2}
    Banks = {k, f}
    DefaultRail = k
    MaxFaults = 0
    MaxAttempts = 1
    SampledFully = 1
    MaxLosses = 0
    MaxUnheard = 0
INVARIANT SettledMeansPaid
CHECK_DEADLOCK FALSE
