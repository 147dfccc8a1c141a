SPECIFICATION FairSpec
CONSTANTS
    Orders = {o1}
    Workers = {w1, w2}
    Nil = Nil
    LeaseHolds = FALSE
    MaxCrashes = 1
    GatewayIds = {1, 2}
    MaxAttempts = 1
    SampledFully = 1
    MaxLosses = 1
    MaxUnheard = 1
INVARIANTS
    TypeOK
    OnePayout
    OutcomeIsTrue
    BridgedOwesAll
    CreatesAreCounted
PROPERTY FillIsFollowed
