SPECIFICATION Spec
CONSTANTS
    Orders = {o1, o2}
    Workers = {w1}
    Nil = Nil
    LeaseHolds = TRUE
    MaxCrashes = 0
    GatewayIds = {}
    CctpEligible = {o1, o2}
    BridgeFallbackAfter = 1
    MaxQuoteRetries = 2
    Float = 0
INVARIANT OwnDepositFirst
