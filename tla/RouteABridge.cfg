SPECIFICATION FairSpec
CONSTANTS
    Orders = {o1}
    Workers = {w1, w2}
    Nil = Nil
    LeaseHolds = FALSE
    MaxCrashes = 1
    GatewayIds = {}
    CctpEligible = {o1}
    BridgeFallbackAfter = 1
    MaxQuoteRetries = 2
    Float = 1
INVARIANTS
    TypeOK
    BurnOnce
    BridgedIsDelivered
PROPERTIES
    EndsStay
    ChasedToTheEnd
