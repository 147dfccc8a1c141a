SPECIFICATION FairSpec
CONSTANTS
    o1 = o1
    whole = whole
    part = part
    Orders <- MCOrders
    Coins <- MCCoins
    For <- MCFor
    Full <- MCFull
    Passes = {p1, p2}
    MaxFaults = 1
    Nil = Nil
INVARIANTS
    TypeOK
    RecordsAreTrue
PROPERTIES
    ForwardedComesHome
    DetectedIsForwarded
    ForwardIsFinal
CHECK_DEADLOCK FALSE
