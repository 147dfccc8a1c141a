SPECIFICATION Spec
CONSTANTS
    Orders = {o1}
    Lps = {l1}
    Workers = {w1, w2}
    Nil = Nil
    Deposits = {d1}
    Withdrawals = {x1}
    Target = 1
    Amounts = {2}
    Attempts = {1, 2}
    Float = 1
    Banks = {k}
    DefaultRail = k
    MaxSwitches = 0
    MaxFaults = 1
    MaxDisowned = 1
INVARIANTS TypeOK DepositsCover PaidOnce DeliveredOnce FillIsExchange
PROPERTY ImplementsLedger
CHECK_DEADLOCK FALSE
