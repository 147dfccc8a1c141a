SPECIFICATION Spec
CONSTANTS
    Orders = {o1}
    Lps = {l1, l2}
    Workers = {w1}
    Nil = Nil
    Deposits = {d1, d2}
    Withdrawals = {}
    Target = 2
    Amounts = {2}
    Attempts = {1, 2}
    Float = 0
    Banks = {k}
    DefaultRail = k
    MaxSwitches = 0
    MaxFaults = 0
    MaxDisowned = 1
INVARIANT NeverPaidTwice
CHECK_DEADLOCK FALSE
