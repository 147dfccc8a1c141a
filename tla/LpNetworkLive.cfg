SPECIFICATION Spec
CONSTANTS
    Orders = {o1}
    Lps = {l1}
    Workers = {w1, w2}
    Nil = Nil
    Deposits = {d1}
    Withdrawals = {}
    Target = 1
    Amounts = {2}
    Attempts = {1, 2}
    Float = 0
    Banks = {k, f}
    DefaultRail = k
    MaxSwitches = 1
    MaxFaults = 1
    MaxDisowned = 1
PROPERTY PaidIsFinished
CHECK_DEADLOCK FALSE
