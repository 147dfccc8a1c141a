SPECIFICATION Spec
CONSTANTS
    Taps = {t1, t2}
    Handlers = {h1, h2}
    MaxAttempts = 1
    Funds = 2
    MaxFaults = 1
    MaxResets = 2
    Nil = Nil
SYMMETRY Renamings
INVARIANTS
    TypeOK
    ChargedOnce
    TokenPaysOnce
    PinBudget
    ChipIsTracked
CHECK_DEADLOCK FALSE
