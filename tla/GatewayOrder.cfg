SPECIFICATION Spec
CONSTANTS
    Orders = {o1}
    Coins = {usdc}
    Parties = {aggregator}
    Treasuries = {t1, t2}
    Amounts = {0, 1, 3, 5, 6}
    Fees = {0, 1, 2}
    BpsArgs = {0, 1, 2, 4, 5}
    MAX_BPS = 4
    MaxU64 = 20
INVARIANTS
    TypeOK
PROPERTIES
    FullPercentCloses
    ImplementsVault
