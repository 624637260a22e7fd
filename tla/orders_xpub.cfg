\* Derived deposit addresses; and development, where a timer confirms.
SPECIFICATION Spec
CONSTANTS
    u1 = u1
    monthly = monthly
    r1 = r1
    r2 = r2
    OrderIds <- MCOrders2
    Users = {u1}
    Plans = {monthly}
    Price <- MCPrice
    Requests = {r1, r2}
    MaxPending = 1
    ExpireAfter = 2
    Grace = 1
    TailModulus = 10000
    ScanLimit = 50
    FetchLimit = 50
    Configs <- MCXpubOrDev
    MaxTime = 3
    MaxIndex = 3
    MaxTransfers = 1
    Amounts = {9, 10}
SYMMETRY RequestSymmetry
INVARIANTS
    TypeOK
    DepositIndexUnique
    PaidIsBacked
