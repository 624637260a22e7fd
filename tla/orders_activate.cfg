\* A confirmed order is paid when it is handed to activateFromOrder.
SPECIFICATION Spec
CONSTANTS
    u1 = u1
    monthly = monthly
    r1 = r1
    r2 = r2
    OrderIds <- MCOrders1
    Users = {u1}
    Plans = {monthly}
    Price <- MCPrice
    Requests = {r1}
    MaxPending = 1
    ExpireAfter = 2
    Grace = 1
    TailModulus = 10000
    ScanLimit = 50
    FetchLimit = 50
    Configs <- MCXpubVip
    MaxTime = 3
    MaxIndex = 3
    MaxTransfers = 1
    Amounts = {10}
INVARIANTS
    PaidOrderActivates
