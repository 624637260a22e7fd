\* Overdue orders resolve and transfers are found, after any failures.
SPECIFICATION RecoverySpec
CONSTANTS
    u1 = u1
    monthly = monthly
    r1 = r1
    r2 = r2
    OrderIds <- MCOrders2
    Users = {u1}
    Plans = {monthly}
    Price <- MCPrice
    Requests = {r1}
    MaxPending = 2
    ExpireAfter = 1
    Grace = 0
    TailModulus = 2
    ScanLimit = 50
    FetchLimit = 50
    Configs <- MCTreasury
    MaxTime = 1
    MaxIndex = 3
    MaxTransfers = 2
    Amounts = {10, 11}
INVARIANTS
    NotifyAtMostOnce
PROPERTIES
    OverdueResolves
    PaymentDetected
    KeepsLedger
