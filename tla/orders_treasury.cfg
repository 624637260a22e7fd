\* One treasury address for every order; the tails of the orders collide.
SPECIFICATION PartSpec
CONSTANTS
    u1 = u1
    monthly = monthly
    r1 = r1
    r2 = r2
    OrderIds <- MCOrders3
    Users = {u1}
    Plans = {monthly}
    Price <- MCPrice
    Requests = {r1, r2}
    MaxPending = 1
    ExpireAfter = 1
    Grace = 1
    TailModulus = 1
    ScanLimit = 50
    FetchLimit = 50
    Configs <- MCTreasury
    MaxTime = 1
    MaxIndex = 3
    MaxTransfers = 1
    Amounts = {10}
    AdminUsers = {ann, bob}
    AdminCalls <- MCAdminCalls
    Passwords = {secret1, secret2}
    CodeTtl = 1
    Cooldown = 1
    MaxCodes = 2
    CodesMaxTime = 2
    PairIds <- MCIds
    PairNames = {btc, eth, sol}
    PairBodies <- MCBodies
    ann = ann
    bob = bob
    Nobody = Nobody
    secret1 = secret1
    secret2 = secret2
    NoAccount = NoAccount
    btc = btc
    eth = eth
    sol = sol
    NoName = NoName
SYMMETRY RequestSymmetry
INVARIANTS
    ServicesTypeOK
    PaidTransfersDiffer
    PendingOvershootBounded
    LoneCodeLives
    DefaultsPerRequest
PROPERTIES
    LastAdminExplained
    LoneChangeHeals
    ReuseExplained
    LoneSetterWins
CHECK_DEADLOCK FALSE
