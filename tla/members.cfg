\* The watcher activates and sweeps, one after another, undisturbed or with crashes
\* and an administrator beside it.
SPECIFICATION PartSpec
CONSTANTS
    ann = ann
    bob = bob
    OrderIds <- MCOrders
    Users = {ann, bob}
    Owner <- MCOwner
    Duration <- MCDuration
    Configs <- MCConfigs
    MaxTime = 3
    Requests = {r1, r2, r3}
    Posts <- MCPosts
    ChainIds = {first, second}
    Limit = 2
    Window = 2
    MaxAsked = 7
    MaxRestarts = 1
    ClientMaxTime = 5
    Keys = {chart}
    BriefRequests = {r1, r2}
    Readings <- MCReadings
    Radius = 1
    MaxLevels = 3
    Inputs <- MCInputs
    r1 = r1
    r2 = r2
    r3 = r3
    first = first
    second = second
    chart = chart
    None = None
    NoLevel = NoLevel
INVARIANTS
    MembersTypeOK
    RunningKeepsRole
    PrimaryIsRole
    PassedIsLimited
    ColourIsEarned
    LevelsAreReal
PROPERTIES
    KeepsEntitlements
    DowngradedUndisturbed
    OrderSaysOnePost
    LightsChain
CHECK_DEADLOCK FALSE
