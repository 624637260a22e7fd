\* Subscribers share, join and leave two streams; the upstream closes and errs.
SPECIFICATION FairSpec
CONSTANTS
    c1 = c1
    c2 = c2
    kline = kline
    trade = trade
    bad = bad
    s1 = s1
    s2 = s2
    Clients = {c1, c2}
    Streams = {kline, trade, bad}
    Unparsable = {bad}
    SubIds = {s1, s2}
    Entries <- MCEntries
    MaxAttempts = 1
    CanError = TRUE
INVARIANTS
    TypeOK
    HandlersAreSubscriptions
    NoOrphanUpstream
PROPERTIES
    SilentIsCleaned
    CloseReconnects
