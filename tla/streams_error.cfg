\* An upstream that errs is never reconnected.
SPECIFICATION FairSpec
CONSTANTS
    c1 = c1
    c2 = c2
    kline = kline
    trade = trade
    bad = bad
    s1 = s1
    s2 = s2
    Clients = {c1, c2}
    Streams = {kline, trade}
    Unparsable = {}
    SubIds = {s1, s2}
    Entries <- MCEntries
    MaxAttempts = 2
    CanError = TRUE
PROPERTIES
    Reconnects
