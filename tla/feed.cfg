\* A forced order and an RSS source, an ingest in a loop and one by hand.
SPECIFICATION FairSpec
CONSTANTS
    liq = liq
    news = news
    Liquidations = {liq}
    Feeds <- MCFeeds
    Ingesters = {"loop", "manual"}
    Copies = 2
    PageSize = 1
    PollEvery = 1
    Lookback = 1
    MaxArrivals = 2
    MaxTime = 2
INVARIANTS
    TypeOK
    RefusalsOverlapped
    LossIsExplained
PROPERTIES
    WorkerReturns
