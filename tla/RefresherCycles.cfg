SPECIFICATION FairSpec
CONSTANTS
    Requests = {r1, r2}
    Ticker = ticker
    Cycles = {c1, c2}
    Feeds = {f1, f2, f3}
    NoFeed = nofeed
    Concurrency = 2
CHECK_DEADLOCK FALSE
INVARIANTS
    RefresherInv
    StopIsFinal
PROPERTIES
    ImplementsService
    StopReturns
    KeepsPolling
    EveryFeedPolled
