SPECIFICATION FairSpec
CHECK_DEADLOCK FALSE
CONSTANTS
    w1 = w1
    w2 = w2
    o1 = o1
    o2 = o2
    Workers <- TwoWorkers
    Orders <- TwoOrders
    Stamp <- Stamps
    Jobs = {1, 2}
    Channels = 2
    Limit = 1
    Stale = 1
    Overlap = 1
    Lookback = 2
    Lateness = 1
    MinPrevious = 2
    RatioNum = 1
    RatioDen = 1
    MaxNow = 4
INVARIANTS TypeOK NothingSkipped OneRun
PROPERTY JobsSettle
