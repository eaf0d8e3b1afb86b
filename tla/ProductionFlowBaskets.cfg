SPECIFICATION FairSpec
CONSTANTS
    w1 = w1
    w2 = w2
    Workers <- MCWorkers
    Materials <- TwoMaterials
    Opening <- TwoOpening
    Orders <- TwoOrders
    Required <- BothRequired
    FlowRequests <- BasketRequests
    Transactions = {}
    MaxRecalc = 2
    Amounts <- SmallAmounts
PROPERTIES MovesOnce EveryCallEnds
