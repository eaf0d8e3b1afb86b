SPECIFICATION Spec
CHECK_DEADLOCK FALSE
CONSTANTS
    w1 = w1
    w2 = w2
    pa = pa
    pb = pb
    l1 = l1
    l2 = l2
    MaxIssued = 2
    Workers <- MCWorkers
    Materials <- TwoMaterials
    Opening <- TwoOpening
    Purchases <- TwoPurchases
    Key <- TwoKeys
    Source <- OneSource
    Ordered <- TwoOrders
    Deliveries <- PartDelivery
    Edits <- Shrink
    Links <- TwoLinks
    Inbounds <- OneInbound
    Usages <- EachUsesOne
    Places <- BothPlaces
INVARIANT UsedIsLiveUsages
