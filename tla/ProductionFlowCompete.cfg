SPECIFICATION Spec
CONSTANTS
    w1 = w1
    w2 = w2
    Workers <- MCWorkers
    Materials <- OneMaterial
    Opening <- OneOpening
    Orders <- TwoOrders
    Required <- TwoRequired
    FlowRequests <- CompeteRequests
    Transactions <- CompeteTransactions
    MaxRecalc = 2
    Amounts <- SmallAmounts
SYMMETRY WorkerSymmetry
INVARIANTS TypeOK NoStaleView LedgerExplainsBalance CountersMatchMovements FlowOrdered OutstandingInTransit CancelledSentNothing
PROPERTIES NoNewOverbooking
