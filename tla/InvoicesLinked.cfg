SPECIFICATION Spec
CHECK_DEADLOCK FALSE
CONSTANTS
    w1 = w1
    w2 = w2
    i1 = i1
    i2 = i2
    r1 = r1
    raw = raw
    ext = ext
    other = other
    NoInvoice = NoInvoice
    NoTarget = NoTarget
    NoRef = NoRef
    Ambiguous = Ambiguous
    Rest = Rest
    Workers <- MCWorkers
    Invoices <- TwoInvoices
    Reds <- OneRed
    Seller <- TwoSellers
    Amount <- Amounts
    Official <- NamesNone
    Targets <- ThreeRecords
    Order <- TwoPurchases
    Limit <- Limits
    Paid <- Limits
    Swept <- ThreeRecords
    Best <- BestIsRaw
    Requests <- SomeRequests
    Lists <- SomeLists
    Alone <- LinksOverlap
    Candidates = TRUE
SYMMETRY WorkerSymmetry
INVARIANTS TypeOK
PROPERTIES LinkFits AdditionsAreJustified DecisionsStand
