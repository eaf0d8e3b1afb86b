SPECIFICATION Spec
CHECK_DEADLOCK FALSE
CONSTANTS
    w1 = w1
    w2 = w2
    e1 = e1
    e2 = e2
    s1 = s1
    s2 = s2
    None = None
    Workers <- MCWorkers
    Entries <- TwoEntries
    Day <- DayOf
    Name <- OneName
    Number <- Serials
    Amount <- DayAmount
    Incoming <- Receipts
    Files <- Statements
    Settlements <- TwoSettlements
    Expected <- Dues
    Tolerance = 1
    MaxMatches = 2
SYMMETRY WorkerSymmetry
INVARIANTS TypeOK CountedOnce StatementKept
