SPECIFICATION StocktakeSpec
CHECK_DEADLOCK FALSE
CONSTANTS
    w1 = w1
    w2 = w2
    t1 = t1
    t2 = t2
    g1 = g1
    Place = "own"
    Workers <- MCWorkers
    Materials <- TwoMaterials
    Opening <- TwoOpening
    Goods <- OneGood
    GoodsOpening <- OneGoodOpening
    Tasks <- TwoTasks
    Scope <- SharedScope
    Code <- AgainstIds
    Counts <- SharedCounts
    Movements <- OneMovement
    Documents <- OneDocument
SYMMETRY WorkerSymmetry
INVARIANTS StocktakeTypeOK OnePostingPerRow NoWaitCycle
