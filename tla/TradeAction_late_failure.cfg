SPECIFICATION Spec
CONSTANTS
    r1 = r1
    r2 = r2
    t1 = t1
    t2 = t2
    c1 = c1
    h1 = h1
    h2 = h2
    NoRid = NoRid
    NoTrade = NoTrade
    NoHandler = NoHandler
    Idle = Idle
    Rid <- MCRid2
    TradeId <- MCTrade2
    Client <- MCClient1
    Handler <- MCHandler2
    QueueMaxsize = 1
    MaxAttempts = 1
    MaxBatch = 1
    MaxFaults = 1
    MaxRestarts = 0
CHECK_DEADLOCK FALSE
SYMMETRY Symmetry
INVARIANT FailureMeansRolledBack
