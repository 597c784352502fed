SPECIFICATION FairSpec
CONSTANTS
    a = a
    b = b
    c = c
    e = e
    Worker = {w1, w2}
    Outpoint = {a, b, c, e}
    Target = 6
    Txs <- MCTxs
    Starts <- MCStarts
    SnapshotHeights = {0, 2}
    BatchSize = 1
    SnapshotMargin = 10
    Wrap = 1000
    MaxFaults = 2
INVARIANTS TypeOK OnlyRacesAndGapsAreWrong ProgressIsNearWatermark NilMeansSynced
PROPERTIES Returns GoroutinesEnd
CHECK_DEADLOCK FALSE
