SPECIFICATION Spec
CONSTANTS
    a = a
    b = b
    c = c
    e = e
    Worker = {w1, w2}
    Outpoint = {a, b, c, e}
    Target = 3
    Txs <- MCTxs
    Starts <- Genesis
    SnapshotHeights = {}
    BatchSize = 1
    SnapshotMargin = 1
    Wrap = 1000
    MaxFaults = 0
INVARIANT SyncedIsExact
CHECK_DEADLOCK FALSE
