SPECIFICATION FeedSpec
SYMMETRY Readers
CONSTANTS
    o1 = o1
    o2 = o2
    h0 = h0
    h1 = h1
    h2 = h2
    h3 = h3
    c1 = c1
    c2 = c2
    Client = {c1, c2}
    Outpoint <- MCOutpoint
    Amount <- MCAmount
    Absent = Absent
    Hash <- MCHash
    Malformed = Malformed
    GenesisHash = h0
    Query <- MCQuery
    Block <- MCBlock
    Chain <- MCChain
    MaxOutpoints = 2
    MaxApplied = 4
    MaxCopies = 2
INVARIANT StoreIsChainPrefix
