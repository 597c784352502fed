SPECIFICATION FairSpec
CONSTANTS
    w1 = w1
    w2 = w2
    coinbase = coinbase
    zero = zero
    none = none
    Worker = {w1, w2}
    Networks = {"testnet"}
    Coinbase = coinbase
    ZeroHash = zero
    LastNonce = 1
    HeaderHash <- MCHeaderHash
    MaxTime = 1
    MaxBlocks = 3
    None = none
INVARIANTS TypeOK ProgressIsConsistent AfterStop
PROPERTIES TemplateNeverGoesBack DemoStops GoroutinesEnd
