SPECIFICATION FairSpec
CONSTANTS
    none = none
    Base = 8
    Width <- MCWidth
    VarWidth <- MCVarWidth
    MaxTxSize = 40
    MaxScriptSize = 6
    MaxCount = 5
    MaxMoney = 10
    MaxSigOps = 3
    MinScriptSig = 2
    HashSize = 1
    Op <- MCOp
    Calls <- MCCalls
    UTXOSets <- MCUTXOSets
    Hash <- MCHash
    Hash160 <- MCHash160
    SampleValue = 2
    CachedValues = {5, 10}
    CacheSize = 2
    SuccessRate = 985
    MaxValidated = 2
    None = none
INVARIANT ValidSpendsEnough
CHECK_DEADLOCK FALSE
