SPECIFICATION FairSpec
CONSTANTS
    a1 = a1
    a2 = a2
    Address = {a1, a2}
    AddressLists <- Lists
    InitialLimit = 2
    LowPeers = 2
    MaxConns = 3
INVARIANTS TypeOK EntriesAreHandled LostOnlyByReconnecting
PROPERTY FailedIsForgotten
CHECK_DEADLOCK FALSE
