SPECIFICATION FairSpec
CONSTANTS
    MaxClients = 2
INVARIANTS TypeOK OpenIsReachable
PROPERTIES StartReturns StopEndsReaders
CHECK_DEADLOCK FALSE
