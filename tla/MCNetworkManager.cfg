SPECIFICATION FairSpec
CONSTANTS
    a1 = a1
    a2 = a2
    starter = starter
    d1 = d1
    Address = {a1, a2}
    Discoverer = {starter, d1}
    Starter = starter
    AddressLists <- Lists
    MaxPeers = 1
    MinPeers = 1
    MaxTries = 2
    MaxConns = 2
    Nobody = Nobody
INVARIANTS TypeOK PeerBound NoConnectionLeaks PeersAreServed EventsMatchTable HandlerOwnsItsPeer
PROPERTY StopQuiesces
CHECK_DEADLOCK FALSE
