SPECIFICATION FairSpec
CONSTANTS
    p1 = p1
    p2 = p2
    t1 = t1
    t2 = t2
    g1 = g1
    g2 = g2
    Publisher = {p1, p2}
    Topic = {t1, t2}
    Handler = {g1, g2}
    Capacity = 1
    MaxEvents = 2
    MaxClock = 0
INVARIANTS TypeOK ExactlyOnce
PROPERTIES ProducersNeverBlock AcceptedIsHandled
CHECK_DEADLOCK FALSE
