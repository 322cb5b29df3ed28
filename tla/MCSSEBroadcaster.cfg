CONSTANTS
    Streams = {s1, s2}
    t1 = t1
    t2 = t2
    Tenants <- TwoTenants
    CLOSE = CLOSE
    MaxNotify <- TwoAndOne
    MaxSignals = 1
    MaxLifespans = 2
SPECIFICATION FairSpec
INVARIANTS TypeOK DrainReachesEveryStream InOrderNoGap CloseOvertakesNothing StreamsAccounted
PROPERTIES StreamsProgress
CHECK_DEADLOCK FALSE
