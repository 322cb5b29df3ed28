CONSTANTS
    Procs = {p1}
    Broadcasts = {b1, b2}
    Refetch = {b1, b2}
    NoProc = NoProc
    JUNK = JUNK
    MaxFaults = 1
    MaxJunk = 1
SPECIFICATION FanoutFairSpec
CHECK_DEADLOCK FALSE
INVARIANTS FanoutTypeOK ChannelKept NobodyUntold
PROPERTIES FanoutProgress
