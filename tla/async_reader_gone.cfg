SPECIFICATION FairSpec
CONSTANTS
    c1 = c1
    c2 = c2
    c3 = c3
    Calls <- MCTwoCalls
    KindOf <- MCKindOf
    NoCall = NoCall
    NOTAG = 3
    MaxConn = 1
    Faults = {"hangup"}
PROPERTY EveryCallEnds
CHECK_DEADLOCK FALSE
