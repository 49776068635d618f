SPECIFICATION FairSpec
CONSTANTS
    t1 = t1
    t2 = t2
    t3 = t3
    Threads <- MCThreads
    KindOf <- MCKindOf
    NoThread = NoThread
    MaxUnmounts = 1
    Faults = {"encode", "send", "rerror", "timeout"}
INVARIANTS TypeOK OneSender SleeperSeen OwnReplyBeforeTimeout
PROPERTY EveryRpcEnds
CHECK_DEADLOCK FALSE
