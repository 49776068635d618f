SPECIFICATION FairSpec
CONSTANTS
    c1 = c1
    c2 = c2
    c3 = c3
    Calls <- MCTwoCalls
    KindOf <- MCKindOf
    NoCall = NoCall
    NOTAG = 3
    MaxConn = 2
    Faults = {"cancel", "rerror", "undecodable", "hangup", "frame"}
PROPERTIES ImplementsService EveryReadCallEnds
INVARIANT OwnReply
CHECK_DEADLOCK FALSE
