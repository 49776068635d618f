SPECIFICATION Spec
CONSTANTS
    c1 = c1
    c2 = c2
    c3 = c3
    Calls <- MCCalls
    KindOf <- MCKindOf
    NoCall = NoCall
    NOTAG = 2
    MaxConn = 1
    Faults = {"cancel"}
INVARIANT OwnAnswer
CHECK_DEADLOCK FALSE
