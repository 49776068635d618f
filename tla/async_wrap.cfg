SPECIFICATION Spec
CONSTANTS
    c1 = c1
    c2 = c2
    c3 = c3
    Calls <- MCCalls
    KindOf <- MCKindOf
    NoCall = NoCall
    NOTAG = 2
    MaxConn = 2
    Faults = {"cancel", "rerror", "undecodable", "hangup", "frame", "remount"}
SYMMETRY MCSymmetry
INVARIANTS TypeOK Registration ResumedOnce OneReader
CHECK_DEADLOCK FALSE
