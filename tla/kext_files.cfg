SPECIFICATION Spec
CONSTANTS
    t1 = t1 t2 = t2
    Threads = {t1, t2}
    Null = Null
    MaxCalls = 3
    Opened = {{}, {"OREAD", "ORDWR"}}
    Faults = {"walk", "open", "create", "clunk", "remove", "memory"}
INVARIANTS TypeOK UnlockRight SlotsExact FidUsable FidsAccounted
PROPERTY EveryCallEnds
CHECK_DEADLOCK FALSE
