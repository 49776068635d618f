SPECIFICATION Spec
CONSTANTS
    t1 = t1 t2 = t2 t3 = t3 d1 = d1 d2 = d2 f1 = f1 f2 = f2
    b1 = b1 b2 = b2 b3 = b3 v1 = v1 v2 = v2 v3 = v3
    Threads = {t1, t2}
    Dirs = {d1, d2}
    Files = {f1, f2}
    Nodes = {b1, b2}
    Vnodes = {v1, v2}
    Null = Null
    MaxFid = 3
    MaxVgets = 1
    MaxUnmounts = 1
    Faults = {"walk", "memory", "stat", "vnode"}
INVARIANTS
    TypeOK
    OneNode
    HeldNodeLive
    SleeperSeen
    NodeFidBound
    FidsAccounted
    IocountExact
SYMMETRY Symmetric
CHECK_DEADLOCK FALSE
