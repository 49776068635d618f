SPECIFICATION Spec
CONSTANTS
    l1 = l1
    l2 = l2
    l3 = l3
    l4 = l4
    fa = fa
    fb = fb
    Lookups <- MCFourLookups
    Files <- MCFiles
    RootItem = RootItem
    RootFile = RootFile
    Unbound = Unbound
    NOFID = 6
    MaxMounts = 2
    Faults = {"attach", "walk", "empty", "clunk"}
SYMMETRY MCSymmetry
INVARIANTS TypeOK LiveItemBoundUncrossed PoolSound FidsAccounted RefCountExact
CHECK_DEADLOCK FALSE
