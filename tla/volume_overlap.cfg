SPECIFICATION Spec
CONSTANTS
    l1 = l1
    l2 = l2
    l3 = l3
    l4 = l4
    fa = fa
    fb = fb
    Lookups <- MCLookups
    Files <- MCFiles
    RootItem = RootItem
    RootFile = RootFile
    Unbound = Unbound
    NOFID = 9
    MaxMounts = 1
    Faults = {}
SYMMETRY MCSymmetry
INVARIANT LiveItemBound
CHECK_DEADLOCK FALSE
