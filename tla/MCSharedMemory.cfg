SPECIFICATION FairSpec
CONSTANTS
    p1 = p1
    p2 = p2
    Procs = {p1, p2}
    GC = GC
    Nobody = Nobody
    Regions = {1, 2}
    Flags <- MCFlags
    Creators <- MCCreators
    Mortals = {p1, p2}
    MaxUsage = 1
    Odd <- MCOdd
INVARIANTS OnlyScratchLeft CheckoutsReturned DeadLeaveOrphans
PROPERTY DeletionEnds
CHECK_DEADLOCK FALSE
