SPECIFICATION FairSpec
CONSTANTS
    p1 = p1
    p2 = p2
    t1 = t1
    t2 = t2
    t3 = t3
    Procs = {p1, p2}
    Threads = {t1, t2, t3}
    Home <- MCHome
    Main <- MCMain
    Booted = {p1}
    GC = GC
    NoThread = NoThread
    MaxTasks = 2
    MaxUpsets = 2
INVARIANTS LocksMatchHolders FreedUnheld LookupsFind
PROPERTY FinishedFreed
CHECK_DEADLOCK FALSE
CONSTRAINT UpsetOrBorn
