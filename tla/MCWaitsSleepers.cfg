SPECIFICATION Spec
CONSTANTS
    p1 = p1
    p2 = p2
    t1 = t1
    t2 = t2
    t3 = t3
    Procs = {p1, p2}
    Threads = {t1, t2, t3}
    Home <- MCHome
    Nobody = Nobody
    MaxWaits = 2
    MaxResumes = 0
INVARIANT NoSleeperLeft
CHECK_DEADLOCK FALSE
