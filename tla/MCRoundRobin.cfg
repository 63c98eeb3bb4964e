SPECIFICATION FairSpec
CONSTANTS
    p1 = p1
    p2 = p2
    main1 = main1
    main2 = main2
    driver1 = driver1
    driver2 = driver2
    l1 = l1
    l2 = l2
    Procs = {p1, p2}
    Threads = {main1, main2, driver1, driver2}
    Tid <- MCTid
    First = main1
    Home <- MCHome
    Lines = {l1, l2}
    MaxRequests = 3
    MaxLoad = 3
    MaxUpsets = 1
    Idle = Idle
    Gc = Gc
    Nobody = Nobody
    NoLine = NoLine
INVARIANTS QueuedOnce AcknowledgesHead LinesMatchRequests
PROPERTIES ReadyRuns RequestServed
CHECK_DEADLOCK FALSE
