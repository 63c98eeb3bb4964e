SPECIFICATION FairSpec
CONSTANTS
    Threads = {1, 2, 3, 4}
    CPUs = {0, 1}
    Drivers = {2, 3}
    Nobody = Nobody
INVARIANTS StatesAgree LineServed
PROPERTIES CallsReturn ReadyRuns
CHECK_DEADLOCK FALSE
