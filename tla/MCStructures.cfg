SPECIFICATION StructuresSpec
CONSTANTS
    Clients = {c1, c2, c3, c4}
    SpinClients = {c1, c2, c3}
    Items = {a, b}
    SlotCount = 4
    MaxPages = 3
    Junk = Junk
    TotalPages = 11
    Low = 2
    Kernel = {8}
    Module = {4}
    MaxRequest = 5
    MaxCount = 14
    Family = {t1, t2, t3, t4}
    NoOne = NoOne
    Threads = {s1, s2, s3}
    Capacities = {0, 1, 2}
    MaxGifts = 2
    MaxUpsets = 2
INVARIANTS RequestHasOwner NoThreadLost
    SleepersListed Balance NoLostSignal
PROPERTIES WriterGetsIn SleeperServed Implements SpinImplements PulsesImplement PagesImplement
CHECK_DEADLOCK FALSE
