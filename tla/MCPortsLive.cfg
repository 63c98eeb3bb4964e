SPECIFICATION FairSpec
CONSTANTS
    Threads = {t1, t2}
    Ports = {p1}
    Items = {i1, i2}
    MaxQueue = 2
    NoThread = NoThread
    NoPort = NoPort
    NoItem = NoItem
CHECK_DEADLOCK FALSE
PROPERTIES SleepEnds
