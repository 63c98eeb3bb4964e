SPECIFICATION Spec
CONSTANTS
    Threads = {t1, t2}
    Ports = {p1, p2}
    Items = {i1}
    MaxQueue = 1
    NoThread = NoThread
    NoPort = NoPort
    NoItem = NoItem
CHECK_DEADLOCK FALSE
SYMMETRY Symmetry
INVARIANTS ListsMatchOwners HintFresh NoSleepOnMail
PROPERTY MessagesStay
