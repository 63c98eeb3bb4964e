SPECIFICATION Spec
CONSTANTS
    c1 = c1
    c2 = c2
    d1 = d1
    d2 = d2
    n1 = n1
    n2 = n2
    Vfs = Vfs
    Nobody = Nobody
    NoNode = NoNode
    Processes <- MCProcesses
    MaxAsks <- MCMaxAsks
    MaxGiveUps = 2
    Clients = {c1, c2}
    Drivers = {d1, d2}
    NodeOf <- MCNodeOf
    Early <- MCEarly
    Mortals = {d1}
    Slots = 2
    Places = 5
CHECK_DEADLOCK FALSE
CONSTRAINT Within
INVARIANTS AnswersMine ReadsOpened EntitiesAccounted
