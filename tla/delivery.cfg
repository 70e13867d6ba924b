SPECIFICATION DeliveryFairSpec
CONSTANTS
    i1 = i1
    u1 = u1
    c1 = c1
    c2 = c2
    c3 = c3
    NoConn = NoConn
    Instances = {i1}
    Users = {u1}
    Conns = {c1, c2}
    Home <- OnOneInstance
    Owner <- OneUser
    QCap = 2
    TTL = 1
    Failing = {}
    Timed = FALSE
    Mortal = {}
    SendCap = 1
    MaxMsg = 2
INVARIANTS
    DeliveryTypeOK
    InOrder
PROPERTIES
    EveryTabGetsIt
    NothingSkipped
CHECK_DEADLOCK FALSE
