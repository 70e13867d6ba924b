SPECIFICATION DeliverySpec
CONSTANTS
    i1 = i1
    u1 = u1
    c1 = c1
    c2 = c2
    c3 = c3
    NoConn = NoConn
    Instances = {i1}
    Users = {u1}
    Conns = {c1}
    Home <- OnOneInstance
    Owner <- OneUser
    QCap = 1
    TTL = 1
    Failing = {}
    Timed = FALSE
    Mortal = {}
    SendCap = 1
    MaxMsg = 1
INVARIANT NoPanic
CHECK_DEADLOCK FALSE
