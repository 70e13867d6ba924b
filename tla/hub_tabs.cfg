SPECIFICATION Spec
CONSTANTS
    i1 = i1
    i2 = i2
    u1 = u1
    u2 = u2
    c1 = c1
    c2 = c2
    c3 = c3
    NoConn = NoConn
    Instances = {i1}
    Users = {u1}
    Conns = {c1, c2, c3}
    Home <- OnOneInstance
    Owner <- OneUser
    QCap = 2
    TTL = 2
    Failing = {}
    Timed = TRUE
    Mortal = {i1}
INVARIANTS
    TypeOK
    ReaderStored
    SubscribedOrComing
    ConnectedIsOnline
    OnlyGhostsAreClosed
