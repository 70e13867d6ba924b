SPECIFICATION Spec
CONSTANTS
    a = a
    b = b
    x = x
    ta = ta
    tb = tb
    s1 = s1
    s2 = s2
    m1 = m1
    m2 = m2
    Users = {a, b, x}
    Members = {a, b}
    Tabs = {ta, tb}
    Owner <- OwnerOf
    Sends = {s1, s2}
    Marks = {m1, m2}
    Lanes <- SomeLanes
INVARIANTS
    TypeOK
    SenderOrder
    PassedOnlyIfLate
PROPERTY KeepsLog
