SPECIFICATION SmallSpec
CONSTANTS
    i1 = i1
    i2 = i2
    r1 = r1
    r2 = r2
    r3 = r3
    Users = {u1, u2}
    Emails = {e1}
    Passwords = {p1, p2}
    Browsers = {b1}
    Reqs = {r1, r2, r3}
    Instances = {i1, i2}
    Home <- LastOnSecond
    Nil = Nil
SYMMETRY Symmetry
INVARIANTS
    TypeOK
    OwnSessions
    AvatarThere
    VideoHasFile
