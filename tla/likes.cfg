SPECIFICATION FairSpec
CONSTANTS
    Users = {u1, u2}
    Videos = {v1}
    Requests = {r1, r2, r3}
    NoRow = NoRow
    OldRow = OldRow
INVARIANTS
    TypeOK
PROPERTIES
    OnlyStaleCountsDrift
    AllAnswered
    FlipsTheLike
