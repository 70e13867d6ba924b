SPECIFICATION FairSpec
CONSTANTS
    c1 = c1
    c2 = c2
    Convs = {c1, c2}
    None = None
    MaxId = 3
    Own = {2}
    Homes <- SomeHomes
    Limit = 1
    MaxOpens = 2
    MaxCloses = 2
INVARIANTS
    TypeOK
    OwnThread
    ThreadComplete
    
    ReadWasShown
PROPERTIES
    Reconnects
    KeepsLog

CHECK_DEADLOCK FALSE
