SPECIFICATION Spec
CONSTANTS
    Lists = {"feed", "videos", "liked", "comments", "thread", "conversations"}
    Limit = 2
    MaxId = 6
INVARIANTS
    TypeOK
    NewestFirst
    CompleteWhenDone
CHECK_DEADLOCK FALSE
