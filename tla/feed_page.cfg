SPECIFICATION Spec
CONSTANTS
    v1 = v1
    v2 = v2
    Videos = {v1, v2}
    None = None
    MaxId = 3
    Of <- SomeVideos
    Cards = {v1}
    Own = {2, 3}
    Limit = 1
    MaxPosts = 2
    MaxMoves = 5
INVARIANTS
    TypeOK
    OwnSheet
    SheetComplete
    TwiceOnlyOwn
    HeartTrue
PROPERTY TapsLike

CHECK_DEADLOCK FALSE
