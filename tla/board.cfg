SPECIFICATION Spec
CONSTANTS
    p1 = p1
    p2 = p2
    Poster = {p1, p2}
    Before <- MCBefore
    MediaOf <- MCMediaOf
    MaxListed = 1
    MaxBoards = 2
    MaxTaps = 2
    MaxUrls = 2
    MaxTogether = 2
    MaxAmiss = 1
INVARIANTS BoardAgrees MediaMatchPosters
PROPERTIES DeletedStaysDeleted
CHECK_DEADLOCK FALSE
