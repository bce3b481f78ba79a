SPECIFICATION Spec
CONSTANTS
    k1 = k1
    k2 = k2
    r1 = r1
    r2 = r2
    r3 = r3
    Keys = {k1}
    Requests = {r1, r2, r3}
    Kinds = {"read"}
    MaxClock = 2
    MaxRestarts = 0
    FolderMoves = FALSE
    Quiet = TRUE
    Serial = TRUE
    NotFound = TRUE
CHECK_DEADLOCK FALSE
INVARIANT ReadsFresh
