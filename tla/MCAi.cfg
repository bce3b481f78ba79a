SPECIFICATION Spec
CONSTANTS
    Admins = {a1, a2}
    Urls = {u1, u2}
    MaxRefs = 2
    MaxVer = 3
    MaxConn = 2
    MaxSecret = 1
    MaxChunks = 5
    Singles = {r1, r2}
    Requests = {r1, r3}
    Allowed = {r1}
    Guests = {r3}
    Browser = s1
    Second = s2
    MaxConv = 2
    MaxDeltas = 1
    MaxSwitches = 1
SYMMETRY Symmetry
INVARIANTS  AnswerHonest
PROPERTIES ProviderProven ConnectionsKept TurnsKept
CHECK_DEADLOCK FALSE
