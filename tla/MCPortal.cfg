SPECIFICATION Spec
CONSTANTS
    Users = {a, b}
    Admin0 = a
    Groups = {g1}
    Passwords = {p1, p2}
    Password = {p1}
    MaxVer = 2
    MaxPasswordVer = 3
    Services = {m1, m2}
    Contested = {m1}
    Editors = {r1, r2}
    r1 = r1
    Readers = {r1, r2, r3}
    Issues = {k1, k2}
    FewIssues = {k1}
    MaxMoves = 2
    Rotations = {1, 2}
    MaxChanges = 1
    MaxAccounts = 2
    MaxCrashes = 3
SYMMETRY Symmetry
INVARIANTS TokensFresh 
PROPERTIES AccountsSafe IssuesKept RotationSound
CHECK_DEADLOCK FALSE
