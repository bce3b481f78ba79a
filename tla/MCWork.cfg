SPECIFICATION Spec
CONSTANTS
    Dir = {d1}
    TwoDirs = {d1, d2}
    Dirs = {d1, d2, d3}
    Name = {n1}
    Names = {n1, n2}
    Model = {m1}
    Models = {m1, m2}
    MaxFolder = 1
    MaxVersion = 2
    MaxChunk = 3
    ProgressEvery = 2
    MaxThreads = 2
    MaxFile = 2
    MaxCat = 3
    MaxGen = 2
    MaxText = 1
    MaxId = 1
    MaxTime = 1
    User = {u1}
    Users = {u1, u2}
    Request = {r1}
    Requests = {r1, r2}
SYMMETRY Symmetry
INVARIANTS FoldersHonest
PROPERTIES IndexCurrent CategoriesOwn 
CHECK_DEADLOCK FALSE
