SPECIFICATION Spec
CONSTANTS
    r1 = r1
    r2 = r2
    r3 = r3
    p1 = p1
    Receipts = {r1, r2, r3}
    Kind <- KindAlone
    Chunked = {r2}
    LoneFaults = 2
    Others = {r1, r2}
    OtherKind <- KindTogether
    OtherChunked = {}
    OtherProcs = {p1, p2}
    OtherFaults = 1
    Jobs = {j1, j2, j3}
    Bundles = {b1, b2}
    Sizes = {1, 2}
    MaxJobs = 2
    MaxBytes = 3
    MaxBundles = 1
    MinFree = 2
    Disk = 9
    MaxFaults = 2
SYMMETRY Symmetry
PROPERTIES AuditHonest RemovalBound WithinLimits CreateAtomic
CHECK_DEADLOCK FALSE
