SPECIFICATION FairSpec
CONSTANTS
    n1 = n1
    a = a
    b = b
    absent = absent
    p = p
    m1 = m1
    k1 = k1
    r1 = r1
    r2 = r2
    s1 = s1
    p1 = p1
    p2 = p2
PROPERTIES  Completes Drains WorkEnds
CHECK_DEADLOCK FALSE
