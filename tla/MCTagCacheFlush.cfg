CONSTANTS
    p1 = p1
    p2 = p2
    k1 = k1
    k2 = k2
    t1 = t1
    t2 = t2
    Proc = {p1}
    Key = {k1, k2}
    Tag = {t1, t2}
    MaxSets = 3
SYMMETRY Interchangeable
SPECIFICATION Spec
INVARIANT
    FlushRemoves
