CONSTANTS
    b1 = b1
    b2 = b2
    r1 = r1
    r2 = r2
    Browser = {b1, b2}
    Request = {r1, r2}
SYMMETRY Interchangeable
SPECIFICATION Spec
INVARIANT
    CachedPageIsComplete
