CONSTANTS
    b1 = b1
    b2 = b2
    r1 = r1
    r2 = r2
    v1 = v1
    v2 = v2
    t1 = t1
    t2 = t2
    t3 = t3
    m1 = m1
    m2 = m2
    k1 = k1
    k2 = k2
    None = None
    Browser = {b1, b2}
    Request = {r1, r2}
    Visitor = {v1, v2}
    Tab = {t1, t2, t3}
    Msg = {m1, m2}
    Token = {k1, k2}
    Owner <- Owners
    MaxRequests = 4
SYMMETRY Interchangeable
SPECIFICATION PagesSpec
INVARIANTS
    PagesTypeOK
    PersonalPagesAreNotShared
    TemplatesFit
    ShownOnce
    RefusalsAreExplained
CHECK_DEADLOCK FALSE
