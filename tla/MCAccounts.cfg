CONSTANTS
    ann = ann
    bob = bob
    old = old
    new = new
    b1 = b1
    r1 = r1
    r2 = r2
    User = {ann, bob}
    Password = {old, new}
    Browser = {b1}
    Request = {r1, r2}
    MaxTokens = 2
    PerPage = 2
    Told = 3
    MaxJobs = 4
    MaxFaults = 1
SYMMETRY Interchangeable
SPECIFICATION WebSpec
INVARIANTS
    WebTypeOK
    SessionsAreVerified
    PagesPartition
    FreshJobIsListed
    WalksAreExplained
PROPERTIES
    RevokedLinksAreDead
