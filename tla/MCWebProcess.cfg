CONSTANTS
    r1 = r1
    s1 = s1
    t1 = t1
    t2 = t2
    b1 = b1
    b2 = b2
    Request = {r1}
    MaxEnds = 1
    Saver = {s1}
    Task = {t1, t2}
    Buffer = {b1, b2}
    MaxRetries = 2
    Goroutines = 1
    MaxSaves = 2
    MaxFaults = 1
SPECIFICATION FairSpec
INVARIANTS
    TypeOK
    ServicesInOrder
    RunsAreJustified
PROPERTIES
    SavedTaskRuns
    SignalEndsProcess
CHECK_DEADLOCK FALSE
