CONSTANTS
    s1 = s1
    s2 = s2
    t1 = t1
    t2 = t2
    b1 = b1
    b2 = b2
    b3 = b3
    b4 = b4
    Saver = {s1, s2}
    Task = {t1, t2}
    Buffer = {b1, b2, b3, b4}
    MaxRetries = 2
    Goroutines = 1
    MaxSaves = 3
    MaxFaults = 0
SPECIFICATION Spec
INVARIANTS
    SavedTaskIsQueued
CHECK_DEADLOCK FALSE
