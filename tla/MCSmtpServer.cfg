CONSTANTS
    c1 = c1
    c2 = c2
    m1 = m1
    m2 = m2
    m3 = m3
    here = here
    there = there
    away = away
    alice = alice
    nobody = nobody
    Conn = {c1, c2}
    Mail = {m1, m2, m3}
    Addr = {here, there}
    Foreign = {away}
    Sender = {alice, nobody}
    NullSender = nobody
    From <- MCFrom
    Rcpts <- MCRcpts
    MaxRecipients = 2
    Msg = {1, 2, 3, 4, 5, 6, 7, 8, 9, 10}
    MaxTries = 2
    MaxFaults = 2
SYMMETRY Connections
SPECIFICATION Spec
INVARIANTS
    TypeOK
    AckedIsStored
    StoredIsPrefix
    SenderIsKept
