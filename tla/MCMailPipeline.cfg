CONSTANTS
    m1 = m1
    here = here
    there = there
    over = over
    away = away
    alice = alice
    nobody = nobody
    hook = hook
    picky = picky
    late = late
    c1 = c1
    Conn = {c1}
    Mail = {m1}
    Addr = {here, there, over}
    Foreign = {away}
    Sender = {alice, nobody}
    NullSender = nobody
    From <- MCFrom
    Rcpts <- MCRcpts
    MaxRecipients = 2
    Msg = {1, 2, 3, 4}
    MaxTries = 2
    BatchSize = 2
    MaxFaults = 1
    Job = {hook, picky, late}
    Email <- MCEmail
    Accepts <- MCAccepts
    Broken = {}
    AutoReply = {hook}
SPECIFICATION FairSpec
INVARIANTS
    CallsAreBounded
    CallsAreForAcceptedMail
PROPERTIES
    AckedIsProcessed
