CONSTANTS
    hook = hook
    broken = broken
    here = here
    alice = alice
    bob = bob
    Job = {hook, broken}
    Addr = {here}
    Sender = {alice, bob}
    Email <- MCEmail
    Accepts <- MCAccepts
    Broken = {broken}
    AutoReply = {hook}
    Msg = {1, 2, 3}
    BatchSize = 2
    MaxFaults = 1
SPECIFICATION FairSpec
INVARIANTS
    TypeOK
    RepeatsNeedAFault
    RepliesFollowCalls
PROPERTIES
    CallsPrecedeMark
    ImplementsDelivery
    EveryMessageProcessed
    StopsWhenTold
