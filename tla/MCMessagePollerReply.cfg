CONSTANTS
    hook = hook
    broken = broken
    here = here
    alice = alice
    bob = bob
    Job = {hook, broken}
    Addr = {here}
    Sender = {alice, bob}
    Email <- MCEmail
    Accepts <- MCAccepts
    Broken = {broken}
    AutoReply = {hook}
    Msg = {1}
    BatchSize = 2
    MaxFaults = 1
SPECIFICATION Spec
PROPERTIES
    RepliesOnlyAfterSuccess
