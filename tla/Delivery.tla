------------------------------ MODULE Delivery ------------------------------
(***************************************************************************)
(* What the worker promises for each stored message, without its loops,    *)
(* batches, failures or restarts: a message is resolved against the jobs   *)
(* that exist at that moment, every job so found is tried, and only then   *)
(* is the message done, for good. An attempt at a message may be given up  *)
(* at any time; it then starts over from a fresh resolution.               *)
(***************************************************************************)
EXTENDS Jobs

CONSTANTS Msg

VARIABLES
    table,      \* the stored messages
    jobs,       \* the jobs that exist
    owed,       \* Msg -> the jobs the current attempt must try
    tried,      \* Msg -> those it has tried
    resolved    \* the messages being attempted

vars == <<table, jobs, owed, tried, resolved>>

Init ==
    /\ table = << >>
    /\ jobs \in {J \in SUBSET Job : UniqueEmails(J)}
    /\ owed = [m \in Msg |-> {}]
    /\ tried = [m \in Msg |-> {}]
    /\ resolved = {}

Accept(m) ==
    /\ m \notin DOMAIN table
    /\ \E msg \in Message : ~msg.processed /\ table' = Insert(table, m, msg)
    /\ UNCHANGED <<jobs, owed, tried, resolved>>

ChangeJobs ==
    /\ jobs' \in SUBSET Job
    /\ UNCHANGED <<table, owed, tried, resolved>>

Resolve(m) ==
    /\ m \in Unprocessed(table)
    /\ m \notin resolved
    /\ resolved' = resolved \union {m}
    /\ owed' = [owed EXCEPT ![m] = ProcessMessage(jobs, table[m])]
    /\ UNCHANGED <<table, jobs, tried>>

Try(m) ==
    /\ m \in resolved
    /\ \E j \in owed[m] \ tried[m] :
          tried' = [tried EXCEPT ![m] = @ \union {j}]
    /\ UNCHANGED <<table, jobs, owed, resolved>>

Leave(m) ==
    /\ resolved' = resolved \ {m}
    /\ owed' = [owed EXCEPT ![m] = {}]
    /\ tried' = [tried EXCEPT ![m] = {}]
    /\ UNCHANGED jobs

Finish(m) ==
    /\ m \in resolved
    /\ tried[m] = owed[m]
    /\ table' = [table EXCEPT ![m].processed = TRUE]
    /\ Leave(m)

GiveUp(m) ==
    /\ m \in resolved
    /\ UNCHANGED table
    /\ Leave(m)

Next ==
    \/ ChangeJobs
    \/ \E m \in Msg : Accept(m) \/ Resolve(m) \/ Try(m) \/ Finish(m) \/ GiveUp(m)

Spec == Init /\ [][Next]_vars

=============================================================================
