-------------------------------- MODULE Jobs --------------------------------
(***************************************************************************)
(* Table jobs (pkg/models) and the selection the worker makes from it: the *)
(* jobs registered for a recipient whose sender pattern accepts the        *)
(* message. The columns of a job never change after the insert, so they    *)
(* are constants; which jobs exist is state.                               *)
(***************************************************************************)
EXTENDS Records

CONSTANTS
    Job,        \* the rows table jobs may ever hold
    Email,      \* Job -> Addr, column email (unique index)
    Accepts,    \* Job -> SUBSET Sender, what the job's from_regex matches;
                \* empty for a pattern that does not compile
    Broken,     \* jobs whose payload template or request cannot be built
    AutoReply   \* jobs with a non-empty response column

ASSUME JobsAssumption ==
    /\ Email \in [Job -> Addr]
    /\ Accepts \in [Job -> SUBSET Sender]
    /\ Broken \subseteq Job
    /\ AutoReply \subseteq Job

\* EntJobRepository.GetActiveJobs. No code path clears is_active.
GetActiveJobs(jobs, addr) == {j \in jobs : Email[j] = addr}

\* Variant: the sender pattern is not applied.
MutProcessMessage(jobs, msg) == GetActiveJobs(jobs, msg.to)

\* MessageProcessor.ProcessMessage: the jobs that get a ProcessResult.
ProcessMessage(jobs, msg) ==
    {j \in GetActiveJobs(jobs, msg.to) : msg.from \in Accepts[j]}

\* The unique index on jobs.email.
UniqueEmails(jobs) == \A i, j \in jobs : Email[i] = Email[j] => i = j

=============================================================================
