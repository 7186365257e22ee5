---------------------------- MODULE MailPipeline ----------------------------
(***************************************************************************)
(* From the sender's mail server to the webhook: the SMTP agent and the    *)
(* worker are two processes that share nothing but table smtp_messages.    *)
(* The web application adds and deletes jobs meanwhile.                    *)
(***************************************************************************)
EXTENDS Jobs, Sequences

CONSTANTS
    Conn, Mail, From, Rcpts, Foreign, NullSender, MaxRecipients, MaxTries,
    Msg, BatchSize, MaxFaults

VARIABLES
    table,
    phase, session, next, txn, sent, accepted, linked,
    status, tries, receipt, origin, netFaults,
    jobs, pc, shutdown, ctxDone, batch, cur, matched, todo, calling, result,
    calls, replies, faults

Agent == INSTANCE SmtpServer

Worker == INSTANCE MessagePoller

ASSUME PipelineAssumption == Agent!SmtpAssumption /\ Worker!PollerAssumption

agentVars == <<phase, session, next, txn, sent, accepted, linked,
               status, tries, receipt, origin, netFaults>>
workerVars == <<jobs, pc, shutdown, ctxDone, batch, cur, matched, todo, calling,
                result, calls, replies, faults>>
vars == <<table, agentVars, workerVars>>

Init == Agent!Init /\ Worker!Init

AgentStep == Agent!Next /\ UNCHANGED workerVars

WebStep ==
    /\ \E j \in Job : Worker!JobAdd(j) \/ Worker!JobDelete(j)
    /\ UNCHANGED agentVars

WorkerStep ==
    /\ Worker!Worker \/ Worker!Signal \/ Worker!Crash
    /\ UNCHANGED agentVars

Next == AgentStep \/ WebStep \/ WorkerStep

Spec == Init /\ [][Next]_vars

\* The worker's fairness is the one of MessagePoller; the SMTP agent owes nothing
\* to a row that is stored.
FairSpec ==
    /\ Spec
    /\ WF_vars(Worker!Step /\ UNCHANGED agentVars)
    /\ WF_vars(Worker!Cancel /\ UNCHANGED agentVars)
    /\ WF_vars(Worker!Restart /\ UNCHANGED agentVars)
    /\ \A m \in Msg : SF_vars(Worker!Lookup(m) /\ UNCHANGED agentVars)

-----------------------------------------------------------------------------

\* The rows stored for a mail, whatever try stored them.
RowsOf(m) == {k \in DOMAIN table : origin[k][1] = m}

\* How often recipient a was accepted for mail m in any one try.
Times(m, a) == Cardinality({i \in DOMAIN Rcpts[m] : Rcpts[m][i] = a})

\* The rows stored for mail m whose message triggered job j.
Triggering(m, j) == {k \in RowsOf(m) : calls[<<k, j>>] > 0}

(***************************************************************************)
(* End to end, a mail triggers a job through no more rows than its sender  *)
(* sent it times it mentions the job's address, and through each row once, *)
(* and once more per fault of the worker: neither the agent nor the worker *)
(* multiplies it otherwise, whatever they do at once (server.go:96-111,    *)
(* poller.go:65-121).                                                      *)
(***************************************************************************)
CallsAreBounded ==
    \A m \in Mail, j \in Job :
        /\ Cardinality(Triggering(m, j)) <= tries[m] * Times(m, Email[j])
        /\ \A k \in Triggering(m, j) : calls[<<k, j>>] <= 1 + faults

\* The first n recipients of mail m that are under our hostname, by their index.
Ours(m, n) == {i \in 1 .. n : Rcpts[m][i] \notin Foreign}

\* The recipients of mail m that RCPT does not refuse: ours, up to the limit.
Accepted(m) ==
    {i \in Ours(m, Len(Rcpts[m])) : Cardinality(Ours(m, i - 1)) < MaxRecipients}

(***************************************************************************)
(* A webhook is called only for a row stored for the job's own address,    *)
(* and only if that address is one the agent has to accept among the       *)
(* recipients of the mail the row is for: not for a recipient refused by   *)
(* the hostname or by the limit, not for one of an earlier mail of the     *)
(* session, and not for a sender the job does not accept (server.go:64-81, *)
(* 117-120, processor.go:104-137).                                         *)
(***************************************************************************)
CallsAreForAcceptedMail ==
    \A k \in Msg, j \in Job :
        calls[<<k, j>>] > 0 =>
            /\ k \in DOMAIN table /\ table[k].to = Email[j]
            /\ \E i \in Accepted(origin[k][1]) : Rcpts[origin[k][1]][i] = Email[j]
            /\ From[origin[k][1]] \in Accepts[j]

(***************************************************************************)
(* A mail acknowledged to its sender has a processed row in the end for    *)
(* each recipient of the acknowledged try, unless the worker hangs in      *)
(* SendReply (server.go:84-114, poller.go:37-125).                         *)
(***************************************************************************)
AckedIsProcessed ==
    \A m \in Mail :
        status[m] = "acked" ~>
            \/ Cardinality({k \in RowsOf(m) : origin[k][2] = tries[m] /\ table[k].processed})
                 = Len(receipt[m])
            \/ []Worker!Hung

=============================================================================
