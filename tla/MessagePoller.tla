--------------------------- MODULE MessagePoller ---------------------------
(***************************************************************************)
(* The worker process (cmd/worker, pkg/worker): every second the poller    *)
(* takes the oldest unprocessed rows, looks up the jobs of each, calls     *)
(* their webhooks one after the other, sends the auto-replies and marks    *)
(* the row. One worker container runs at a time. Row ids are numbers in    *)
(* the order of created_at; the SMTP agent stamps a row before inserting   *)
(* it, so concurrent inserts may become visible in any order.              *)
(***************************************************************************)
EXTENDS Jobs

CONSTANTS
    Msg,         \* ids of the rows smtp_messages may hold
    BatchSize,   \* poller.batchSize
    MaxFaults    \* bound on failed saves, crashes and stop signals

ASSUME PollerAssumption ==
    /\ Msg \subseteq Nat \ {0}
    /\ BatchSize \in Nat \ {0}
    /\ MaxFaults \in Nat

VARIABLES
    table,        \* smtp_messages
    jobs,         \* the rows of table jobs
    pc,           \* where the worker's main goroutine is
    shutdown,     \* shutdownChan is closed
    ctxDone,      \* the worker's context is cancelled
    batch,        \* messages of the running pollAndProcess not yet taken
    cur,          \* the message being processed, 0 for none
    matched,      \* jobs ProcessMessage returned a result for
    todo,         \* those the running loop (webhooks, then replies) has left
    calling,      \* the job whose httpClient.Do has not returned
    result,       \* Job -> how SendWebhook ended in this pass
    calls,        \* history: httpClient.Do calls per message and job
    replies,      \* history: auto-replies sent per message and job
    faults        \* failed saves, crashes and stop signals so far

shared == <<table, jobs>>
process == <<pc, shutdown, ctxDone>>
pass == <<batch, cur, matched, todo, calling, result>>
history == <<calls, replies>>
vars == <<shared, process, pass, history, faults>>

Outcome == {"none", "success", "otherStatus", "error"}
NoResult == [j \in Job |-> "none"]

TypeOK ==
    /\ DOMAIN table \subseteq Msg
    /\ table \in [DOMAIN table -> Message]
    /\ jobs \subseteq Job
    /\ pc \in {"down", "idle", "next", "send", "call", "reply", "save"}
    /\ shutdown \in BOOLEAN
    /\ ctxDone \in BOOLEAN
    /\ batch \subseteq Msg
    /\ cur \in Msg \union {0}
    /\ matched \subseteq Job
    /\ todo \subseteq matched
    /\ calling \subseteq matched
    /\ result \in [Job -> Outcome]
    /\ calls \in [Msg \X Job -> Nat]
    /\ replies \in [Msg \X Job -> Nat]
    /\ faults \in Nat

-----------------------------------------------------------------------------

Init ==
    /\ table = << >>
    /\ jobs \in {J \in SUBSET Job : UniqueEmails(J)}
    /\ pc = "down" /\ shutdown = FALSE /\ ctxDone = FALSE
    /\ batch = {} /\ cur = 0 /\ matched = {} /\ todo = {} /\ calling = {}
    /\ result = NoResult
    /\ calls = [p \in Msg \X Job |-> 0]
    /\ replies = [p \in Msg \X Job |-> 0]
    /\ faults = 0

(***************************************************************************)
(* The other processes: the SMTP agent stores a message, the web           *)
(* application inserts and deletes jobs.                                   *)
(***************************************************************************)
Store(m) ==
    /\ m \notin DOMAIN table
    /\ \E msg \in Message : ~msg.processed /\ table' = Insert(table, m, msg)
    /\ UNCHANGED <<jobs, process, pass, history, faults>>

JobAdd(j) ==
    /\ j \notin jobs
    /\ UniqueEmails(jobs \union {j})
    /\ jobs' = jobs \union {j}
    /\ UNCHANGED <<table, process, pass, history, faults>>

JobDelete(j) ==
    /\ j \in jobs
    /\ jobs' = jobs \ {j}
    /\ UNCHANGED <<table, process, pass, history, faults>>

(***************************************************************************)
(* SMTPMessagePoller.Start and main.                                       *)
(***************************************************************************)
Oldest(n, S) == {m \in S : Cardinality({k \in S : k < m}) < n}

Restart ==
    /\ pc = "down"
    /\ pc' = "idle" /\ shutdown' = FALSE /\ ctxDone' = FALSE
    /\ UNCHANGED <<shared, pass, history, faults>>

\* Variant: the query forgets "processed = FALSE".
MutPoll ==
    /\ pc = "idle" /\ ~ctxDone
    /\ DOMAIN table # {}
    /\ batch' = Oldest(BatchSize, DOMAIN table)
    /\ pc' = "next"
    /\ UNCHANGED <<shared, shutdown, ctxDone, cur, matched, todo, calling, result, history, faults>>

\* A query that fails, or finds nothing, leaves the loop where it was.
Poll ==
    /\ pc = "idle" /\ ~ctxDone
    /\ Unprocessed(table) # {}
    /\ batch' = Oldest(BatchSize, Unprocessed(table))
    /\ pc' = "next"
    /\ UNCHANGED <<shared, shutdown, ctxDone, cur, matched, todo, calling, result, history, faults>>

\* main's signal goroutine, which runs beside the poller.
Signal ==
    /\ pc # "down" /\ ~shutdown
    /\ faults < MaxFaults
    /\ shutdown' = TRUE
    /\ faults' = faults + 1
    /\ UNCHANGED <<shared, pc, ctxDone, pass, history>>

Cancel ==
    /\ pc # "down" /\ shutdown
    /\ ctxDone' = TRUE
    /\ UNCHANGED <<shared, pc, shutdown, pass, history, faults>>

\* Variant: the loop ends only when nothing is left to do.
MutStop ==
    /\ pc = "idle"
    /\ ctxDone \/ shutdown
    /\ Unprocessed(table) = {}
    /\ pc' = "down"
    /\ UNCHANGED <<shared, shutdown, ctxDone, pass, history, faults>>

Stop ==
    /\ pc = "idle"
    /\ ctxDone \/ shutdown
    /\ pc' = "down"
    /\ UNCHANGED <<shared, shutdown, ctxDone, pass, history, faults>>

\* The pass of the current message is over, whatever became of it.
EndPass ==
    /\ cur' = 0 /\ matched' = {} /\ todo' = {} /\ calling' = {}
    /\ result' = NoResult

Crash ==
    /\ pc # "down"
    /\ faults < MaxFaults
    /\ faults' = faults + 1
    /\ pc' = "down"
    /\ batch' = {}
    /\ EndPass
    /\ UNCHANGED <<shared, shutdown, ctxDone, history>>

(***************************************************************************)
(* pollAndProcess, one message after the other, oldest first. The context  *)
(* reaches the queries and the webhook requests, never the replies.        *)
(***************************************************************************)
First(m, S) == m \in S /\ \A k \in S : m <= k

\* Variant: a message without results is skipped before it is saved.
MutLookup(m) ==
    /\ pc = "next" /\ ~ctxDone
    /\ First(m, batch)
    /\ batch' = batch \ {m}
    /\ matched' = ProcessMessage(jobs, table[m])
    /\ todo' = matched'
    /\ cur' = IF matched' = {} THEN 0 ELSE m
    /\ pc' = IF matched' = {} THEN "next" ELSE "send"
    /\ UNCHANGED <<shared, shutdown, ctxDone, calling, result, history, faults>>

Lookup(m) ==
    /\ pc = "next" /\ ~ctxDone
    /\ First(m, batch)
    /\ batch' = batch \ {m}
    /\ cur' = m
    /\ matched' = ProcessMessage(jobs, table[m])
    /\ todo' = matched'
    /\ pc' = IF matched' = {} THEN "save" ELSE "send"
    /\ UNCHANGED <<shared, shutdown, ctxDone, calling, result, history, faults>>

\* ProcessMessage returned an error: the loop continues with the next row.
LookupFails(m) ==
    /\ pc = "next"
    /\ First(m, batch)
    /\ batch' = batch \ {m}
    /\ UNCHANGED <<shared, process, cur, matched, todo, calling, result, history, faults>>

EndBatch ==
    /\ pc = "next" /\ batch = {}
    /\ pc' = "idle"
    /\ UNCHANGED <<shared, shutdown, ctxDone, pass, history, faults>>

(***************************************************************************)
(* WebhookSender.SendWebhooks: every result in turn, none retried.         *)
(***************************************************************************)
\* A processing or request error, or a context already cancelled: no call.
SkipWebhook(j) ==
    /\ pc = "send" /\ j \in todo
    /\ j \in Broken \/ ctxDone
    /\ todo' = todo \ {j}
    /\ result' = [result EXCEPT ![j] = "error"]
    /\ UNCHANGED <<shared, process, batch, cur, matched, calling, history, faults>>

CallWebhook(j) ==
    /\ pc = "send" /\ j \in todo
    /\ j \notin Broken /\ ~ctxDone
    /\ todo' = todo \ {j}
    /\ calling' = {j}
    /\ calls' = [calls EXCEPT ![<<cur, j>>] = @ + 1]
    /\ pc' = "call"
    /\ UNCHANGED <<shared, shutdown, ctxDone, batch, cur, matched, result, replies, faults>>

\* Variant: a failed call is retried.
MutWebhookReturns(j) ==
    /\ pc = "call" /\ j \in calling
    /\ \E o \in {"success", "otherStatus", "error"} :
        /\ result' = [result EXCEPT ![j] = o]
        /\ todo' = IF o = "error" THEN todo \union {j} ELSE todo
    /\ calling' = {}
    /\ pc' = "send"
    /\ UNCHANGED <<shared, shutdown, ctxDone, batch, cur, matched, history, faults>>

\* Any HTTP status is a result without an error.
WebhookReturns(j) ==
    /\ pc = "call" /\ j \in calling
    /\ \E o \in {"success", "otherStatus", "error"} :
          result' = [result EXCEPT ![j] = o]
    /\ calling' = {}
    /\ pc' = "send"
    /\ UNCHANGED <<shared, shutdown, ctxDone, batch, cur, matched, todo, history, faults>>

\* Variant: the error of the result is not looked at.
MutWantsReply(j) == j \in AutoReply

\* The loop over webhookResults sends nothing for the other results.
WantsReply(j) == result[j] # "error" /\ j \in AutoReply

\* Variant: the loop over the webhooks is left early.
MutStartReplies ==
    /\ pc = "send"
    /\ todo' = {j \in matched : WantsReply(j)}
    /\ pc' = "reply"
    /\ UNCHANGED <<shared, shutdown, ctxDone, batch, cur, matched, calling, result, history, faults>>

\* Variant: the loop is over the user's jobs, not over the results of this message.
MutReplyToJobs ==
    /\ pc = "send" /\ todo = {}
    /\ todo' = {j \in jobs : WantsReply(j)}
    /\ pc' = "reply"
    /\ UNCHANGED <<shared, shutdown, ctxDone, batch, cur, matched, calling, result, history, faults>>

StartReplies ==
    /\ pc = "send" /\ todo = {}
    /\ todo' = {j \in matched : WantsReply(j)}
    /\ pc' = "reply"
    /\ UNCHANGED <<shared, shutdown, ctxDone, batch, cur, matched, calling, result, history, faults>>

\* EmailReplier.SendReply; its error is only logged.
SendReply(j) ==
    /\ pc = "reply" /\ j \in todo
    /\ todo' = todo \ {j}
    /\ \E sent \in {0, 1} :
          replies' = [replies EXCEPT ![<<cur, j>>] = @ + sent]
    /\ UNCHANGED <<shared, process, batch, cur, matched, calling, result, calls, faults>>

EndReplies ==
    /\ pc = "reply" /\ todo = {}
    /\ pc' = "save"
    /\ UNCHANGED <<shared, shutdown, ctxDone, pass, history, faults>>

(***************************************************************************)
(* Marking the row. An error is only logged, and the row may or may not    *)
(* have been written by then.                                              *)
(***************************************************************************)
Mark(m) == table' = [table EXCEPT ![m].processed = TRUE]

\* Variant: the row is saved whether or not the context is cancelled.
MutSave ==
    /\ pc = "save"
    /\ Mark(cur)
    /\ pc' = "next"
    /\ EndPass
    /\ UNCHANGED <<jobs, shutdown, ctxDone, batch, history, faults>>

Save ==
    /\ pc = "save" /\ ~ctxDone
    /\ Mark(cur)
    /\ pc' = "next"
    /\ EndPass
    /\ UNCHANGED <<jobs, shutdown, ctxDone, batch, history, faults>>

SaveFails ==
    /\ pc = "save"
    /\ IF ctxDone
       THEN UNCHANGED <<table, faults>>
       ELSE /\ faults < MaxFaults
            /\ faults' = faults + 1
            /\ Mark(cur) \/ UNCHANGED table
    /\ pc' = "next"
    /\ EndPass
    /\ UNCHANGED <<jobs, shutdown, ctxDone, batch, history>>

-----------------------------------------------------------------------------

Environment ==
    \/ \E m \in Msg : Store(m)
    \/ \E j \in Job : JobAdd(j) \/ JobDelete(j)

Worker ==
    \/ Restart \/ Poll \/ Cancel \/ Stop \/ EndBatch
    \/ StartReplies \/ EndReplies \/ Save \/ SaveFails
    \/ \E m \in Msg : Lookup(m) \/ LookupFails(m)
    \/ \E j \in Job : SkipWebhook(j) \/ CallWebhook(j) \/ WebhookReturns(j) \/ SendReply(j)

Next == Environment \/ Worker \/ Signal \/ Crash

Spec == Init /\ [][Next]_vars

(***************************************************************************)
(* Fairness. The goroutine goes on while it can (Go schedules it, every    *)
(* query and webhook call returns: the HTTP client has a 90 s timeout);    *)
(* the database does not refuse the same lookup for ever; the container is *)
(* restarted. Nothing is assumed of SendReply: net/smtp.SendMail has no    *)
(* timeout and no context.                                                 *)
(***************************************************************************)
Step ==
    \/ Poll \/ Stop \/ EndBatch \/ StartReplies \/ EndReplies \/ Save \/ SaveFails
    \/ \E m \in Msg : Lookup(m) \/ LookupFails(m)
    \/ \E j \in Job : SkipWebhook(j) \/ CallWebhook(j) \/ WebhookReturns(j)

FairSpec ==
    /\ Spec
    /\ WF_vars(Step) /\ WF_vars(Cancel) /\ WF_vars(Restart)
    /\ \A m \in Msg : SF_vars(Lookup(m))

-----------------------------------------------------------------------------

(***************************************************************************)
(* A webhook is called again for a message only if a save failed, the      *)
(* worker crashed or it was told to stop in between: each such event costs *)
(* at most one more call per job (poller.go:81-122, no retries).           *)
(***************************************************************************)
RepeatsNeedAFault ==
    \A m \in Msg, j \in Job : calls[<<m, j>>] <= 1 + faults

(***************************************************************************)
(* No auto-reply without a webhook call: whatever fails or restarts, a     *)
(* sender never gets more replies from a job than the job had calls for    *)
(* that message (poller.go:102-112).                                       *)
(***************************************************************************)
RepliesFollowCalls ==
    \A m \in Msg, j \in Job : replies[<<m, j>>] <= calls[<<m, j>>]

(***************************************************************************)
(* Once a row is marked no webhook is called for it, not by a batch that   *)
(* was read earlier nor by a later process (poller.go:65-69, 81, 117).     *)
(***************************************************************************)
NoCallOnceProcessed ==
    [][\A m \in DOMAIN table, j \in Job :
          table[m].processed => calls'[<<m, j>>] = calls[<<m, j>>]]_vars

(***************************************************************************)
(* A row is marked only after the webhook of every job found for it has    *)
(* been called at least once, however the stop signal falls between the    *)
(* lookup, the calls and the save: a call skipped because the context is   *)
(* cancelled is made up for, since the save fails too (poller.go:91-121,   *)
(* webhook.go:43-55). Broken jobs never get a call.                        *)
(***************************************************************************)
MarkedAfterCalls ==
    [][\A m \in Unprocessed(table) :
          table'[m].processed =>
              \A j \in matched \ Broken : calls[<<m, j>>] > 0]_vars

(***************************************************************************)
(* The calls for a row come before its mark, all of them, and at least one *)
(* for each job found: a mark is never early and never ignored.            *)
(***************************************************************************)
CallsPrecedeMark == NoCallOnceProcessed /\ MarkedAfterCalls

(***************************************************************************)
(* The worker implements the abstract delivery: a row is marked only when  *)
(* each job that matched at its lookup has been tried in the same pass,    *)
(* and it is never unmarked.                                               *)
(***************************************************************************)
Abstract == INSTANCE Delivery WITH
    owed <- [m \in Msg |-> IF m = cur THEN matched ELSE {}],
    tried <- [m \in Msg |-> IF m = cur THEN {j \in matched : result[j] # "none"} ELSE {}],
    resolved <- IF cur = 0 THEN {} ELSE {cur}

ImplementsDelivery == Abstract!Spec

(***************************************************************************)
(* Every stored message is processed in the end, whatever the backlog and  *)
(* the restarts, unless the worker hangs in SendReply for ever, the one    *)
(* call without a timeout (poller.go:107, replier.go:48).                  *)
(***************************************************************************)
Hung == pc = "reply"

EveryMessageProcessed ==
    \A m \in Msg :
        m \in Unprocessed(table) ~> (m \notin Unprocessed(table) \/ []Hung)

(***************************************************************************)
(* A worker told to stop stops, unless it hangs in SendReply: the batch    *)
(* ends early because its queries are cancelled (cmd/worker/main.go:84-89, *)
(* poller.go:43-50).                                                       *)
(***************************************************************************)
StopsWhenTold == shutdown ~> (pc = "down" \/ []Hung)

(***************************************************************************)
(* What the comments at poller.go:101 and 106 say: auto-replies are sent   *)
(* for webhooks that succeeded.                                            *)
(***************************************************************************)
RepliesOnlyAfterSuccess ==
    [][\A j \in Job :
          (\E m \in Msg : replies'[<<m, j>>] > replies[<<m, j>>]) => result[j] = "success"]_vars

=============================================================================
