------------------------- MODULE MessagePollerProofs -------------------------
(***************************************************************************)
(* Proofs about the worker for any tables, jobs, batch size and number of  *)
(* faults: type correctness, and the safety properties of MessagePoller    *)
(* from one inductive invariant.                                           *)
(***************************************************************************)
EXTENDS MessagePoller, TLAPS

InPass == pc \in {"send", "call", "reply", "save"}

\* The shape of a pass: what is set and what is not at each place of the loop.
PassShape ==
    /\ ctxDone => shutdown
    /\ batch \subseteq Unprocessed(table)
    /\ pc \in {"down", "idle"} => batch = {}
    /\ pc # "call" => calling = {}
    /\ \A i, j \in calling : i = j
    /\ InPass => cur \in Unprocessed(table) \ batch
    /\ ~InPass => cur = 0 /\ matched = {} /\ todo = {} /\ result = NoResult
    /\ pc = "save" => todo = {}
    /\ pc \in {"send", "call"} =>
          \A j \in matched : j \in todo \/ j \in calling \/ result[j] # "none"
    /\ pc \in {"reply", "save"} => \A j \in matched : result[j] # "none"

\* The pass has settled job j: it will not call its webhook (again).
Settled(j) == pc \in {"reply", "save"} \/ (pc \in {"send", "call"} /\ j \notin todo)

Marked(m) == m \in DOMAIN table /\ table[m].processed

\* One call is paid for by the row being marked, or about to be; every other
\* call by a fault. Between the stop signal and the cancellation the signal
\* has been counted but not used yet.
Paid(m, j) == Marked(m) \/ (m = cur /\ Settled(j))

CallsArePaid ==
    \A m \in Msg, j \in Job :
        /\ ctxDone => calls[<<m, j>>] <= faults
        /\ Paid(m, j) /\ shutdown => calls[<<m, j>>] <= faults
        /\ Paid(m, j) => calls[<<m, j>>] <= faults + 1
        /\ ~Paid(m, j) => calls[<<m, j>>] <= faults
        /\ ~Paid(m, j) /\ shutdown /\ ~ctxDone => calls[<<m, j>>] + 1 <= faults

\* A reply that may still be sent in this pass has a call of its own.
ReplyDue(j) ==
    \/ pc = "reply" /\ j \in todo
    \/ pc \in {"send", "call"} /\ (j \in calling \/ result[j] \notin {"none", "error"})

RepliesArePaid ==
    \A m \in Msg, j \in Job :
        /\ replies[<<m, j>>] <= calls[<<m, j>>]
        /\ m = cur /\ ReplyDue(j) => replies[<<m, j>>] + 1 <= calls[<<m, j>>]

SettledAreCalled ==
    \A j \in matched \ Broken :
        InPass /\ Settled(j) /\ ~ctxDone => calls[<<cur, j>>] > 0

IInv == TypeOK /\ PassShape /\ CallsArePaid /\ RepliesArePaid /\ SettledAreCalled

-----------------------------------------------------------------------------

(***************************************************************************)
(* Facts about the operators.                                              *)
(***************************************************************************)

\* The jobs a message matches are jobs that exist (processor.go:104-137).
LEMMA MatchesExist ==
    ASSUME NEW J, NEW msg
    PROVE  ProcessMessage(J, msg) \subseteq J
BY DEF ProcessMessage, GetActiveJobs

\* A batch holds rows of the query's result only (poller.go:65-69).
LEMMA OldestIsSubset ==
    ASSUME NEW n, NEW S
    PROVE  Oldest(n, S) \subseteq S
BY DEF Oldest

\* Storing a message adds an unprocessed row and changes no other row
\* (server.go:97-108).
LEMMA StoreEffect ==
    ASSUME TypeOK, NEW m \in Msg, Store(m)
    PROVE  /\ DOMAIN table' \subseteq Msg
           /\ table' \in [DOMAIN table' -> Message]
           /\ Unprocessed(table) \subseteq Unprocessed(table')
           /\ \A k \in Msg : Marked(k)' <=> Marked(k)
<1>1. PICK msg \in Message : ~msg.processed /\ table' = Insert(table, m, msg)
  BY DEF Store
<1>2. /\ DOMAIN table' = DOMAIN table \union {m}
      /\ table'[m] = msg
      /\ \A k \in DOMAIN table : table'[k] = table[k]
  BY <1>1 DEF Store, Insert
<1> QED
  BY <1>1, <1>2 DEF TypeOK, Store, Insert, Unprocessed, Marked

\* Marking a row takes it out of the unprocessed rows and leaves the others
\* (poller.go:118-119).
LEMMA MarkEffect ==
    ASSUME TypeOK, NEW m \in DOMAIN table, Mark(m)
    PROVE  /\ DOMAIN table' = DOMAIN table
           /\ table' \in [DOMAIN table' -> Message]
           /\ Unprocessed(table') = Unprocessed(table) \ {m}
           /\ Marked(m)'
           /\ \A k \in Msg \ {m} : Marked(k)' <=> Marked(k)
<1>1. table[m] \in Message
  BY DEF TypeOK
<1>2. [table[m] EXCEPT !.processed = TRUE] \in Message
  BY <1>1 DEF Message
<1>3. /\ DOMAIN table' = DOMAIN table
      /\ table'[m] = [table[m] EXCEPT !.processed = TRUE]
      /\ \A k \in DOMAIN table \ {m} : table'[k] = table[k]
  BY DEF Mark, TypeOK
<1>4. table'[m].processed = TRUE
  BY <1>1, <1>3 DEF Message
<1> QED
  BY <1>2, <1>3, <1>4 DEF TypeOK, Mark, Unprocessed, Marked

-----------------------------------------------------------------------------

(***************************************************************************)
(* Type correctness. The shape of a pass is needed: Lookup replaces the    *)
(* matched jobs, so no call of the previous pass may still be running.     *)
(***************************************************************************)
LEMMA TypeStep ==
    ASSUME TypeOK, PassShape, [Next]_vars
    PROVE  TypeOK'
<1> USE JobsAssumption, PollerAssumption
<1>1. ASSUME NEW m \in Msg, Store(m)
      PROVE  TypeOK'
  BY <1>1, StoreEffect DEF TypeOK, Store, process, pass, history
<1>2. ASSUME NEW j \in Job, JobAdd(j) \/ JobDelete(j)
      PROVE  TypeOK'
  BY <1>2 DEF TypeOK, JobAdd, JobDelete, process, pass, history
<1>3. CASE Restart \/ Cancel \/ Stop \/ EndBatch \/ EndReplies
  BY <1>3 DEF TypeOK, Restart, Cancel, Stop, EndBatch, EndReplies, shared, pass, history
<1>4. CASE Poll
  <2>1. batch' \subseteq Unprocessed(table)
    BY <1>4, OldestIsSubset DEF Poll
  <2> QED
    BY <1>4, <2>1 DEF TypeOK, Poll, Unprocessed, shared, history
<1>5. CASE Signal
  BY <1>5 DEF TypeOK, Signal, shared, pass, history
<1>6. CASE Crash
  BY <1>6 DEF TypeOK, Crash, EndPass, NoResult, Outcome, shared, history
<1>7. ASSUME NEW m \in Msg, Lookup(m)
      PROVE  TypeOK'
  <2>1. matched' \subseteq Job
    BY <1>7, MatchesExist DEF TypeOK, Lookup
  <2>2. calling' = {}
    BY <1>7 DEF Lookup, PassShape
  <2> QED
    BY <1>7, <2>1, <2>2 DEF TypeOK, Lookup, shared, history
<1>8. ASSUME NEW m \in Msg, LookupFails(m)
      PROVE  TypeOK'
  BY <1>8 DEF TypeOK, LookupFails, shared, process, history
<1>9. ASSUME NEW j \in Job, SkipWebhook(j)
      PROVE  TypeOK'
  BY <1>9 DEF TypeOK, SkipWebhook, Outcome, shared, process, history
<1>10. ASSUME NEW j \in Job, CallWebhook(j)
       PROVE  TypeOK'
  <2>1. cur \in Msg
    BY <1>10 DEF CallWebhook, PassShape, InPass, Unprocessed, TypeOK
  <2>2. calls' \in [Msg \X Job -> Nat]
    BY <1>10, <2>1 DEF CallWebhook, TypeOK
  <2> QED
    BY <1>10, <2>2 DEF TypeOK, CallWebhook, shared
<1>11. ASSUME NEW j \in Job, WebhookReturns(j)
       PROVE  TypeOK'
  BY <1>11 DEF TypeOK, WebhookReturns, Outcome, shared, history
<1>12. CASE StartReplies
  BY <1>12 DEF TypeOK, StartReplies, shared, history
<1>13. ASSUME NEW j \in Job, SendReply(j)
       PROVE  TypeOK'
  <2>1. cur \in Msg
    BY <1>13 DEF SendReply, PassShape, InPass, Unprocessed, TypeOK
  <2>2. replies' \in [Msg \X Job -> Nat]
    BY <1>13, <2>1 DEF SendReply, TypeOK
  <2> QED
    BY <1>13, <2>2 DEF TypeOK, SendReply, shared, process
<1>14. CASE Save \/ SaveFails
  <2>1. cur \in DOMAIN table
    BY <1>14 DEF Save, SaveFails, PassShape, InPass, Unprocessed
  <2>2. DOMAIN table' \subseteq Msg /\ table' \in [DOMAIN table' -> Message]
    BY <1>14, <2>1, MarkEffect DEF Save, SaveFails, TypeOK
  <2> QED
    BY <1>14, <2>2 DEF TypeOK, Save, SaveFails, EndPass, NoResult, Outcome, history
<1>15. CASE UNCHANGED vars
  BY <1>15 DEF TypeOK, vars, shared, process, pass, history
<1> QED
  BY <1>1, <1>2, <1>3, <1>4, <1>5, <1>6, <1>7, <1>8, <1>9, <1>10, <1>11, <1>12,
     <1>13, <1>14, <1>15
  DEF Next, Environment, Worker

LEMMA ShapeStep ==
    ASSUME TypeOK, PassShape, [Next]_vars
    PROVE  PassShape'
<1> USE DEF InPass
<1>1. ASSUME NEW m \in Msg, Store(m)
      PROVE  PassShape'
  BY <1>1, StoreEffect DEF PassShape, Store, process, pass
<1>2. ASSUME NEW j \in Job, JobAdd(j) \/ JobDelete(j)
      PROVE  PassShape'
  BY <1>2 DEF PassShape, JobAdd, JobDelete, process, pass
<1>3. CASE Restart \/ Cancel \/ Stop \/ EndBatch \/ Signal
  BY <1>3 DEF PassShape, Restart, Cancel, Stop, EndBatch, Signal, shared, pass
<1>4. CASE EndReplies
  BY <1>4 DEF PassShape, EndReplies, shared, pass
<1>5. CASE Poll
  BY <1>5, OldestIsSubset DEF PassShape, Poll, shared
<1>6. CASE Crash
  BY <1>6 DEF PassShape, Crash, EndPass, shared
<1>7. ASSUME NEW m \in Msg, Lookup(m) \/ LookupFails(m)
      PROVE  PassShape'
  BY <1>7 DEF PassShape, Lookup, LookupFails, First, shared, process
<1>8. ASSUME NEW j \in Job, SkipWebhook(j)
      PROVE  PassShape'
  BY <1>8 DEF PassShape, SkipWebhook, TypeOK, shared, process
<1>9. ASSUME NEW j \in Job, CallWebhook(j)
      PROVE  PassShape'
  BY <1>9 DEF PassShape, CallWebhook, shared
<1>10. ASSUME NEW j \in Job, WebhookReturns(j)
       PROVE  PassShape'
  BY <1>10 DEF PassShape, WebhookReturns, TypeOK, shared
<1>11. CASE StartReplies
  BY <1>11 DEF PassShape, StartReplies, shared
<1>12. ASSUME NEW j \in Job, SendReply(j)
       PROVE  PassShape'
  BY <1>12 DEF PassShape, SendReply, shared, process
<1>13. CASE Save \/ SaveFails
  <2>1. cur \in DOMAIN table /\ cur \notin batch
    BY <1>13 DEF Save, SaveFails, PassShape, Unprocessed
  <2>2. Unprocessed(table) \ {cur} \subseteq Unprocessed(table')
    BY <1>13, <2>1, MarkEffect DEF Save, SaveFails
  <2> QED
    BY <1>13, <2>1, <2>2 DEF PassShape, Save, SaveFails, EndPass
<1>14. CASE UNCHANGED vars
  BY <1>14 DEF PassShape, vars, shared, process, pass
<1> QED
  BY <1>1, <1>2, <1>3, <1>4, <1>5, <1>6, <1>7, <1>8, <1>9, <1>10, <1>11, <1>12,
     <1>13, <1>14
  DEF Next, Environment, Worker

-----------------------------------------------------------------------------

(***************************************************************************)
(* The accounts of calls and replies.                                      *)
(***************************************************************************)
LEMMA CallsStep ==
    ASSUME TypeOK, PassShape, CallsArePaid, [Next]_vars
    PROVE  CallsArePaid'
<1> USE DEF InPass
<1> SUFFICES ASSUME NEW m \in Msg, NEW j \in Job
             PROVE  (/\ ctxDone => calls[<<m, j>>] <= faults
                     /\ Paid(m, j) /\ shutdown => calls[<<m, j>>] <= faults
                     /\ Paid(m, j) => calls[<<m, j>>] <= faults + 1
                     /\ ~Paid(m, j) => calls[<<m, j>>] <= faults
                     /\ ~Paid(m, j) /\ shutdown /\ ~ctxDone =>
                            calls[<<m, j>>] + 1 <= faults)'
  BY DEF CallsArePaid
<1> DEFINE c == calls[<<m, j>>]
<1>a. /\ ctxDone => c <= faults
      /\ Paid(m, j) /\ shutdown => c <= faults
      /\ Paid(m, j) => c <= faults + 1
      /\ ~Paid(m, j) => c <= faults
      /\ ~Paid(m, j) /\ shutdown /\ ~ctxDone => c + 1 <= faults
  BY DEF CallsArePaid
<1>b. c \in Nat /\ faults \in Nat
  BY DEF TypeOK
<1>c. Marked(m) => m \notin Unprocessed(table)
  BY DEF Marked, Unprocessed
<1> DEFINE Same == (Paid(m, j)' <=> Paid(m, j)) /\ UNCHANGED <<ctxDone, shutdown, calls, faults>>
           Goal == (/\ ctxDone => c <= faults
                    /\ Paid(m, j) /\ shutdown => c <= faults
                    /\ Paid(m, j) => c <= faults + 1
                    /\ ~Paid(m, j) => c <= faults
                    /\ ~Paid(m, j) /\ shutdown /\ ~ctxDone => c + 1 <= faults)'
<1>d. ASSUME Same PROVE Goal
  BY <1>a, <1>d
<1> SUFFICES Goal
  OBVIOUS
<1> HIDE DEF Goal
<1>1. ASSUME NEW k \in Msg, Store(k)
      PROVE  Goal
  BY <1>1, <1>d, StoreEffect DEF Store, process, pass, history, Paid, Settled
<1>2. ASSUME NEW i \in Job, JobAdd(i) \/ JobDelete(i)
      PROVE  Goal
  BY <1>2, <1>d DEF JobAdd, JobDelete, process, pass, history, Paid, Settled, Marked
<1>3. CASE Restart
  BY <1>3, <1>a, <1>b DEF Restart, shared, pass, history, Paid, Settled, Marked, Goal
<1>4. CASE Poll \/ Stop \/ EndBatch \/ StartReplies \/ EndReplies
  <2>1. UNCHANGED <<table, cur, shutdown, ctxDone, calls, faults>>
    BY <1>4 DEF Poll, Stop, EndBatch, StartReplies, EndReplies, shared, pass, history
  <2>2. Settled(j)' <=> Settled(j)
    BY <1>4 DEF Poll, Stop, EndBatch, StartReplies, EndReplies, pass, Settled
  <2> QED
    BY <1>d, <2>1, <2>2 DEF Paid, Marked
<1>5. CASE Signal
  BY <1>5, <1>a, <1>b DEF Signal, shared, pass, history, Paid, Settled, Marked, Goal, PassShape
<1>6. CASE Cancel
  BY <1>6, <1>a, <1>b DEF Cancel, shared, pass, history, Paid, Settled, Marked, Goal
<1>7. CASE Crash
  BY <1>7, <1>a, <1>b DEF Crash, EndPass, shared, history, Paid, Settled, Marked, Goal
<1>8. ASSUME NEW k \in Msg, Lookup(k)
      PROVE  Goal
  <2>1. Paid(m, j) => Paid(m, j)'
    BY <1>8 DEF Lookup, PassShape, Paid, Settled, Marked, shared
  <2> QED
    BY <1>8, <1>a, <1>b, <2>1 DEF Lookup, history, Goal
<1>9. ASSUME NEW k \in Msg, LookupFails(k)
      PROVE  Goal
  BY <1>9, <1>d DEF LookupFails, shared, process, history, Paid, Settled, Marked
<1>10. ASSUME NEW i \in Job, SkipWebhook(i)
       PROVE  Goal
  <2>1. Paid(m, j) => Paid(m, j)'
    BY <1>10 DEF SkipWebhook, Paid, Settled, Marked, shared, process
  <2> QED
    BY <1>10, <1>a, <1>b, <2>1 DEF SkipWebhook, process, history, Goal
<1>11. ASSUME NEW i \in Job, CallWebhook(i)
       PROVE  Goal
  <2>1. CASE m = cur /\ j = i
    <3>1. ~Paid(m, j)
      BY <1>11, <2>1, <1>c DEF CallWebhook, Paid, Settled, PassShape
    <3>2. Paid(m, j)'
      BY <1>11, <2>1 DEF CallWebhook, Paid, Settled
    <3>3. c' = c + 1
      BY <1>11, <2>1 DEF CallWebhook, TypeOK
    <3> QED
      BY <1>11, <1>a, <1>b, <3>1, <3>2, <3>3 DEF CallWebhook, Goal
  <2>2. CASE ~(m = cur /\ j = i)
    <3>1. c' = c
      BY <1>11, <2>2 DEF CallWebhook, TypeOK
    <3>2. Paid(m, j)' <=> Paid(m, j)
      BY <1>11, <2>2 DEF CallWebhook, Paid, Settled, Marked, shared
    <3> QED
      BY <1>11, <1>a, <3>1, <3>2 DEF CallWebhook, Goal
  <2> QED
    BY <2>1, <2>2
<1>12. ASSUME NEW i \in Job, WebhookReturns(i) \/ SendReply(i)
       PROVE  Goal
  BY <1>12, <1>d DEF WebhookReturns, SendReply, shared, process, history, Paid, Settled, Marked
<1>13. CASE Save \/ SaveFails
  <2>1. cur \in DOMAIN table
    BY <1>13 DEF Save, SaveFails, PassShape, Unprocessed
  <2>2. CASE Mark(cur)
    <3>1. Paid(m, j)' <=> Paid(m, j)
      BY <1>13, <2>1, <2>2, MarkEffect DEF Save, SaveFails, EndPass, Paid, Settled, PassShape
    <3> QED
      BY <1>13, <1>a, <1>b, <3>1 DEF Save, SaveFails, history, Goal
  <2>3. CASE UNCHANGED table
    <3>1. Marked(m)' <=> Marked(m)
      BY <2>3 DEF Marked
    <3>2. Paid(m, j)' => Paid(m, j)
      BY <1>13, <3>1 DEF Save, SaveFails, EndPass, Paid, Settled, PassShape
    <3>3. ~Mark(cur) => SaveFails
      BY <1>13 DEF Save
    <3> QED
      BY <1>a, <1>b, <3>2, <3>3, <2>2 DEF SaveFails, history, Goal
  <2> QED
    BY <1>13, <2>2, <2>3 DEF Save, SaveFails
<1>14. CASE UNCHANGED vars
  <2>1. UNCHANGED <<table, cur, pc, todo, shutdown, ctxDone, calls, faults>>
    BY <1>14 DEF vars, shared, process, pass, history
  <2> QED
    BY <1>d, <2>1 DEF Paid, Settled, Marked
<1> QED
  BY <1>1, <1>2, <1>3, <1>4, <1>5, <1>6, <1>7, <1>8, <1>9, <1>10, <1>11, <1>12,
     <1>13, <1>14
  DEF Next, Environment, Worker

LEMMA RepliesStep ==
    ASSUME TypeOK, PassShape, RepliesArePaid, [Next]_vars
    PROVE  RepliesArePaid'
<1> USE DEF InPass
<1> SUFFICES ASSUME NEW m \in Msg, NEW j \in Job
             PROVE  (/\ replies[<<m, j>>] <= calls[<<m, j>>]
                     /\ m = cur /\ ReplyDue(j) => replies[<<m, j>>] + 1 <= calls[<<m, j>>])'
  BY DEF RepliesArePaid
<1> DEFINE c == calls[<<m, j>>]
           r == replies[<<m, j>>]
           Due == m = cur /\ ReplyDue(j)
           Goal == r' <= c' /\ (Due' => r' + 1 <= c')
<1>a. r <= c /\ (Due => r + 1 <= c)
  BY DEF RepliesArePaid
<1>b. c \in Nat /\ r \in Nat
  BY DEF TypeOK
<1>c. 0 \notin Msg
  BY PollerAssumption
<1>d. ASSUME Due' => Due, UNCHANGED history
      PROVE  Goal
  BY <1>a, <1>d DEF history
<1> SUFFICES Goal
  OBVIOUS
<1> HIDE DEF Goal
<1>1. ASSUME NEW k \in Msg, Store(k)
      PROVE  Goal
  BY <1>1, <1>d DEF Store, process, pass, ReplyDue
<1>2. ASSUME NEW i \in Job, JobAdd(i) \/ JobDelete(i)
      PROVE  Goal
  BY <1>2, <1>d DEF JobAdd, JobDelete, process, pass, ReplyDue
<1>3. CASE Restart \/ Poll \/ Signal \/ Cancel \/ Stop \/ EndBatch \/ EndReplies
  <2>1. Due' => Due
    BY <1>3 DEF Restart, Poll, Signal, Cancel, Stop, EndBatch, EndReplies, pass, ReplyDue
  <2> QED
    BY <1>3, <1>d, <2>1 DEF Restart, Poll, Signal, Cancel, Stop, EndBatch, EndReplies
<1>4. CASE Crash
  BY <1>4, <1>d DEF Crash, ReplyDue
<1>5. ASSUME NEW k \in Msg, Lookup(k) \/ LookupFails(k)
      PROVE  Goal
  BY <1>5, <1>d DEF Lookup, LookupFails, process, ReplyDue, PassShape, NoResult
<1>6. ASSUME NEW i \in Job, SkipWebhook(i)
      PROVE  Goal
  <2>1. Due' => Due
    BY <1>6 DEF SkipWebhook, process, ReplyDue, TypeOK
  <2> QED
    BY <1>6, <1>d, <2>1 DEF SkipWebhook
<1>7. ASSUME NEW i \in Job, CallWebhook(i)
      PROVE  Goal
  <2>1. CASE m = cur /\ j = i
    <3>1. c' = c + 1 /\ r' = r
      BY <1>7, <2>1 DEF CallWebhook, TypeOK
    <3> QED
      BY <1>a, <1>b, <3>1 DEF Goal
  <2>2. CASE ~(m = cur /\ j = i)
    <3>1. c' = c /\ r' = r
      BY <1>7, <2>2 DEF CallWebhook, TypeOK
    <3>2. Due' => Due
      BY <1>7, <2>2 DEF CallWebhook, ReplyDue
    <3> QED
      BY <1>a, <3>1, <3>2 DEF Goal
  <2> QED
    BY <2>1, <2>2
<1>8. ASSUME NEW i \in Job, WebhookReturns(i)
      PROVE  Goal
  <2>1. Due' => Due
    BY <1>8 DEF WebhookReturns, ReplyDue, TypeOK
  <2> QED
    BY <1>8, <1>d, <2>1 DEF WebhookReturns
<1>9. CASE StartReplies
  <2>1. Due' => Due
    BY <1>9 DEF StartReplies, ReplyDue, WantsReply, PassShape
  <2> QED
    BY <1>9, <1>d, <2>1 DEF StartReplies
<1>10. ASSUME NEW i \in Job, SendReply(i)
       PROVE  Goal
  <2>1. CASE m = cur /\ j = i
    <3>1. Due /\ ~Due'
      BY <1>10, <2>1 DEF SendReply, process, ReplyDue
    <3>2. c' = c /\ r' \in {r, r + 1}
      BY <1>10, <2>1 DEF SendReply, TypeOK
    <3> QED
      BY <1>a, <1>b, <3>1, <3>2 DEF Goal
  <2>2. CASE ~(m = cur /\ j = i)
    <3>1. c' = c /\ r' = r
      BY <1>10, <2>2 DEF SendReply, TypeOK
    <3>2. Due' => Due
      BY <1>10, <2>2 DEF SendReply, process, ReplyDue
    <3> QED
      BY <1>a, <3>1, <3>2 DEF Goal
  <2> QED
    BY <2>1, <2>2
<1>11. CASE Save \/ SaveFails
  BY <1>11, <1>c, <1>d DEF Save, SaveFails, EndPass
<1>12. CASE UNCHANGED vars
  <2>1. UNCHANGED <<pc, cur, todo, calling, result, history>>
    BY <1>12 DEF vars, process, pass
  <2> QED
    BY <1>d, <2>1 DEF ReplyDue
<1> QED
  BY <1>1, <1>2, <1>3, <1>4, <1>5, <1>6, <1>7, <1>8, <1>9, <1>10, <1>11, <1>12
  DEF Next, Environment, Worker

LEMMA SettledStep ==
    ASSUME TypeOK, PassShape, SettledAreCalled, [Next]_vars
    PROVE  SettledAreCalled'
<1> USE DEF InPass
<1> DEFINE Owes(j) == j \in matched \ Broken /\ InPass /\ Settled(j) /\ ~ctxDone
<1>a. \A j \in Job : Owes(j) => calls[<<cur, j>>] > 0
  BY DEF SettledAreCalled
<1> SUFFICES ASSUME NEW j \in Job, Owes(j)'
             PROVE  (calls[<<cur, j>>] > 0)'
  <2>1. matched' \subseteq Job
    BY TypeStep DEF TypeOK
  <2> QED
    BY <2>1 DEF SettledAreCalled
<1>d. ASSUME Owes(j), UNCHANGED <<cur, calls>>
      PROVE  (calls[<<cur, j>>] > 0)'
  BY <1>a, <1>d
<1>1. ASSUME NEW k \in Msg, Store(k)
      PROVE  (calls[<<cur, j>>] > 0)'
  BY <1>1, <1>d DEF Store, process, pass, history, Settled
<1>2. ASSUME NEW i \in Job, JobAdd(i) \/ JobDelete(i)
      PROVE  (calls[<<cur, j>>] > 0)'
  BY <1>2, <1>d DEF JobAdd, JobDelete, process, pass, history, Settled
<1>3. CASE Restart \/ Poll \/ Stop \/ EndBatch \/ Crash
  BY <1>3 DEF Restart, Poll, Stop, EndBatch, Crash, Settled
<1>4. CASE Signal \/ Cancel
  BY <1>4, <1>d DEF Signal, Cancel, pass, history, Settled
<1>5. ASSUME NEW k \in Msg, Lookup(k) \/ LookupFails(k)
      PROVE  (calls[<<cur, j>>] > 0)'
  BY <1>5 DEF Lookup, LookupFails, process, Settled
<1>6. ASSUME NEW i \in Job, SkipWebhook(i)
      PROVE  (calls[<<cur, j>>] > 0)'
  BY <1>6, <1>d DEF SkipWebhook, process, history, Settled
<1>7. ASSUME NEW i \in Job, CallWebhook(i)
      PROVE  (calls[<<cur, j>>] > 0)'
  <2>1. cur \in Msg
    BY <1>7 DEF CallWebhook, PassShape, Unprocessed, TypeOK
  <2>2. CASE j = i
    BY <1>7, <2>1, <2>2 DEF CallWebhook, TypeOK
  <2>3. CASE j # i
    <3>1. Owes(j)
      BY <1>7, <2>3 DEF CallWebhook, Settled
    <3>2. calls'[<<cur, j>>] = calls[<<cur, j>>] /\ cur' = cur
      BY <1>7, <2>1, <2>3 DEF CallWebhook, TypeOK
    <3> QED
      BY <1>a, <3>1, <3>2
  <2> QED
    BY <2>2, <2>3
<1>8. ASSUME NEW i \in Job, WebhookReturns(i) \/ SendReply(i)
      PROVE  (calls[<<cur, j>>] > 0)'
  BY <1>8, <1>d DEF WebhookReturns, SendReply, process, history, Settled
<1>9. CASE StartReplies \/ EndReplies
  BY <1>9, <1>d DEF StartReplies, EndReplies, pass, history, Settled
<1>10. CASE Save \/ SaveFails
  BY <1>10 DEF Save, SaveFails
<1>11. CASE UNCHANGED vars
  <2>1. UNCHANGED <<pc, ctxDone, cur, matched, todo, calls>>
    BY <1>11 DEF vars, process, pass, history
  <2> QED
    BY <1>d, <2>1 DEF Settled
<1> QED
  BY <1>1, <1>2, <1>3, <1>4, <1>5, <1>6, <1>7, <1>8, <1>9, <1>10, <1>11
  DEF Next, Environment, Worker

-----------------------------------------------------------------------------

LEMMA InitIInv == Init => IInv
<1> SUFFICES ASSUME Init
             PROVE  IInv
  OBVIOUS
<1> USE PollerAssumption, JobsAssumption
<1>1. DOMAIN table = {} /\ table \in [DOMAIN table -> Message]
  BY DEF Init
<1>2. TypeOK
  BY <1>1 DEF Init, TypeOK, NoResult, Outcome
<1>3. PassShape
  BY <1>1 DEF Init, PassShape, InPass, Unprocessed
<1>4. \A m \in Msg, j \in Job : calls[<<m, j>>] = 0 /\ replies[<<m, j>>] = 0
  BY DEF Init
<1>5. CallsArePaid
  <2> SUFFICES ASSUME NEW m \in Msg, NEW j \in Job
               PROVE  /\ calls[<<m, j>>] <= faults
                      /\ calls[<<m, j>>] <= faults + 1
                      /\ ~shutdown
    BY DEF CallsArePaid
  <2>1. calls[<<m, j>>] = 0 /\ faults = 0 /\ ~shutdown
    BY <1>4 DEF Init
  <2> QED
    BY <2>1
<1>6. RepliesArePaid
  <2> SUFFICES ASSUME NEW m \in Msg, NEW j \in Job
               PROVE  replies[<<m, j>>] <= calls[<<m, j>>] /\ ~ReplyDue(j)
    BY DEF RepliesArePaid
  <2>1. replies[<<m, j>>] <= calls[<<m, j>>]
    BY <1>4
  <2> QED
    BY <2>1 DEF Init, ReplyDue
<1>7. SettledAreCalled
  BY DEF Init, SettledAreCalled
<1> QED
  BY <1>2, <1>3, <1>5, <1>6, <1>7 DEF IInv

LEMMA StepIInv == IInv /\ [Next]_vars => IInv'
BY TypeStep, ShapeStep, CallsStep, RepliesStep, SettledStep DEF IInv

\* The inductive invariant holds throughout (poller.go:37-125).
THEOREM Invariance == Spec => []IInv
<1> QED
  BY InitIInv, StepIInv, PTL DEF Spec

\* The variables keep their types: the rows their columns, the loops the
\* lists they run over (poller.go:11-20, 61-125).
THEOREM TypeCorrect == Spec => []TypeOK
<1>1. IInv => TypeOK
  BY DEF IInv
<1> QED
  BY <1>1, Invariance, PTL

\* A webhook is repeated for a message only at the price of a failed save, a
\* crash or a stop signal, each of which buys one more call
\* (poller.go:81-122).
THEOREM RepeatsTheorem == Spec => []RepeatsNeedAFault
<1>1. IInv => RepeatsNeedAFault
  <2> SUFFICES ASSUME IInv, NEW m \in Msg, NEW j \in Job
               PROVE  calls[<<m, j>>] <= 1 + faults
    BY DEF RepeatsNeedAFault
  <2>1. calls[<<m, j>>] \in Nat /\ faults \in Nat
    BY DEF IInv, TypeOK
  <2> QED
    BY <2>1 DEF IInv, CallsArePaid
<1> QED
  BY <1>1, Invariance, PTL

\* No sender gets more replies from a job than the job had calls for the
\* message (poller.go:102-112).
THEOREM RepliesTheorem == Spec => []RepliesFollowCalls
<1>1. IInv => RepliesFollowCalls
  BY DEF IInv, RepliesArePaid, RepliesFollowCalls
<1> QED
  BY <1>1, Invariance, PTL

(***************************************************************************)
(* Action properties.                                                      *)
(***************************************************************************)

\* What a step does to the marks and the counts of calls.
LEMMA CallingStep ==
    ASSUME IInv, [Next]_vars, NEW m \in Msg, NEW j \in Job,
           calls'[<<m, j>>] # calls[<<m, j>>]
    PROVE  m \in Unprocessed(table)
<1>1. PICK i \in Job : CallWebhook(i)
  BY DEF Next, Environment, Worker, vars, history, Store, JobAdd, JobDelete, Restart,
     Poll, Cancel, Stop, EndBatch, StartReplies, EndReplies, Save, SaveFails, Lookup,
     LookupFails, SkipWebhook, WebhookReturns, SendReply, Signal, Crash
<1>2. m = cur
  BY <1>1 DEF CallWebhook, IInv, TypeOK
<1> QED
  BY <1>1, <1>2 DEF CallWebhook, IInv, PassShape, InPass

LEMMA MarkingStep ==
    ASSUME IInv, [Next]_vars, NEW m \in Unprocessed(table), table'[m].processed
    PROVE  pc = "save" /\ ~ctxDone /\ m = cur
<1>1. m \in DOMAIN table /\ ~table[m].processed
  BY DEF Unprocessed
<1>2. ASSUME NEW k \in Msg, Store(k)
      PROVE  FALSE
  <2>1. m \in Msg /\ ~Marked(m) /\ m \in Unprocessed(table')
    BY <1>1, <1>2, StoreEffect DEF IInv, TypeOK, Marked
  <2> QED
    BY <2>1 DEF Unprocessed
<1>3. CASE table' = table
  BY <1>1, <1>3
<1>4. CASE Save \/ SaveFails
  <2>1. cur \in DOMAIN table
    BY <1>4 DEF Save, SaveFails, IInv, PassShape, InPass, Unprocessed
  <2>2. CASE Mark(cur)
    <3>1. m = cur
      BY <1>1, <2>1, <2>2, MarkEffect DEF IInv, Unprocessed
    <3>2. table' # table
      BY <1>1
    <3> QED
      BY <1>4, <3>1, <3>2 DEF Save, SaveFails
  <2> QED
    BY <1>3, <1>4, <2>2 DEF Save, SaveFails
<1> QED
  BY <1>2, <1>3, <1>4
  DEF Next, Environment, Worker, vars, shared, JobAdd, JobDelete, Restart,
      Poll, Cancel, Stop, EndBatch, StartReplies, EndReplies, Lookup,
      LookupFails, SkipWebhook, CallWebhook, WebhookReturns, SendReply, Signal, Crash

\* Once a row is marked no webhook is called for it (poller.go:65-69, 81, 117).
THEOREM NoCallTheorem == Spec => NoCallOnceProcessed
<1>1. IInv /\ [Next]_vars =>
        [\A m \in DOMAIN table, j \in Job :
            table[m].processed => calls'[<<m, j>>] = calls[<<m, j>>]]_vars
  <2> SUFFICES ASSUME IInv, [Next]_vars, NEW m \in DOMAIN table, NEW j \in Job,
                      table[m].processed
               PROVE  calls'[<<m, j>>] = calls[<<m, j>>]
    OBVIOUS
  <2>1. m \in Msg /\ m \notin Unprocessed(table)
    BY DEF IInv, TypeOK, Unprocessed
  <2> QED
    BY <2>1, CallingStep
<1> QED
  BY <1>1, Invariance, PTL DEF Spec, NoCallOnceProcessed

\* A row is marked only after every unbroken job found for it was called, however
\* the stop signal falls (poller.go:91-121, webhook.go:43-55).
THEOREM MarkedTheorem == Spec => MarkedAfterCalls
<1>1. IInv /\ [Next]_vars =>
        [\A m \in Unprocessed(table) :
            table'[m].processed =>
                \A j \in matched \ Broken : calls[<<m, j>>] > 0]_vars
  BY MarkingStep DEF IInv, SettledAreCalled, InPass, Settled
<1> QED
  BY <1>1, Invariance, PTL DEF Spec, MarkedAfterCalls

(***************************************************************************)
(* No call after the mark, and none missing before it (poller.go:65-121).  *)
(***************************************************************************)
THEOREM CallsTheorem == Spec => CallsPrecedeMark
BY NoCallTheorem, MarkedTheorem, PTL DEF CallsPrecedeMark

(***************************************************************************)
(* Refinement. The pass of the current message is the abstract attempt.    *)
(***************************************************************************)
attempt == <<cur, matched, result>>

\* The instance of Delivery reads the tables as this module does.
LEMMA SameOperators ==
    /\ Abstract!Message = Message
    /\ \A J : Abstract!UniqueEmails(J) <=> UniqueEmails(J)
    /\ \A J, msg : Abstract!ProcessMessage(J, msg) = ProcessMessage(J, msg)
    /\ \A t : Abstract!Unprocessed(t) = Unprocessed(t)
    /\ \A t, m, msg : Abstract!Insert(t, m, msg) = Insert(t, m, msg)
BY DEF Abstract!Message, Message, Abstract!UniqueEmails, UniqueEmails,
       Abstract!ProcessMessage, ProcessMessage, Abstract!GetActiveJobs, GetActiveJobs,
       Abstract!Unprocessed, Unprocessed, Abstract!Insert, Insert

\* Initially nothing is attempted.
LEMMA InitRefines == Init => Abstract!Init
<1> SUFFICES ASSUME Init
             PROVE  Abstract!Init
  OBVIOUS
<1>1. jobs \in {J \in SUBSET Job : Abstract!UniqueEmails(J)}
  BY SameOperators DEF Init
<1> QED
  BY <1>1, PollerAssumption DEF Init, Abstract!Init

\* Steps that leave the rows, the jobs and the pass alone are stutters.
LEMMA Stutter ==
    ASSUME UNCHANGED <<table, jobs, attempt>>
    PROVE  UNCHANGED Abstract!vars
BY DEF Abstract!vars, attempt

\* The end of a pass, with or without marking the row (poller.go:117-121).
LEMMA EndRefines ==
    ASSUME IInv, InPass, EndPass, UNCHANGED jobs,
           UNCHANGED table \/ (Mark(cur) /\ pc = "save")
    PROVE  Abstract!Next
<1>1. PICK m \in Msg : m = cur /\ m # 0 /\ cur' = 0
  BY PollerAssumption DEF IInv, PassShape, Unprocessed, TypeOK, EndPass
<1>2. Abstract!Leave(m)
  BY <1>1, PollerAssumption DEF EndPass, Abstract!Leave
<1>3. CASE UNCHANGED table
  BY <1>1, <1>2, <1>3 DEF Abstract!Next, Abstract!GiveUp
<1>4. CASE Mark(cur) /\ pc = "save"
  <2>1. {j \in matched : result[j] # "none"} = matched
    BY <1>4 DEF IInv, PassShape
  <2>2. Abstract!Finish(m)
    BY <1>1, <1>2, <1>4, <2>1 DEF Abstract!Finish, Mark
  <2> QED
    BY <2>2 DEF Abstract!Next
<1> QED
  BY <1>3, <1>4

\* A result arrives: the job has been tried (webhook.go:43-55).
LEMMA ResultRefines ==
    ASSUME IInv, InPass, NEW j \in matched, result[j] = "none",
           NEW o \in Outcome \ {"none"}, result' = [result EXCEPT ![j] = o],
           UNCHANGED <<table, jobs, cur, matched>>
    PROVE  Abstract!Next
<1>1. PICK m \in Msg : m = cur /\ m # 0
  BY PollerAssumption DEF IInv, PassShape, Unprocessed, TypeOK
<1>2. {i \in matched : result'[i] # "none"} = {i \in matched : result[i] # "none"} \union {j}
  BY DEF IInv, TypeOK
<1>3. Abstract!Try(m)
  BY <1>1, <1>2 DEF Abstract!Try
<1> QED
  BY <1>3 DEF Abstract!Next

LEMMA StepRefines == IInv /\ [Next]_vars => [Abstract!Next]_(Abstract!vars)
<1> SUFFICES ASSUME IInv, [Next]_vars
             PROVE  Abstract!Next \/ UNCHANGED Abstract!vars
  OBVIOUS
<1> DEFINE Goal == Abstract!Next \/ UNCHANGED Abstract!vars
<1>0. ASSUME UNCHANGED <<table, jobs, attempt>>
      PROVE  Goal
  BY <1>0, Stutter
<1> SUFFICES Goal
  OBVIOUS
<1> HIDE DEF Goal
<1>1. ASSUME NEW m \in Msg, Store(m)
      PROVE  Goal
  <2>1. \E msg \in Abstract!Message : ~msg.processed /\ table' = Abstract!Insert(table, m, msg)
    BY <1>1, SameOperators DEF Store
  <2>2. Abstract!Accept(m)
    BY <1>1, <2>1 DEF Store, Abstract!Accept, pass
  <2> QED
    BY <2>2 DEF Goal, Abstract!Next
<1>2. ASSUME NEW j \in Job, JobAdd(j) \/ JobDelete(j)
      PROVE  Goal
  <2>1. jobs' \in SUBSET Job /\ UNCHANGED <<table, pass>>
    BY <1>2 DEF JobAdd, JobDelete, IInv, TypeOK
  <2>2. Abstract!ChangeJobs
    BY <2>1 DEF Abstract!ChangeJobs, pass
  <2> QED
    BY <2>2 DEF Goal, Abstract!Next
<1>3. CASE Restart \/ Poll \/ Signal \/ Cancel \/ Stop \/ EndBatch \/ StartReplies \/ EndReplies
  BY <1>3, <1>0
  DEF Restart, Poll, Signal, Cancel, Stop, EndBatch, StartReplies, EndReplies, shared, pass, attempt
<1>4. CASE Crash
  <2>1. CASE InPass
    BY <1>4, <2>1, EndRefines DEF Crash, shared, Goal
  <2>2. CASE ~InPass
    BY <1>4, <2>2, <1>0 DEF Crash, EndPass, shared, attempt, IInv, PassShape
  <2> QED
    BY <2>1, <2>2
<1>5. ASSUME NEW m \in Msg, Lookup(m)
      PROVE  Goal
  <2>1. m \in Unprocessed(table) /\ m # 0
    BY <1>5, PollerAssumption DEF Lookup, First, IInv, PassShape
  <2>2. cur = 0 /\ matched = {} /\ result = NoResult /\ UNCHANGED <<shared, result>>
    BY <1>5 DEF Lookup, IInv, PassShape, InPass
  <2>3. cur' = m /\ matched' = Abstract!ProcessMessage(jobs, table[m])
    BY <1>5, SameOperators DEF Lookup
  <2>4. m \in Abstract!Unprocessed(table)
    BY <2>1, SameOperators
  <2>5. {j \in matched' : result'[j] # "none"} = {}
    BY <1>5, <2>2, MatchesExist DEF NoResult, Lookup, IInv, TypeOK
  <2>6. Abstract!Resolve(m)
    BY <2>1, <2>2, <2>3, <2>4, <2>5, PollerAssumption DEF Abstract!Resolve, shared
  <2> QED
    BY <2>6 DEF Goal, Abstract!Next
<1>6. ASSUME NEW m \in Msg, LookupFails(m)
      PROVE  Goal
  BY <1>6, <1>0 DEF LookupFails, shared, attempt
<1>7. ASSUME NEW j \in Job, CallWebhook(j)
      PROVE  Goal
  BY <1>7, <1>0 DEF CallWebhook, shared, attempt
<1>8. ASSUME NEW j \in Job, SkipWebhook(j) \/ WebhookReturns(j)
      PROVE  Goal
  <2>1. InPass /\ j \in matched /\ UNCHANGED <<table, jobs, cur, matched>>
    BY <1>8 DEF SkipWebhook, WebhookReturns, InPass, IInv, TypeOK, shared
  <2>2. PICK o \in Outcome \ {"none"} : result' = [result EXCEPT ![j] = o]
    BY <1>8 DEF SkipWebhook, WebhookReturns, Outcome
  <2>3. CASE result[j] = "none"
    BY <2>1, <2>2, <2>3, ResultRefines DEF Goal
  <2>4. CASE result[j] # "none"
    <3>1. {i \in matched : result'[i] # "none"} = {i \in matched : result[i] # "none"}
      BY <2>2, <2>4 DEF IInv, TypeOK
    <3> QED
      BY <2>1, <3>1 DEF Goal, Abstract!vars
  <2> QED
    BY <2>3, <2>4
<1>9. ASSUME NEW j \in Job, SendReply(j)
      PROVE  Goal
  BY <1>9, <1>0 DEF SendReply, shared, attempt
<1>10. CASE Save \/ SaveFails
  BY <1>10, EndRefines DEF Save, SaveFails, InPass, Goal
<1>11. CASE UNCHANGED vars
  BY <1>11, <1>0 DEF vars, shared, pass, attempt
<1> QED
  BY <1>1, <1>2, <1>3, <1>4, <1>5, <1>6, <1>7, <1>8, <1>9, <1>10, <1>11
  DEF Next, Environment, Worker

\* The worker implements the abstract delivery: a row is marked only when each
\* job that matched at its lookup has been tried in the same pass, and it is
\* never unmarked (poller.go:61-125).
THEOREM RefinesTheorem == Spec => ImplementsDelivery
<1> QED
  BY InitRefines, StepRefines, Invariance, PTL DEF Spec, ImplementsDelivery, Abstract!Spec

=============================================================================
