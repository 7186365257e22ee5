-------------------------- MODULE WebProcessProofs --------------------------
(***************************************************************************)
(* Proofs about the web process and its task queue, for any number of      *)
(* requests, goroutines, tasks, retries and ends of the process.           *)
(***************************************************************************)
EXTENDS WebProcess, SequenceTheorems, TLAPS

-----------------------------------------------------------------------------
(***************************************************************************)
(* What is true of each message, f faults having happened.                 *)
(***************************************************************************)
Active(m) == m.state \in {"running", "ran"}

RunsOK(m, f) == m.runs <= f + (IF m.state \in {"ran", "done"} THEN 1 ELSE 0)

TxnOK(m) ==
    m.txn \in {"open", "rolledBack"} => m.received = 0 /\ m.state \in {"pending", "dropped"}

MessagesOK == \A i \in DOMAIN queue : RunsOK(queue[i], faults) /\ TxnOK(queue[i])

\* A step that changes one message, from m to n.
Allowed(m, n) ==
    /\ n \in Queue!Message
    /\ RunsOK(m, faults) => RunsOK(n, faults')
    /\ TxnOK(m) => TxnOK(n)
    /\ n.for = m.for /\ n.body = m.body

LEMMA Update ==
    ASSUME NEW S, NEW q \in Seq(S), NEW i \in DOMAIN q, NEW e \in S
    PROVE  /\ [q EXCEPT ![i] = e] \in Seq(S)
           /\ DOMAIN [q EXCEPT ![i] = e] = DOMAIN q
           /\ \A j \in DOMAIN q : [q EXCEPT ![i] = e][j] = IF j = i THEN e ELSE q[j]
<1>1. DOMAIN q = 1 .. Len(q)
  BY LenProperties
<1> QED
  BY <1>1, ExceptSeq

LEMMA Element ==
    ASSUME NEW S, NEW q \in Seq(S), NEW i \in DOMAIN q
    PROVE  q[i] \in S
BY LenProperties, ElementOfSeq

LEMMA MessageStep ==
    ASSUME Queue!TypeOK, NEW i \in DOMAIN queue,
           Queue!EndTxn(i) \/ Queue!Due(i) \/ Queue!Receive(i) \/ Queue!Finish(i)
    PROVE  \E n \in Queue!Message :
              /\ queue' = [queue EXCEPT ![i] = n]
              /\ Allowed(queue[i], n)
              /\ Active(n) => Active(queue[i]) \/ Queue!Receive(i)
              /\ faults' \in Nat /\ faults' >= faults
              /\ UNCHANGED <<op, mem>>
<1>0. MaxRetries \in Nat /\ faults \in Nat /\ queue \in Seq(Queue!Message)
  BY WebProcessAssumption DEF Queue!TaskQueueAssumption, Queue!TypeOK
<1>1. queue[i] \in Queue!Message
  BY <1>0, Element
<1>2. CASE Queue!Commit(i)
  <2>1. PICK delayed \in BOOLEAN :
           queue' = [queue EXCEPT ![i].txn = "committed",
                       ![i].state = IF Queue!Pending(i) THEN Queue!SentAs("none", delayed) ELSE @]
    BY <1>2 DEF Queue!Commit
  <2> DEFINE n == [queue[i] EXCEPT !.txn = "committed",
                     !.state = IF Queue!Pending(i) THEN Queue!SentAs("none", delayed) ELSE @]
  <2>2. n \in Queue!Message
    BY <1>1 DEF Queue!Message, Queue!SentAs
  <2>3. queue' = [queue EXCEPT ![i] = n]
    BY <2>1
  <2>4. Allowed(queue[i], n) /\ (Active(n) => Active(queue[i]))
    BY <1>0, <1>1, <1>2, <2>2 DEF Allowed, Active, RunsOK, TxnOK, Queue!Message, Queue!SentAs, Queue!Commit, Queue!Pending
  <2>5. faults' \in Nat /\ faults' >= faults /\ UNCHANGED <<op, mem>>
    BY <1>0, <1>2 DEF Queue!Commit
  <2> HIDE DEF n
  <2> QED
    BY <1>2, <2>2, <2>3, <2>4, <2>5
<1>3. CASE Queue!Rollback(i)
  <2> DEFINE n == Queue!Dropped(queue[i])
  <2>2. n \in Queue!Message
    BY <1>1 DEF Queue!Message, Queue!Dropped
  <2>3. queue' = [queue EXCEPT ![i] = n]
    BY <1>3 DEF Queue!Rollback
  <2>4. Allowed(queue[i], n) /\ (Active(n) => Active(queue[i]))
    BY <1>0, <1>1, <1>3, <2>2 DEF Allowed, Active, RunsOK, TxnOK, Queue!Message, Queue!Rollback, Queue!Dropped
  <2>5. faults' \in Nat /\ faults' >= faults /\ UNCHANGED <<op, mem>>
    BY <1>0, <1>3 DEF Queue!Rollback
  <2> HIDE DEF n
  <2> QED
    BY <1>3, <2>2, <2>3, <2>4, <2>5
<1>4. CASE Queue!Due(i)
  <2> DEFINE n == [queue[i] EXCEPT !.state = "waiting"]
  <2>2. n \in Queue!Message
    BY <1>0, <1>1 DEF Queue!Message
  <2>3. queue' = [queue EXCEPT ![i] = n]
    BY <1>4 DEF Queue!Due
  <2>4. Allowed(queue[i], n) /\ ~Active(n)
    BY <1>0, <1>1, <1>4, <2>2 DEF Allowed, Active, RunsOK, TxnOK, Queue!Message, Queue!Due
  <2>5. faults' \in Nat /\ faults' >= faults /\ UNCHANGED <<op, mem>>
    BY <1>0, <1>4 DEF Queue!Due
  <2> HIDE DEF n
  <2> QED
    BY <1>4, <2>2, <2>3, <2>4, <2>5
<1>5. CASE Queue!Receive(i)
  <2> DEFINE n == [queue[i] EXCEPT !.state = "running", !.received = @ + 1]
  <2>2. n \in Queue!Message
    BY <1>0, <1>1, <1>5 DEF Queue!Message, Queue!Receive, Queue!ReceiveUpTo
  <2>3. queue' = [queue EXCEPT ![i] = n]
    BY <1>5 DEF Queue!Receive, Queue!ReceiveUpTo
  <2>4. Allowed(queue[i], n)
    BY <1>0, <1>1, <1>5, <2>2 DEF Allowed, RunsOK, TxnOK, Queue!Message, Queue!Receive, Queue!ReceiveUpTo
  <2>5. faults' \in Nat /\ faults' >= faults /\ UNCHANGED <<op, mem>>
    BY <1>0, <1>5 DEF Queue!Receive, Queue!ReceiveUpTo
  <2> HIDE DEF n
  <2> QED
    BY <1>5, <2>2, <2>3, <2>4, <2>5
<1>6. CASE Queue!Execute(i)
  <2> DEFINE n == [queue[i] EXCEPT !.state = "ran", !.runs = @ + 1]
  <2>2. n \in Queue!Message
    <3>1. queue[i].runs + 1 \in Nat
      BY <1>1 DEF Queue!Message
    <3> QED
      BY <1>1, <3>1, Zenon DEF Queue!Message
  <2>3. queue' = [queue EXCEPT ![i] = n]
    BY <1>6 DEF Queue!Execute
  <2>4. Allowed(queue[i], n) /\ Active(queue[i])
    BY <1>0, <1>1, <1>6, <2>2 DEF Allowed, Active, RunsOK, TxnOK, Queue!Message, Queue!Execute
  <2>5. faults' \in Nat /\ faults' >= faults /\ UNCHANGED <<op, mem>>
    BY <1>0, <1>6 DEF Queue!Execute
  <2> HIDE DEF n
  <2> QED
    BY <1>6, <2>2, <2>3, <2>4, <2>5
<1>7. CASE Queue!ExecuteFails(i) \/ Queue!DeleteFails(i)
  <2> DEFINE n == [queue[i] EXCEPT !.state = "waiting"]
  <2>2. n \in Queue!Message
    BY <1>0, <1>1 DEF Queue!Message
  <2>3. queue' = [queue EXCEPT ![i] = n]
    BY <1>7 DEF Queue!ExecuteFails, Queue!DeleteFails
  <2>4. Allowed(queue[i], n) /\ ~Active(n)
    BY <1>0, <1>1, <1>7, <2>2 DEF Allowed, Active, RunsOK, TxnOK, Queue!Message, Queue!ExecuteFails, Queue!DeleteFails
  <2>5. faults' \in Nat /\ faults' >= faults /\ UNCHANGED <<op, mem>>
    BY <1>0, <1>7 DEF Queue!ExecuteFails, Queue!DeleteFails
  <2> HIDE DEF n
  <2> QED
    BY <1>7, <2>2, <2>3, <2>4, <2>5
<1>8. CASE Queue!Delete(i)
  <2> DEFINE n == [queue[i] EXCEPT !.state = "done"]
  <2>2. n \in Queue!Message
    BY <1>0, <1>1 DEF Queue!Message
  <2>3. queue' = [queue EXCEPT ![i] = n]
    BY <1>8 DEF Queue!Delete
  <2>4. Allowed(queue[i], n) /\ ~Active(n)
    BY <1>0, <1>1, <1>8, <2>2 DEF Allowed, Active, RunsOK, TxnOK, Queue!Message, Queue!Delete
  <2>5. faults' \in Nat /\ faults' >= faults /\ UNCHANGED <<op, mem>>
    BY <1>0, <1>8 DEF Queue!Delete
  <2> HIDE DEF n
  <2> QED
    BY <1>8, <2>2, <2>3, <2>4, <2>5
<1> QED
  BY <1>2, <1>3, <1>4, <1>5, <1>6, <1>7, <1>8 DEF Queue!EndTxn, Queue!Finish

-----------------------------------------------------------------------------
(***************************************************************************)
(* The steps of Save.                                                      *)
(***************************************************************************)
Saving == [pc : {"wrap", "put", "send"}, task : Task, taskBuf : Buffer, msgBuf : Buffer]

LEMMA OpShape ==
    ASSUME NEW o \in Queue!Op
    PROVE  /\ o.pc = "encode" => o.task \in Task /\ o.taskBuf \in Buffer
           /\ o.pc \in {"wrap", "put", "send"} => o \in Saving
BY DEF Queue!Op, Queue!NoOp, Saving

\* What Save adds to the queue.
Fresh(n) ==
    /\ n \in Queue!Message
    /\ n.runs = 0 /\ n.received = 0 /\ n.state \in {"pending", "delayed", "waiting"}
    /\ n.txn \in {"open", "rolledBack"} => n.state = "pending"

LEMMA SendStep ==
    ASSUME Queue!TypeOK, NEW s \in Saver, Queue!Send(s)
    PROVE  /\ op' = [op EXCEPT ![s] = Queue!NoOp] /\ mem' = mem /\ faults' = faults
           /\ queue' = queue \/ \E n : Fresh(n) /\ queue' = Append(queue, n)
<1>1. op[s] \in Saving /\ mem \in [Buffer -> Queue!Bytes]
  BY OpShape DEF Queue!TypeOK, Queue!Send
<1>2. Queue!Body(s) \subseteq Queue!Bytes
  BY <1>1 DEF Saving, Queue!Body, Queue!Bytes
<1>3. ASSUME NEW body \in Queue!Body(s), NEW txn \in {"none", "open"}, NEW delayed \in BOOLEAN
      PROVE  LET n == [for |-> op[s].task, body |-> body, received |-> 0, runs |-> 0,
                       txn |-> txn, state |-> Queue!SentAs(txn, delayed)]
             IN  Fresh(n)
  <2>1. 0 \in 0 .. MaxRetries
    BY WebProcessAssumption DEF Queue!TaskQueueAssumption
  <2> QED
    BY <1>1, <1>2, <2>1 DEF Fresh, Saving, Queue!Message, Queue!SentAs
<1> QED
  BY <1>3 DEF Queue!Send

LEMMA SaveTypes ==
    ASSUME Queue!TypeOK, NEW s \in Saver, Queue!SaveStep(s)
    PROVE  Queue!TypeOK' /\ (queue' = queue \/ \E n : Fresh(n) /\ queue' = Append(queue, n)) /\ faults' = faults
<1>1. op \in [Saver -> Queue!Op] /\ mem \in [Buffer -> Queue!Bytes] /\ queue \in Seq(Queue!Message)
      /\ faults \in Nat
  BY DEF Queue!TypeOK
<1>2. op[s].pc = "encode" => op[s].task \in Task /\ op[s].taskBuf \in Buffer
  BY <1>1, OpShape
<1>3. op[s].pc \in {"wrap", "put", "send"} => op[s] \in Saving
  BY <1>1, OpShape
<1>4. Queue!Garbage \in Queue!Bytes
  BY DEF Queue!Bytes
<1>5. CASE Queue!GetTaskBuf(s)
  BY <1>1, <1>4, <1>5 DEF Queue!GetTaskBuf, Queue!TypeOK, Queue!Op, Queue!Pool
<1>6. CASE Queue!GetMsgBuf(s)
  <2>1. op[s].pc = "encode"
    BY <1>6 DEF Queue!GetMsgBuf
  <2>2. Queue!Encoded(op[s].task) \in Queue!Bytes
    BY <1>2, <2>1 DEF Queue!Bytes
  <2> QED
    BY <1>1, <1>2, <1>4, <1>6, <2>1, <2>2 DEF Queue!GetMsgBuf, Queue!Pool, Queue!TypeOK, Queue!Op
<1>7. CASE Queue!EncodeMessage(s)
  <2>1. Queue!Wrap(mem[op[s].taskBuf]) \in Queue!Bytes
    <3>1. mem[op[s].taskBuf] \in Queue!Bytes
      BY <1>1, <1>3, <1>7 DEF Queue!EncodeMessage, Saving
    <3> QED
      BY <3>1 DEF Queue!Wrap, Queue!Bytes, Queue!Garbage, Queue!Encoded, Queue!Wrapped
  <2>2. [op[s] EXCEPT !.pc = "put"] \in Queue!Op
    BY <1>3, <1>7 DEF Saving, Queue!Op, Queue!EncodeMessage
  <2> QED
    BY <1>1, <1>7, <2>1, <2>2 DEF Queue!EncodeMessage, Queue!TypeOK
<1>8. CASE Queue!PutBuffers(s)
  <2>1. [op[s] EXCEPT !.pc = "send"] \in Queue!Op
    BY <1>3, <1>8 DEF Saving, Queue!Op, Queue!PutBuffers
  <2> QED
    BY <1>1, <1>8, <2>1 DEF Queue!PutBuffers, Queue!TypeOK
<1>9. CASE Queue!Send(s)
  <2>1. Queue!NoOp \in Queue!Op
    BY DEF Queue!Op
  <2>2. queue' = queue \/ \E n : Fresh(n) /\ queue' = Append(queue, n)
    BY <1>9, SendStep
  <2>3. queue' \in Seq(Queue!Message)
    BY <1>1, <2>2, AppendProperties DEF Fresh
  <2> QED
    BY <1>1, <1>9, <2>1, <2>2, <2>3, SendStep DEF Queue!TypeOK
<1> QED
  BY <1>5, <1>6, <1>7, <1>8, <1>9 DEF Queue!SaveStep

-----------------------------------------------------------------------------
(***************************************************************************)
(* The end of the process, as the queue sees it.                           *)
(***************************************************************************)
LEMMA StopStep ==
    ASSUME Queue!TypeOK, Queue!Stop
    PROVE  /\ Queue!TypeOK'
           /\ DOMAIN queue' = DOMAIN queue
           /\ \A i \in DOMAIN queue : Allowed(queue[i], queue'[i]) /\ ~Active(queue'[i])
<1>1. op \in [Saver -> Queue!Op] /\ mem \in [Buffer -> Queue!Bytes] /\ queue \in Seq(Queue!Message)
      /\ faults \in Nat
  BY DEF Queue!TypeOK
<1>2. DOMAIN queue' = DOMAIN queue
  BY DEF Queue!Stop
<1>3. ASSUME NEW i \in DOMAIN queue
      PROVE  Allowed(queue[i], queue'[i]) /\ ~Active(queue'[i])
  <2>1. queue[i] \in Queue!Message
    BY <1>1, Element
  <2>2. CASE queue[i].state \in {"running", "ran"}
    <3>1. queue'[i] = [queue[i] EXCEPT !.state = "waiting"] /\ faults' = faults + 1
      BY <2>2 DEF Queue!Stop
    <3>2. queue'[i] \in Queue!Message
      BY <2>1, <3>1 DEF Queue!Message
    <3>3. RunsOK(queue[i], faults) => RunsOK(queue'[i], faults')
      BY <1>1, <2>1, <2>2, <3>1 DEF RunsOK, Queue!Message
    <3>4. TxnOK(queue[i]) => TxnOK(queue'[i])
      BY <2>1, <2>2, <3>1 DEF TxnOK, Queue!Message
    <3> QED
      BY <2>1, <3>1, <3>2, <3>3, <3>4 DEF Allowed, Active, Queue!Message
  <2>3. CASE queue[i].state \notin {"running", "ran"}
    <3>1. queue'[i] = Queue!Dropped(queue[i]) /\ faults' = faults + 1
      BY <2>3 DEF Queue!Stop
    <3>2. queue'[i] \in Queue!Message
      BY <2>1, <3>1 DEF Queue!Message, Queue!Dropped
    <3>3. RunsOK(queue[i], faults) => RunsOK(queue'[i], faults')
      BY <1>1, <2>1, <2>3, <3>1 DEF RunsOK, Queue!Message, Queue!Dropped
    <3>4. TxnOK(queue[i]) => TxnOK(queue'[i])
      BY <2>1, <2>3, <3>1 DEF TxnOK, Queue!Message, Queue!Dropped
    <3> QED
      BY <2>1, <2>3, <3>1, <3>2, <3>3, <3>4 DEF Allowed, Active, Queue!Message, Queue!Dropped
  <2> QED
    BY <2>2, <2>3
<1>4. queue' \in Seq(Queue!Message)
  <2>1. Len(queue) \in Nat /\ DOMAIN queue = 1 .. Len(queue)
    BY <1>1, LenProperties
  <2>2. queue' \in [1 .. Len(queue) -> Queue!Message]
    <3>1. queue' = [i \in DOMAIN queue |-> queue'[i]]
      BY DEF Queue!Stop
    <3> QED
      BY <1>3, <2>1, <3>1 DEF Allowed
  <2> QED
    BY <2>1, <2>2, SeqDef
<1>5. op' \in [Saver -> Queue!Op] /\ mem' \in [Buffer -> Queue!Bytes] /\ faults' \in Nat
  BY <1>1 DEF Queue!Stop, Queue!Op, Queue!Bytes
<1> QED
  BY <1>2, <1>3, <1>4, <1>5 DEF Queue!TypeOK

-----------------------------------------------------------------------------
(***************************************************************************)
(* The life of the process: how far main has come, and what is there then. *)
(***************************************************************************)
Waiting == {"wait", "cancel", "shutdown", "drain", "close"}

WebShape ==
    /\ main = "init" => inits \in 0 .. 10 /\ up = {Web!InitOrder[i] : i \in 1 .. inits}
    /\ main = "down" => inits = 0 /\ up = {}
    /\ main \notin {"down", "init", "close"} => up = Web!Service
    /\ runner # "off" => main \in Waiting
    /\ main \in Waiting \union {"runner"} => registered
    /\ main \in {"shutdown", "drain", "close"} => runner = "cancelled"

LEMMA Orders ==
    /\ Len(Web!InitOrder) = 11
    /\ DOMAIN Web!InitOrder = 1 .. 11
    /\ \A i \in 1 .. 11 : Web!InitOrder[i] \in Web!Service
    /\ {Web!InitOrder[i] : i \in 1 .. 11} = Web!Service
<1>1. Len(Web!InitOrder) = 11 /\ DOMAIN Web!InitOrder = 1 .. 11
  BY DEF Web!InitOrder
<1> QED
  BY <1>1 DEF Web!Service

LEMMA ExitInv ==
    ASSUME Web!TypeOK, Web!Exit, ends' \in 0 .. MaxEnds
    PROVE  Web!TypeOK' /\ WebShape'
<1>1. Web!TypeOK'
  <2>1. inits' \in 0 .. Len(Web!InitOrder)
    BY Orders DEF Web!Exit
  <2> QED
    BY <2>1 DEF Web!TypeOK, Web!Exit
<1>2. WebShape'
  BY DEF Web!Exit, WebShape, Waiting
<1> QED
  BY <1>1, <1>2

LEMMA WebStepInv ==
    ASSUME Web!TypeOK, WebShape, Web!Next
    PROVE  Web!TypeOK' /\ WebShape'
<1> USE Orders
<1>0. MaxEnds \in Nat
  BY WebProcessAssumption DEF Web!WebServerAssumption
<1>1. CASE Web!Start
  BY <1>1 DEF Web!Start, Web!TypeOK, WebShape, Waiting
<1>2. CASE Web!InitService
  <2>1. inits \in 0 .. 10 /\ up = {Web!InitOrder[i] : i \in 1 .. inits} /\ inits' = inits + 1
    BY <1>2 DEF Web!InitService, WebShape
  <2>2. up' = {Web!InitOrder[i] : i \in 1 .. inits'}
    <3>1. 1 .. inits' = (1 .. inits) \union {inits + 1}
      BY <2>1
    <3> QED
      BY <1>2, <2>1, <3>1 DEF Web!InitService, Web!NextService
  <2>3. inits' # 11 => inits' \in 0 .. 10 /\ main' = "init"
    BY <1>2, <2>1 DEF Web!InitService
  <2>4. inits' = 11 => up' = Web!Service /\ main' = "router"
    BY <1>2, <2>1, <2>2 DEF Web!InitService
  <2>5. up' \subseteq Web!Service
    BY <2>1, <2>2
  <2>6. WebShape'
    BY <1>2, <2>2, <2>3, <2>4 DEF Web!InitService, Web!TypeOK, WebShape, Waiting
  <2> QED
    BY <1>2, <2>1, <2>3, <2>4, <2>5, <2>6 DEF Web!InitService, Web!TypeOK
<1>3. CASE Web!BuildRouter \/ Web!Register \/ Web!StartRunner \/ Web!Cancel \/ Web!Shutdown
  BY <1>3 DEF Web!BuildRouter, Web!Register, Web!StartRunner, Web!Cancel, Web!Shutdown,
              Web!TypeOK, WebShape, Waiting
<1>4. CASE Web!Drain
  <2>1. CASE busy = {}
    BY <1>4, <2>1 DEF Web!Drain, Web!TypeOK, WebShape, Waiting
  <2>2. CASE busy # {}
    <3>1. Web!Exit /\ ends' \in 0 .. MaxEnds
      BY <1>4, <2>2 DEF Web!Drain, Web!TypeOK
    <3> QED
      BY <3>1, ExitInv
  <2> QED
    BY <2>1, <2>2
<1>5. CASE Web!Close
  BY <1>5 DEF Web!Close, Web!TypeOK, WebShape, Waiting
<1>6. CASE Web!CloseEnds \/ Web!ErrServerClosed \/ Web!Kill \/ Web!InitFails \/ Web!BuildRouterFails
           \/ Web!NoCertificate
  <2>1. Web!Exit /\ ends' \in 0 .. MaxEnds
    BY <1>0, <1>6 DEF Web!CloseEnds, Web!ErrServerClosed, Web!Kill, Web!InitFails,
                      Web!BuildRouterFails, Web!NoCertificate, Web!Mishap, Web!TypeOK
  <2> QED
    BY <2>1, ExitInv
<1>7. CASE Web!Signal \/ Web!Listen \/ \E r \in Request : Web!Arrive(r) \/ Web!Respond(r)
  BY <1>0, <1>7 DEF Web!Signal, Web!Listen, Web!Arrive, Web!Respond, Web!TypeOK, WebShape, Waiting
<1> QED
  BY <1>1, <1>2, <1>3, <1>4, <1>5, <1>6, <1>7 DEF Web!Next, Web!MainStep

\* Whatever an init function reads has been initialised before it.
LEMMA NeedsAreMet ==
    ASSUME Web!TypeOK, WebShape, main = "init"
    PROVE  Web!Needs(Web!NextService) \subseteq up
<1> DEFINE Order(i) == Web!InitOrder[i]
<1>1. inits \in 0 .. 10 /\ up = {Order(i) : i \in 1 .. inits}
  BY DEF WebShape
<1>2. \A i \in 1 .. inits : Order(i) \in up
  BY <1>1
<1>3. /\ Order(1) = "config" /\ Order(2) = "validator" /\ Order(3) = "web" /\ Order(4) = "cache"
      /\ Order(5) = "database" /\ Order(6) = "queueDatabase" /\ Order(7) = "orm" /\ Order(8) = "auth"
      /\ Order(9) = "templateRenderer" /\ Order(10) = "mail" /\ Order(11) = "tasks"
  BY DEF Web!InitOrder
<1> HIDE DEF Order
<1>4. Web!NextService = Order(inits + 1)
  BY DEF Web!NextService, Order
<1>5. CASE inits \in 0 .. 1
  BY <1>3, <1>4, <1>5 DEF Web!Needs
<1>6. CASE inits = 2
  <2>1. Order(2) \in up
    BY <1>2, <1>6
  <2> QED
    BY <1>3, <1>4, <1>6, <2>1 DEF Web!Needs
<1>7. CASE inits \in 3 .. 6
  <2>1. Order(1) \in up
    BY <1>2, <1>7
  <2> QED
    BY <1>3, <1>4, <1>7, <2>1 DEF Web!Needs
<1>8. CASE inits \in 7 .. 8
  <2>1. Order(1) \in up /\ Order(3) \in up /\ Order(4) \in up /\ Order(7) \in up
    BY <1>2, <1>8
  <2> QED
    BY <1>3, <1>4, <1>8, <2>1 DEF Web!Needs
<1>9. CASE inits \in 9 .. 10
  <2>1. Order(1) \in up /\ Order(6) \in up /\ Order(9) \in up
    BY <1>2, <1>9
  <2> QED
    BY <1>3, <1>4, <1>9, <2>1 DEF Web!Needs
<1> QED
  BY <1>1, <1>5, <1>6, <1>7, <1>8, <1>9

-----------------------------------------------------------------------------
(***************************************************************************)
(* The composition: a runner that does not exist runs nothing, and the end *)
(* of the process ends what it ran.                                        *)
(***************************************************************************)
NothingRunsAlone == runner = "off" => \A i \in DOMAIN queue : ~Active(queue[i])

IInv == TypeOK /\ WebShape /\ MessagesOK /\ NothingRunsAlone

LEMMA InitInv == Init => IInv
<1> SUFFICES ASSUME Init PROVE IInv
  OBVIOUS
<1>1. MaxEnds \in Nat
  BY WebProcessAssumption DEF Web!WebServerAssumption
<1>2. Web!TypeOK /\ WebShape
  <2>1. 0 \in 0 .. 10 /\ {Web!InitOrder[i] : i \in 1 .. 0} = {} /\ 0 \in 0 .. MaxEnds
    BY <1>1
  <2>2. Web!TypeOK
    <3>1. 0 \in 0 .. Len(Web!InitOrder)
      BY Orders
    <3> QED
      BY <2>1, <3>1 DEF Init, Web!Init, Web!TypeOK
  <2>3. WebShape
    BY <2>1 DEF Init, Web!Init, WebShape, Waiting
  <2> QED
    BY <2>2, <2>3
<1>3. Queue!TypeOK
  BY DEF Init, Queue!Init, Queue!TypeOK, Queue!Op, Queue!Bytes
<1>4. MessagesOK /\ NothingRunsAlone
  BY DEF Init, Queue!Init, MessagesOK, NothingRunsAlone
<1> QED
  BY <1>2, <1>3, <1>4 DEF IInv, TypeOK

LEMMA Appended ==
    ASSUME NEW q \in Seq(Queue!Message), NEW n \in Queue!Message
    PROVE  /\ DOMAIN Append(q, n) = DOMAIN q \union {Len(q) + 1}
           /\ \A i \in DOMAIN Append(q, n) :
                Append(q, n)[i] = n \/ (i \in DOMAIN q /\ Append(q, n)[i] = q[i])
BY AppendProperties, LenProperties

LEMMA SaveInv ==
    ASSUME IInv, NEW s \in Saver, SaveStep(s)
    PROVE  IInv'
<1>1. Queue!TypeOK' /\ faults' = faults /\ (queue' = queue \/ \E n : Fresh(n) /\ queue' = Append(queue, n))
  BY SaveTypes DEF SaveStep, IInv, TypeOK
<1>2. queue \in Seq(Queue!Message) /\ faults \in Nat
  BY DEF IInv, TypeOK, Queue!TypeOK
<1>3. Web!TypeOK' /\ WebShape'
  BY DEF SaveStep, webVars, IInv, TypeOK, Web!TypeOK, WebShape
<1>4. CASE queue' = queue
  BY <1>1, <1>3, <1>4 DEF SaveStep, webVars, IInv, TypeOK, MessagesOK, NothingRunsAlone
<1>5. ASSUME NEW n, Fresh(n), queue' = Append(queue, n)
      PROVE  IInv'
  <2>1. RunsOK(n, faults) /\ TxnOK(n) /\ ~Active(n)
    BY <1>2, <1>5 DEF Fresh, RunsOK, TxnOK, Active
  <2>2. \A i \in DOMAIN queue' : queue'[i] = n \/ (i \in DOMAIN queue /\ queue'[i] = queue[i])
    BY <1>2, <1>5, Appended DEF Fresh
  <2>3. MessagesOK'
    BY <1>1, <2>1, <2>2 DEF IInv, MessagesOK
  <2>4. NothingRunsAlone'
    BY <2>1, <2>2 DEF SaveStep, webVars, IInv, NothingRunsAlone
  <2> QED
    BY <1>1, <1>3, <2>3, <2>4 DEF IInv, TypeOK
<1> QED
  BY <1>1, <1>4, <1>5

LEMMA MessageInv ==
    ASSUME IInv, NEW i \in DOMAIN queue, EndTxn(i) \/ Due(i) \/ Receive(i) \/ Finish(i)
    PROVE  IInv'
<1>1. PICK n \in Queue!Message :
        /\ queue' = [queue EXCEPT ![i] = n]
        /\ Allowed(queue[i], n)
        /\ Active(n) => Active(queue[i]) \/ Queue!Receive(i)
        /\ faults' \in Nat /\ faults' >= faults
        /\ UNCHANGED <<op, mem>>
  BY MessageStep DEF EndTxn, Due, Receive, Finish, IInv, TypeOK
<1>2. queue \in Seq(Queue!Message) /\ faults \in Nat
  BY DEF IInv, TypeOK, Queue!TypeOK
<1>3. /\ queue' \in Seq(Queue!Message) /\ DOMAIN queue' = DOMAIN queue
      /\ \A j \in DOMAIN queue : queue'[j] = IF j = i THEN n ELSE queue[j]
  BY <1>1, <1>2, Update
<1>4. UNCHANGED webVars
  BY DEF EndTxn, Due, Receive, Finish
<1>5. Web!TypeOK' /\ WebShape'
  BY <1>4 DEF webVars, IInv, TypeOK, Web!TypeOK, WebShape
<1>6. Queue!TypeOK'
  BY <1>1, <1>3 DEF IInv, TypeOK, Queue!TypeOK
<1>7. MessagesOK'
  <2> SUFFICES ASSUME NEW j \in DOMAIN queue PROVE RunsOK(queue'[j], faults') /\ TxnOK(queue'[j])
    BY <1>3 DEF MessagesOK
  <2>1. RunsOK(queue[j], faults) /\ TxnOK(queue[j]) /\ queue[j] \in Queue!Message
    BY <1>2, Element DEF IInv, MessagesOK
  <2>2. CASE j = i
    BY <1>1, <1>3, <2>1, <2>2 DEF Allowed
  <2>3. CASE j # i
    BY <1>1, <1>2, <1>3, <2>1, <2>3 DEF RunsOK, Queue!Message
  <2> QED
    BY <2>2, <2>3
<1>8. NothingRunsAlone'
  <2>1. CASE Receive(i)
    BY <1>4, <2>1 DEF Receive, webVars, NothingRunsAlone
  <2>2. CASE ~Receive(i)
    <3>1. queue[i] \in Queue!Message /\ queue'[i] = n
      BY <1>2, <1>3, Element
    <3>2. Queue!Receive(i) => queue[i].state = "waiting" /\ n.state = "running"
      BY <3>1 DEF Queue!Receive, Queue!ReceiveUpTo, Queue!Message
    <3>3. Queue!Commit(i) => n.state = queue[i].state \/ queue[i].state # "waiting"
      BY <3>1 DEF Queue!Commit, Queue!Pending, Queue!Message
    <3>4. Queue!Rollback(i) => n.state = queue[i].state \/ queue[i].state # "waiting"
      BY <3>1 DEF Queue!Rollback, Queue!Dropped, Queue!Message
    <3>5. Queue!Due(i) \/ Queue!Finish(i) => queue[i].state # "waiting"
      BY DEF Queue!Due, Queue!Finish, Queue!Execute, Queue!ExecuteFails, Queue!Delete, Queue!DeleteFails
    <3>6. ~Queue!Receive(i)
      BY <2>2, <3>2, <3>3, <3>4, <3>5 DEF EndTxn, Due, Finish, Queue!EndTxn
    <3> QED
      BY <1>1, <1>3, <1>4, <3>6 DEF webVars, IInv, NothingRunsAlone
  <2> QED
    BY <2>1, <2>2
<1> QED
  BY <1>5, <1>6, <1>7, <1>8 DEF IInv, TypeOK

LEMMA WebInv ==
    ASSUME IInv, WebStep
    PROVE  IInv'
<1>1. Web!TypeOK' /\ WebShape'
  BY WebStepInv DEF IInv, TypeOK, WebStep
<1>2. CASE main # "down" /\ main' = "down"
  <2>1. /\ Queue!TypeOK' /\ DOMAIN queue' = DOMAIN queue
        /\ \A i \in DOMAIN queue : Allowed(queue[i], queue'[i]) /\ ~Active(queue'[i])
    BY <1>2, StopStep DEF IInv, TypeOK, WebStep, WithQueue
  <2> QED
    BY <1>1, <2>1 DEF IInv, TypeOK, MessagesOK, NothingRunsAlone, Allowed
<1>3. CASE ~(main # "down" /\ main' = "down")
  <2>1. UNCHANGED queueVars
    BY <1>3 DEF WebStep, WithQueue
  <2>2. runner' = "off" => runner = "off"
    BY <1>3 DEF IInv, TypeOK, WebShape, Waiting, WebStep, Web!Next, Web!Start, Web!MainStep, Web!InitService,
          Web!BuildRouter, Web!Register, Web!StartRunner, Web!Cancel, Web!Shutdown, Web!Drain,
          Web!Close, Web!CloseEnds, Web!ErrServerClosed, Web!Kill, Web!InitFails,
          Web!BuildRouterFails, Web!NoCertificate, Web!Mishap, Web!Exit, Web!Signal, Web!Listen,
          Web!Arrive, Web!Respond
  <2> QED
    BY <1>1, <2>1, <2>2 DEF queueVars, IInv, TypeOK, Queue!TypeOK, MessagesOK, NothingRunsAlone
<1> QED
  BY <1>2, <1>3

LEMMA NextInv == IInv /\ [Next]_vars => IInv'
<1> SUFFICES ASSUME IInv, [Next]_vars PROVE IInv'
  OBVIOUS
<1>1. CASE UNCHANGED vars
  BY <1>1 DEF vars, webVars, queueVars, IInv, TypeOK, Web!TypeOK, Queue!TypeOK, WebShape, MessagesOK,
              NothingRunsAlone
<1> QED
  BY <1>1, WebInv, SaveInv, MessageInv DEF Next

LEMMA Invariance == Spec => []IInv
<1>1. Init => IInv
  BY InitInv
<1>2. IInv /\ [Next]_vars => IInv'
  BY NextInv
<1> QED
  BY <1>1, <1>2, PTL DEF Spec

(***************************************************************************)
(* The process and its queue keep their types (main.go, container.go,      *)
(* tasks.go), whatever the bounds are.                                     *)
(***************************************************************************)
THEOREM TypeCorrect == Spec => []TypeOK
<1>1. IInv => TypeOK
  BY DEF IInv
<1> QED
  BY <1>1, Invariance, PTL

(***************************************************************************)
(* No service is initialised before what it needs, no handler or task runs *)
(* before all are, and the runner's context is cancelled before they are   *)
(* closed (container.go:57-90, main.go:19-76).                             *)
(***************************************************************************)
THEOREM OrderTheorem == Spec => []ServicesInOrder
<1>1. IInv => ServicesInOrder
  BY NeedsAreMet DEF IInv, TypeOK, Web!TypeOK, WebShape, Waiting, ServicesInOrder, Web!ServicesInOrder
<1> QED
  BY <1>1, Invariance, PTL

(***************************************************************************)
(* A task completes at most once more than deletions have failed or the    *)
(* process has ended, and one of a transaction that has not committed is   *)
(* never received (tasks.go:75-93, 131-135, 173-177).                      *)
(***************************************************************************)
THEOREM RunsTheorem == Spec => []RunsAreJustified
<1>1. IInv => RunsAreJustified
  <2> SUFFICES ASSUME IInv, NEW i \in DOMAIN queue
               PROVE  /\ queue[i].runs <= 1 + faults
                      /\ queue[i].txn \in {"open", "rolledBack"} => queue[i].received = 0
    BY DEF RunsAreJustified, Queue!RunsAreJustified
  <2>1. queue[i] \in Queue!Message /\ faults \in Nat
    BY Element DEF IInv, TypeOK, Queue!TypeOK
  <2>2. queue[i].runs <= 1 + faults
    BY <2>1 DEF IInv, MessagesOK, RunsOK, Queue!Message
  <2> QED
    BY <2>2 DEF IInv, MessagesOK, TxnOK
<1> QED
  BY <1>1, Invariance, PTL

=============================================================================
