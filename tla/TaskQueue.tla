----------------------------- MODULE TaskQueue -----------------------------
(***************************************************************************)
(* The task client of the web application (pkg/services/tasks.go). Save    *)
(* encodes a task in one pooled buffer, wraps it in a second one, puts     *)
(* both back in the pool and then hands the bytes of the second to the     *)
(* queue, at once or in the caller's transaction, to be run now or after   *)
(* a delay. The queue and its runner (goqite, external) give a message to  *)
(* the subscriber until it succeeds or has been received MaxRetries times. *)
(***************************************************************************)
EXTENDS Naturals, Sequences, FiniteSets

CONSTANTS
    Saver,       \* goroutines that save tasks
    Task,        \* tasks
    Buffer,      \* bytes.Buffers the pool may hold or create
    MaxRetries,  \* config tasks.maxRetries
    Goroutines,  \* config tasks.goroutines
    MaxSaves,    \* bound: calls of Save
    MaxFaults    \* bound: failed deletions and ends of the process

TaskQueueAssumption ==
    /\ MaxRetries \in Nat \ {0} /\ Goroutines \in Nat \ {0}
    /\ MaxSaves \in Nat /\ MaxFaults \in Nat
    /\ Cardinality(Buffer) >= 2 * Cardinality(Saver)

VARIABLES
    op,      \* Saver -> its Save: what it does next, the task, both buffers
    mem,     \* Buffer -> the bytes in its backing array
    queue,   \* the messages sent
    faults   \* deletions that failed and ends of the process

vars == <<op, mem, queue, faults>>

\* Bytes of half a write, or of another message cut to the length of this one.
Garbage == <<"garbage">>
Encoded(t) == <<"task", t>>
Wrapped(t) == <<"message", t>>
Bytes == {Garbage} \union {Encoded(t) : t \in Task} \union {Wrapped(t) : t \in Task}

NoOp == [pc |-> "idle"]
Op == {NoOp}
        \union [pc : {"encode"}, task : Task, taskBuf : Buffer]
        \union [pc : {"wrap", "put", "send"}, task : Task, taskBuf : Buffer, msgBuf : Buffer]

\* for and runs are histories: the task saved, and how often the subscriber
\* has returned nil. txn is the transaction of the caller of Save, if any.
Message == [for : Task, body : Bytes, received : 0 .. MaxRetries, runs : Nat,
            txn : {"none", "open", "committed", "rolledBack"},
            state : {"pending", "delayed", "waiting", "running", "ran", "done", "dropped"}]

TypeOK ==
    /\ op \in [Saver -> Op]
    /\ mem \in [Buffer -> Bytes]
    /\ queue \in Seq(Message)
    /\ faults \in Nat

Init ==
    /\ op = [s \in Saver |-> NoOp]
    /\ mem = [b \in Buffer |-> Garbage]
    /\ queue = << >>
    /\ faults = 0

-----------------------------------------------------------------------------

Held ==
    {op[s].taskBuf : s \in {r \in Saver : op[r].pc \in {"encode", "wrap", "put"}}}
      \union {op[s].msgBuf : s \in {r \in Saver : op[r].pc \in {"wrap", "put"}}}

\* sync.Pool.Get: any buffer not taken out of the pool, or a new one.
Pool == Buffer \ Held

Saving == Cardinality({s \in Saver : op[s] # NoOp})

\* Save takes a buffer and begins to write the task into it.
GetTaskBuf(s) ==
    /\ op[s] = NoOp
    /\ Len(queue) + Saving < MaxSaves
    /\ \E t \in Task, b \in Pool :
        /\ op' = [op EXCEPT ![s] = [pc |-> "encode", task |-> t, taskBuf |-> b]]
        /\ mem' = [mem EXCEPT ![b] = Garbage]
    /\ UNCHANGED <<queue, faults>>

\* The task is written; a second buffer is taken and the wrapper begun.
GetMsgBuf(s) ==
    /\ op[s].pc = "encode"
    /\ \E b \in Pool :
        /\ op' = [op EXCEPT ![s] = [pc |-> "wrap", task |-> @.task, taskBuf |-> @.taskBuf, msgBuf |-> b]]
        /\ mem' = [mem EXCEPT ![op[s].taskBuf] = Encoded(op[s].task), ![b] = Garbage]
    /\ UNCHANGED <<queue, faults>>

Wrap(bytes) == IF bytes[1] = "task" THEN Wrapped(bytes[2]) ELSE Garbage

\* The wrapper holds a copy of the bytes of the first buffer.
EncodeMessage(s) ==
    /\ op[s].pc = "wrap"
    /\ mem' = [mem EXCEPT ![op[s].msgBuf] = Wrap(mem[op[s].taskBuf])]
    /\ op' = [op EXCEPT ![s].pc = "put"]
    /\ UNCHANGED <<queue, faults>>

\* Reset keeps the backing array, which msg.Body still points to.
PutBuffers(s) ==
    /\ op[s].pc = "put"
    /\ op' = [op EXCEPT ![s].pc = "send"]
    /\ UNCHANGED <<mem, queue, faults>>

\* What a read through msg.Body finds: its length is that of the own message.
Body(s) ==
    IF mem[op[s].msgBuf] = Wrapped(op[s].task) THEN {Wrapped(op[s].task)}
    ELSE {mem[op[s].msgBuf], Garbage}

\* Variant: the transaction is ignored.
MutSentAs(txn, delayed) == IF delayed THEN "delayed" ELSE "waiting"

\* SendTx leaves the message to the transaction, Send makes it visible, after
\* the delay if Wait or At gave one.
SentAs(txn, delayed) ==
    IF txn = "open" THEN "pending" ELSE IF delayed THEN "delayed" ELSE "waiting"

\* Goqite copies the body, or fails to and Save returns its error.
Send(s) ==
    /\ op[s].pc = "send"
    /\ \/ \E body \in Body(s), txn \in {"none", "open"}, delayed \in BOOLEAN :
             queue' = Append(queue, [for |-> op[s].task, body |-> body, received |-> 0, runs |-> 0,
                                     txn |-> txn, state |-> SentAs(txn, delayed)])
       \/ UNCHANGED queue
    /\ op' = [op EXCEPT ![s] = NoOp]
    /\ UNCHANGED <<mem, faults>>

(***************************************************************************)
(* The caller's transaction ends, and a delay.                             *)
(***************************************************************************)
Pending(i) == queue[i].state = "pending"

Commit(i) ==
    /\ queue[i].txn = "open"
    /\ \E delayed \in BOOLEAN :
          queue' = [queue EXCEPT ![i].txn = "committed",
                                 ![i].state = IF Pending(i) THEN SentAs("none", delayed) ELSE @]
    /\ UNCHANGED <<op, mem, faults>>

Dropped(m) ==
    IF m.txn # "open" THEN m
    ELSE [m EXCEPT !.txn = "rolledBack",
                   !.state = IF @ = "pending" THEN "dropped" ELSE @]

Rollback(i) ==
    /\ queue[i].txn = "open"
    /\ queue' = [queue EXCEPT ![i] = Dropped(@)]
    /\ UNCHANGED <<op, mem, faults>>

Due(i) ==
    /\ queue[i].state = "delayed"
    /\ queue' = [queue EXCEPT ![i].state = "waiting"]
    /\ UNCHANGED <<op, mem, faults>>

(***************************************************************************)
(* The runner.                                                             *)
(***************************************************************************)
Running == {i \in DOMAIN queue : queue[i].state \in {"running", "ran"}}

ReceiveUpTo(i, n) ==
    /\ queue[i].state = "waiting"
    /\ queue[i].received < n
    /\ Cardinality(Running) < Goroutines
    /\ queue' = [queue EXCEPT ![i].state = "running", ![i].received = @ + 1]
    /\ UNCHANGED <<op, mem, faults>>

\* Variants: one try too many, one too few.
MutReceiveMore(i) == ReceiveUpTo(i, MaxRetries + 1)
MutReceiveLess(i) == ReceiveUpTo(i, MaxRetries - 1)

Receive(i) == ReceiveUpTo(i, MaxRetries)

\* Variant: the error of the subscriber's call is lost and an old one returned.
MutExecute(i) ==
    /\ queue[i].state = "running"
    /\ queue[i].body[1] = "message"
    /\ queue' = [queue EXCEPT ![i].state = "waiting", ![i].runs = @ + 1]
    /\ UNCHANGED <<op, mem, faults>>

\* queue.Receive decodes the payload, calls the subscriber and returns nil.
Execute(i) ==
    /\ queue[i].state = "running"
    /\ queue[i].body[1] = "message"
    /\ queue' = [queue EXCEPT ![i].state = "ran", ![i].runs = @ + 1]
    /\ UNCHANGED <<op, mem, faults>>

\* A decoding error or an error of the subscriber, whose context may be
\* cancelled: the message becomes visible again.
ExecuteFails(i) ==
    /\ queue[i].state = "running"
    /\ queue' = [queue EXCEPT ![i].state = "waiting"]
    /\ UNCHANGED <<op, mem, faults>>

\* The runner deletes a message whose task has succeeded.
Delete(i) ==
    /\ queue[i].state = "ran"
    /\ queue' = [queue EXCEPT ![i].state = "done"]
    /\ UNCHANGED <<op, mem, faults>>

DeleteFails(i) ==
    /\ queue[i].state = "ran"
    /\ faults < MaxFaults
    /\ faults' = faults + 1
    /\ queue' = [queue EXCEPT ![i].state = "waiting"]
    /\ UNCHANGED <<op, mem>>

\* The process ends: transactions are rolled back, and what it was running
\* becomes visible again.
Stop ==
    /\ faults' = faults + 1
    /\ queue' = [i \in DOMAIN queue |->
                   IF queue[i].state \in {"running", "ran"}
                   THEN [queue[i] EXCEPT !.state = "waiting"] ELSE Dropped(queue[i])]
    /\ op' = [s \in Saver |-> NoOp]
    /\ mem' = [b \in Buffer |-> Garbage]

Dies == faults < MaxFaults /\ Stop

SaveStep(s) ==
    GetTaskBuf(s) \/ GetMsgBuf(s) \/ EncodeMessage(s) \/ PutBuffers(s) \/ Send(s)

EndTxn(i) == Commit(i) \/ Rollback(i)

Finish(i) == Execute(i) \/ ExecuteFails(i) \/ Delete(i) \/ DeleteFails(i)

Next ==
    \/ \E s \in Saver : SaveStep(s)
    \/ \E i \in DOMAIN queue : EndTxn(i) \/ Due(i) \/ Receive(i) \/ Finish(i)
    \/ Dies

Spec == Init /\ [][Next]_vars

-----------------------------------------------------------------------------

(***************************************************************************)
(* "Save saves the task, so it can be queued for execution"                *)
(* (tasks.go:137): every message in the queue decodes to the task whose    *)
(* Save put it there.                                                      *)
(***************************************************************************)
SavedTaskIsQueued ==
    \A i \in DOMAIN queue : queue[i].body = Wrapped(queue[i].for)

(***************************************************************************)
(* A task completes once, and again only for a deletion that failed or an  *)
(* end of the process before it: retries are for tasks that failed         *)
(* (tasks.go:75-93, 196-204). "Tx will include the task as part of a given *)
(* database transaction" (tasks.go:131): it is not even received unless    *)
(* that commits, however the process ends.                                 *)
(***************************************************************************)
RunsAreJustified ==
    \A i \in DOMAIN queue :
        /\ queue[i].runs <= 1 + faults
        /\ queue[i].txn \in {"open", "rolledBack"} => queue[i].received = 0

Exhausted(i) == queue[i].received = MaxRetries /\ queue[i].state = "waiting"

(***************************************************************************)
(* A task for which Save returned without an error is run in the end, or   *)
(* has failed MaxRetries times, or its transaction did not commit          *)
(* (tasks.go:75-80, 137-178, 196-204).                                     *)
(***************************************************************************)
SavedTaskRuns ==
    \A i \in 1 .. MaxSaves :
        i \in DOMAIN queue ~>
            i \in DOMAIN queue /\ (queue[i].runs > 0 \/ Exhausted(i) \/ queue[i].txn = "rolledBack")

=============================================================================
