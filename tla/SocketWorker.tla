---------------------------- MODULE SocketWorker ----------------------------
(***************************************************************************)
(* The websocket worker (pkg/worker/worker.go and client.go), the older of *)
(* the two workers: a reader goroutine feeds a buffered channel and an     *)
(* error channel, the main goroutine selects over them, the context and    *)
(* the shutdown channel, and every message it takes is processed by a      *)
(* goroutine of its own.                                                   *)
(***************************************************************************)
EXTENDS Naturals, Sequences, FiniteSets

CONSTANTS
    N,            \* bound: messages the mail server pushes
    Copies,       \* message -> recipients under our hostname
    MaxCopies,
    BufferSize    \* config.BufferSize, the capacity of msgChan

ASSUME SocketAssumption ==
    /\ N \in Nat /\ MaxCopies \in Nat
    /\ Copies \in [1 .. N -> 0 .. MaxCopies]
    /\ BufferSize \in Nat

Raw == 1 .. N

VARIABLES
    ctxDone,      \* the context given to Start is cancelled
    shutdown,     \* shutdownChan is closed
    main,         \* where Start is
    parsing,      \* the message Start is parsing, 0 for none
    left,         \* its recipients that have no goroutine yet
    ret,          \* what Start returned
    timedOut,     \* shutdown() gave up waiting
    reader,       \* where ReadMessages is
    held,         \* the message it has read
    pushed,       \* messages read from the connection so far
    msgChan, msgClosed, errorChan, errorClosed,
    handler,      \* <<raw, copy>> -> where its processMessageAsync is
    wg            \* the counter of processingWg

start == <<main, parsing, left, ret, timedOut>>
read == <<reader, held, pushed>>
chans == <<msgChan, msgClosed, errorChan, errorClosed>>
work == <<handler, wg>>
vars == <<ctxDone, shutdown, start, read, chans, work>>

Handler == Raw \X (1 .. MaxCopies)

TypeOK ==
    /\ {ctxDone, shutdown, timedOut, msgClosed, errorClosed} \subseteq BOOLEAN
    /\ main \in {"new", "select", "parse", "spawn", "drain", "returned"}
    /\ parsing \in Raw \union {0}
    /\ left \in 0 .. MaxCopies
    /\ main \in {"parse", "spawn"} => parsing \in Raw
    /\ ret \in {"none", "nil", "cancelled", "error"}
    /\ reader \in {"off", "loop", "read", "sendMsg", "sendError", "close", "end"}
    /\ held \in Raw \union {0}
    /\ pushed \in Raw \union {0}
    /\ msgChan \in Seq(Raw) /\ Len(msgChan) <= BufferSize
    /\ errorChan \in {<< >>, <<"error">>}
    /\ handler \in [Handler -> {"none", "lookup", "send", "calling", "end"}]
    /\ wg \in Nat

Init ==
    /\ ctxDone = FALSE /\ shutdown = FALSE
    /\ main = "new" /\ parsing = 0 /\ left = 0 /\ ret = "none" /\ timedOut = FALSE
    /\ reader = "off" /\ held = 0 /\ pushed = 0
    /\ msgChan = << >> /\ msgClosed = FALSE
    /\ errorChan = << >> /\ errorClosed = FALSE
    /\ handler = [h \in Handler |-> "none"] /\ wg = 0

Returned == main = "returned"

\* Start's "defer cancel()" ends workCtx, which is derived from ctx.
WorkDone == ctxDone \/ Returned

\* Start's "defer conn.Close()".
ConnClosed == Returned

-----------------------------------------------------------------------------

(***************************************************************************)
(* The caller.                                                             *)
(***************************************************************************)
CancelCtx ==
    /\ ~ctxDone /\ ctxDone' = TRUE
    /\ UNCHANGED <<shutdown, start, read, chans, work>>

Shutdown ==
    /\ ~shutdown /\ shutdown' = TRUE
    /\ UNCHANGED <<ctxDone, start, read, chans, work>>

(***************************************************************************)
(* Worker.Start. Any ready case of the select may be taken.                *)
(***************************************************************************)
Return(r) == main' = "returned" /\ ret' = r /\ UNCHANGED <<parsing, left, timedOut>>

Connect ==
    /\ main = "new"
    /\ main' = "select"
    /\ reader' = "loop"
    /\ UNCHANGED <<ctxDone, shutdown, parsing, left, ret, timedOut, held, pushed, chans, work>>

ConnectFails ==
    /\ main = "new"
    /\ Return("error")
    /\ UNCHANGED <<ctxDone, shutdown, read, chans, work>>

SelectDone ==
    /\ main = "select" /\ ctxDone
    /\ main' = "drain"
    /\ UNCHANGED <<ctxDone, shutdown, parsing, left, ret, timedOut, read, chans, work>>

SelectShutdown ==
    /\ main = "select" /\ shutdown
    /\ Return("nil")
    /\ UNCHANGED <<ctxDone, shutdown, read, chans, work>>

\* A closed and empty errorChan yields nil, and the loop goes on.
SelectError ==
    /\ main = "select" /\ errorChan # << >>
    /\ errorChan' = << >>
    /\ Return("error")
    /\ UNCHANGED <<ctxDone, shutdown, read, msgChan, msgClosed, errorClosed, work>>

SelectClosed ==
    /\ main = "select" /\ msgChan = << >> /\ msgClosed
    /\ Return("nil")
    /\ UNCHANGED <<ctxDone, shutdown, read, chans, work>>

\* With an unbuffered channel the value comes straight from the reader.
SelectMessage ==
    /\ main = "select"
    /\ \/ /\ msgChan # << >>
          /\ parsing' = Head(msgChan)
          /\ msgChan' = Tail(msgChan)
          /\ UNCHANGED <<reader, held>>
       \/ /\ BufferSize = 0 /\ reader = "sendMsg"
          /\ parsing' = held
          /\ reader' = "loop" /\ held' = 0
          /\ UNCHANGED msgChan
    /\ main' = "parse"
    /\ UNCHANGED <<ctxDone, shutdown, left, ret, timedOut, pushed,
                   msgClosed, errorChan, errorClosed, work>>

\* ParseRawMessage, on the main goroutine. A recipient that is not ours is dropped.
Parse ==
    /\ main = "parse"
    /\ left' = Copies[parsing]
    /\ main' = "spawn"
    /\ UNCHANGED <<ctxDone, shutdown, parsing, ret, timedOut, read, chans, work>>

\* FetchMessage gets an error, a status other than 200 or no JSON; it has no
\* context, only the timeout of the HTTP client.
FetchFails ==
    /\ main = "parse" /\ Copies[parsing] > 0
    /\ main' = "select" /\ parsing' = 0
    /\ UNCHANGED <<ctxDone, shutdown, left, ret, timedOut, read, chans, work>>

\* Variant: one Add for all recipients.
MutSpawn ==
    /\ main = "spawn" /\ left > 0
    /\ wg' = IF left = Copies[parsing] THEN wg + 1 ELSE wg
    /\ handler' = [handler EXCEPT ![<<parsing, left>>] = "lookup"]
    /\ left' = left - 1
    /\ UNCHANGED <<ctxDone, shutdown, main, parsing, ret, timedOut, read, chans>>

\* The loop over the messages: processingWg.Add(1) and a goroutine for each.
Spawn ==
    /\ main = "spawn" /\ left > 0
    /\ wg' = wg + 1
    /\ handler' = [handler EXCEPT ![<<parsing, left>>] = "lookup"]
    /\ left' = left - 1
    /\ UNCHANGED <<ctxDone, shutdown, main, parsing, ret, timedOut, read, chans>>

EndSpawn ==
    /\ main = "spawn" /\ left = 0
    /\ main' = "select" /\ parsing' = 0
    /\ UNCHANGED <<ctxDone, shutdown, left, ret, timedOut, read, chans, work>>

\* Variant: shutdown() does not wait.
MutDrained ==
    /\ main = "drain"
    /\ Return("cancelled")
    /\ UNCHANGED <<ctxDone, shutdown, read, chans, work>>

\* shutdown(): the WaitGroup reaches zero, or ShutdownTimeout passes.
Drained ==
    /\ main = "drain" /\ wg = 0
    /\ Return("cancelled")
    /\ UNCHANGED <<ctxDone, shutdown, read, chans, work>>

\* Variant: the timeout is only looked at once the goroutines have ended.
MutDrainTimeout ==
    /\ main = "drain" /\ wg = 0
    /\ timedOut' = TRUE
    /\ main' = "returned" /\ ret' = "cancelled"
    /\ UNCHANGED <<ctxDone, shutdown, parsing, left, read, chans, work>>

DrainTimeout ==
    /\ main = "drain"
    /\ timedOut' = TRUE
    /\ main' = "returned" /\ ret' = "cancelled"
    /\ UNCHANGED <<ctxDone, shutdown, parsing, left, read, chans, work>>

(***************************************************************************)
(* WebSocketClient.ReadMessages.                                           *)
(***************************************************************************)
ReadCheck ==
    /\ reader = "loop"
    /\ reader' = IF WorkDone THEN "close" ELSE "read"
    /\ UNCHANGED <<ctxDone, shutdown, start, held, pushed, chans, work>>

\* ReadJSON blocks until a message arrives or the connection fails.
ReadMessage ==
    /\ reader = "read" /\ ~ConnClosed
    /\ pushed + 1 \in Raw
    /\ pushed' = pushed + 1 /\ held' = pushed'
    /\ reader' = "sendMsg"
    /\ UNCHANGED <<ctxDone, shutdown, start, chans, work>>

ReadFails ==
    /\ reader = "read"
    /\ reader' = "sendError"
    /\ UNCHANGED <<ctxDone, shutdown, start, held, pushed, chans, work>>

SendMsg ==
    /\ reader = "sendMsg" /\ Len(msgChan) < BufferSize
    /\ msgChan' = Append(msgChan, held)
    /\ held' = 0
    /\ reader' = "loop"
    /\ UNCHANGED <<ctxDone, shutdown, start, pushed, msgClosed, errorChan, errorClosed, work>>

SendError ==
    /\ reader = "sendError" /\ errorChan = << >>
    /\ errorChan' = <<"error">>
    /\ reader' = "close"
    /\ UNCHANGED <<ctxDone, shutdown, start, held, pushed, msgChan, msgClosed, errorClosed, work>>

\* Variant: the send of a message does not select on the context.
MutSendAborts ==
    /\ reader = "sendError" /\ WorkDone
    /\ reader' = "close" /\ held' = 0
    /\ UNCHANGED <<ctxDone, shutdown, start, pushed, chans, work>>

SendAborts ==
    /\ reader \in {"sendMsg", "sendError"} /\ WorkDone
    /\ reader' = "close" /\ held' = 0
    /\ UNCHANGED <<ctxDone, shutdown, start, pushed, chans, work>>

\* The deferred closes run last to first: errorChan, then msgChan.
CloseChannels ==
    /\ reader = "close"
    /\ IF ~errorClosed
       THEN errorClosed' = TRUE /\ UNCHANGED <<msgClosed, reader>>
       ELSE msgClosed' = TRUE /\ reader' = "end" /\ UNCHANGED errorClosed
    /\ UNCHANGED <<ctxDone, shutdown, start, held, pushed, msgChan, errorChan, work>>

(***************************************************************************)
(* processMessageAsync: a lookup, then the loop of SendWebhooks over the   *)
(* results, however many; both fail once workCtx is done. The call in hand *)
(* may end at any time, with a status or an error.                         *)
(***************************************************************************)
Move(h, from, to) == handler[h] = from /\ handler' = [handler EXCEPT ![h] = to]

LookupJobs(h) ==
    /\ ~WorkDone
    /\ Move(h, "lookup", "send")
    /\ UNCHANGED <<ctxDone, shutdown, start, read, chans, wg>>

CallWebhook(h) ==
    /\ ~WorkDone
    /\ Move(h, "send", "calling")
    /\ UNCHANGED <<ctxDone, shutdown, start, read, chans, wg>>

CallReturns(h) ==
    /\ Move(h, "calling", "send")
    /\ UNCHANGED <<ctxDone, shutdown, start, read, chans, wg>>

\* No job, a failed lookup, or no result left; the deferred Done.
Done(h) ==
    /\ Move(h, "lookup", "end") \/ Move(h, "send", "end")
    /\ wg' = wg - 1
    /\ UNCHANGED <<ctxDone, shutdown, start, read, chans>>

HandlerStep(h) == LookupJobs(h) \/ CallWebhook(h) \/ CallReturns(h) \/ Done(h)

StartStep ==
    \/ Connect \/ ConnectFails
    \/ SelectDone \/ SelectShutdown \/ SelectError \/ SelectClosed \/ SelectMessage
    \/ Parse \/ FetchFails \/ Spawn \/ EndSpawn \/ Drained \/ DrainTimeout

ReaderStep ==
    \/ ReadCheck \/ ReadMessage \/ ReadFails \/ SendMsg \/ SendError \/ SendAborts
    \/ CloseChannels

Next ==
    \/ CancelCtx \/ Shutdown
    \/ StartStep \/ ReaderStep
    \/ \E h \in Handler : HandlerStep(h)

Spec == Init /\ [][Next]_vars

(***************************************************************************)
(* Goroutines that can run do; a read fails once its connection is closed, *)
(* but may block for ever before that.                                     *)
(***************************************************************************)
FairSpec ==
    /\ Spec
    /\ WF_vars(StartStep)
    /\ WF_vars(ReadCheck \/ SendMsg \/ SendError \/ SendAborts \/ CloseChannels)
    /\ WF_vars(ReadFails /\ ConnClosed)

-----------------------------------------------------------------------------

(***************************************************************************)
(* When Start returns because its context was cancelled, no message is     *)
(* being processed any more unless the timeout was reached: the WaitGroup  *)
(* counts every goroutine from before it starts until it has ended         *)
(* (worker.go:66-69, 88-91, 97, 128-143).                                  *)
(***************************************************************************)
Busy == {h \in Handler : handler[h] \in {"lookup", "send", "calling"}}

DrainedUnlessTimeout == ret = "cancelled" /\ ~timedOut => Busy = {}

(***************************************************************************)
(* Whenever Start has returned, however full the channel and wherever the  *)
(* reader was, the reader ends and both channels are closed: "both         *)
(* channels should be closed on context cancellation" (client_test.go:262, *)
(* client.go:35-59).                                                       *)
(***************************************************************************)
ReaderEnds ==
    Returned ~> (reader = "off" \/ (reader = "end" /\ msgClosed /\ errorClosed))

(***************************************************************************)
(* A worker told to stop stops (worker.go:66-73).                          *)
(***************************************************************************)
StartReturns == ctxDone \/ shutdown ~> Returned

=============================================================================
