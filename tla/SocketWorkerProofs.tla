------------------------- MODULE SocketWorkerProofs -------------------------
(***************************************************************************)
(* Proofs about what Start returns, for any messages, recipients, size of  *)
(* the channel and interleaving of the goroutines: the WaitGroup counts at *)
(* least the goroutines that process a message.                            *)
(***************************************************************************)
EXTENDS SocketWorker, FiniteSetTheorems, TLAPS

\* Start returns once, and with something.
ReturnsOnce == ret # "none" => Returned

\* The reader sends what it has read.
ReaderHolds == reader = "sendMsg" => held \in Raw

\* Every goroutine has been added, and none is done twice.
Counted == IsFiniteSet(Busy) /\ Cardinality(Busy) <= wg

IInv == TypeOK /\ ReaderHolds /\ ReturnsOnce /\ Counted /\ DrainedUnlessTimeout

-----------------------------------------------------------------------------

LEMMA InitInv == Init => IInv
<1> SUFFICES ASSUME Init PROVE IInv
  OBVIOUS
<1>1. << >> \in Seq(Raw) /\ Len(<< >>) <= BufferSize /\ 0 \in 0 .. MaxCopies
  BY SocketAssumption
<1>2. TypeOK
  BY <1>1 DEF Init, TypeOK
<1>3. Busy = {}
  BY DEF Init, Busy
<1>4. Counted
  BY <1>3, FS_EmptySet DEF Init, Counted
<1> QED
  BY <1>2, <1>3, <1>4 DEF IInv, ReaderHolds, ReturnsOnce, DrainedUnlessTimeout, Init

\* A step that leaves the goroutines alone and does not make Start return with
\* everything drained.
LEMMA Quiet ==
    ASSUME IInv, UNCHANGED work, TypeOK', ReaderHolds', ReturnsOnce',
           (ret' = ret /\ timedOut' = timedOut) \/ ret' # "cancelled"
    PROVE  IInv'
<1>1. Busy' = Busy
  BY DEF work, Busy
<1> QED
  BY <1>1 DEF IInv, Counted, DrainedUnlessTimeout, work

\* The caller, and Start up to its select.
LEMMA CallerInv ==
    ASSUME IInv,
           \/ CancelCtx \/ Shutdown \/ Connect \/ ConnectFails
           \/ SelectDone \/ SelectShutdown \/ SelectError \/ SelectClosed
           \/ Parse \/ FetchFails \/ EndSpawn
    PROVE  IInv'
<1> USE DEF CancelCtx, Shutdown, Connect, ConnectFails, SelectDone, SelectShutdown, SelectError,
            SelectClosed, Parse, FetchFails, EndSpawn, Return
<1>1. TypeOK'
  <2>1. CASE Parse
    <3>1. Copies[parsing] \in 0 .. MaxCopies
      <4>1. main = "parse"
        BY <2>1 DEF Parse
      <4> QED
        BY <4>1, SocketAssumption DEF IInv, TypeOK, Raw
    <3> QED
      BY <2>1, <3>1 DEF read, chans, work, IInv, TypeOK
  <2>2. CASE FetchFails \/ EndSpawn
    BY <2>2 DEF read, chans, work, IInv, TypeOK
  <2>3. CASE CancelCtx \/ Shutdown \/ Connect \/ ConnectFails
    BY <2>3 DEF start, read, chans, work, IInv, TypeOK
  <2>4. CASE SelectDone \/ SelectShutdown \/ SelectError \/ SelectClosed
    BY <2>4 DEF start, read, chans, work, IInv, TypeOK
  <2> QED
    BY <2>1, <2>2, <2>3, <2>4
<1>2. UNCHANGED work /\ ReaderHolds'
  BY DEF read, IInv, ReaderHolds
<1>3. ReturnsOnce' /\ ((ret' = ret /\ timedOut' = timedOut) \/ ret' # "cancelled")
  BY DEF start, IInv, TypeOK, ReturnsOnce, Returned
<1> QED
  BY <1>1, <1>2, <1>3, Quiet

LEMMA SelectMessageInv ==
    ASSUME IInv, SelectMessage PROVE IInv'
<1>1. msgChan # << >> => /\ Head(msgChan) \in Raw /\ Tail(msgChan) \in Seq(Raw)
                         /\ Len(Tail(msgChan)) <= BufferSize
  BY SocketAssumption DEF IInv, TypeOK
<1>2. TypeOK' /\ ReaderHolds'
  BY <1>1 DEF SelectMessage, read, work, IInv, ReaderHolds, TypeOK
<1>3. ReturnsOnce' /\ UNCHANGED <<ret, timedOut>> /\ UNCHANGED work
  BY DEF SelectMessage, IInv, ReturnsOnce, Returned, TypeOK
<1> QED
  BY <1>2, <1>3, Quiet

LEMMA SpawnInv == ASSUME IInv, Spawn PROVE IInv'
<1> DEFINE h == <<parsing, left>>
<1>1. h \in Handler
  BY SocketAssumption DEF Spawn, IInv, TypeOK, Handler
<1>2. /\ wg' = wg + 1 /\ wg \in Nat /\ left' = left - 1 /\ left' \in 0 .. MaxCopies
      /\ handler' = [handler EXCEPT ![h] = "lookup"]
  BY SocketAssumption DEF Spawn, IInv, TypeOK
<1> HIDE DEF h
<1>3. Busy' = Busy \union {h}
  BY <1>1, <1>2 DEF Busy, IInv, TypeOK
<1>4. IsFiniteSet(Busy) /\ Cardinality(Busy) \in Nat /\ Cardinality(Busy) <= wg
  BY FS_CardinalityType DEF IInv, Counted
<1>5. IsFiniteSet(Busy') /\ Cardinality(Busy') \in Nat /\ Cardinality(Busy') <= Cardinality(Busy) + 1
  BY <1>3, <1>4, FS_AddElement
<1>6. Counted'
  BY <1>2, <1>4, <1>5 DEF Counted
<1>7. TypeOK'
  <2>1. handler' \in [Handler -> {"none", "lookup", "send", "calling", "end"}] /\ wg' \in Nat
    BY <1>1, <1>2 DEF IInv, TypeOK
  <2>2. UNCHANGED <<ctxDone, shutdown, main, parsing, ret, timedOut, reader, held, pushed,
                    msgChan, msgClosed, errorChan, errorClosed>>
    BY DEF Spawn, read, chans
  <2> QED
    BY <1>2, <2>1, <2>2 DEF IInv, TypeOK
<1>8. ReaderHolds' /\ ReturnsOnce' /\ ret' = "none"
  BY DEF Spawn, read, IInv, TypeOK, ReaderHolds, ReturnsOnce, Returned
<1> QED
  BY <1>6, <1>7, <1>8 DEF IInv, DrainedUnlessTimeout

LEMMA DrainInv ==
    ASSUME IInv, Drained \/ DrainTimeout PROVE IInv'
<1>1. TypeOK' /\ ReaderHolds' /\ UNCHANGED work
  BY DEF Drained, DrainTimeout, Return, read, chans, work, IInv, TypeOK, ReaderHolds
<1>2. Returned' /\ ret' = "cancelled" /\ (timedOut' \/ wg = 0)
  BY DEF Drained, DrainTimeout, Return, Returned
<1>3. wg = 0 => Busy = {}
  <2>1. IsFiniteSet(Busy) /\ Cardinality(Busy) \in Nat /\ Cardinality(Busy) <= wg
    BY FS_CardinalityType DEF IInv, Counted
  <2> QED
    BY <2>1, FS_EmptySet
<1>4. Busy' = Busy /\ wg' = wg
  BY <1>1 DEF work, Busy
<1> QED
  BY <1>1, <1>2, <1>3, <1>4 DEF IInv, ReturnsOnce, Counted, DrainedUnlessTimeout

LEMMA ReaderInv ==
    ASSUME IInv, ReaderStep PROVE IInv'
<1>1. UNCHANGED <<ctxDone, shutdown, start, work>>
  BY DEF ReaderStep, ReadCheck, ReadMessage, ReadFails, SendMsg, SendError, SendAborts, CloseChannels
<1>2. TypeOK' /\ ReaderHolds'
  <2>1. CASE SendMsg
    <3>1. held \in Raw => Append(msgChan, held) \in Seq(Raw)
                          /\ Len(Append(msgChan, held)) = Len(msgChan) + 1
      BY DEF IInv, TypeOK
    <3>2. Len(msgChan) \in Nat /\ BufferSize \in Nat
      BY SocketAssumption DEF IInv, TypeOK
    <3> QED
      BY <2>1, <3>1, <3>2 DEF SendMsg, start, work, IInv, ReaderHolds, TypeOK
  <2>2. CASE ReadMessage
    BY <2>2 DEF ReadMessage, start, chans, work, IInv, ReaderHolds, TypeOK
  <2>3. CASE ReadCheck \/ ReadFails \/ SendError \/ SendAborts \/ CloseChannels
    BY <2>3 DEF ReadCheck, ReadFails, SendError, SendAborts, CloseChannels, start, chans, work,
                IInv, ReaderHolds, TypeOK
  <2> QED
    BY <2>1, <2>2, <2>3 DEF ReaderStep
<1>3. ReturnsOnce' /\ UNCHANGED <<ret, timedOut>>
  BY <1>1 DEF start, IInv, ReturnsOnce, Returned
<1> QED
  BY <1>1, <1>2, <1>3, Quiet

LEMMA HandlerInv ==
    ASSUME IInv, NEW h \in Handler, HandlerStep(h) PROVE IInv'
<1> USE DEF HandlerStep, LookupJobs, CallWebhook, CallReturns, Done, Move
<1>1. UNCHANGED <<ctxDone, shutdown, start, read, chans>>
  OBVIOUS
<1>2. /\ handler' \in [Handler -> {"none", "lookup", "send", "calling", "end"}]
      /\ h \in Busy /\ \A g \in Handler \ {h} : handler'[g] = handler[g]
      /\ \/ handler'[h] \in {"send", "calling"} /\ wg' = wg
         \/ handler'[h] = "end" /\ wg' = wg - 1
  BY DEF IInv, TypeOK, Busy
<1>3. /\ IsFiniteSet(Busy) /\ Cardinality(Busy) \in Nat /\ Cardinality(Busy) <= wg /\ wg \in Nat
      /\ IsFiniteSet(Busy \ {h}) /\ Cardinality(Busy \ {h}) = Cardinality(Busy) - 1
      /\ Cardinality(Busy \ {h}) \in Nat
  <2>1. IsFiniteSet(Busy) /\ Cardinality(Busy) <= wg /\ wg \in Nat
    BY DEF IInv, Counted, TypeOK
  <2>2. IsFiniteSet(Busy \ {h}) /\ Cardinality(Busy \ {h}) = Cardinality(Busy) - 1
    BY <1>2, <2>1, FS_RemoveElement
  <2> QED
    BY <2>1, <2>2, FS_CardinalityType
<1>4. \/ Busy' = Busy /\ wg' = wg
      \/ Busy' = Busy \ {h} /\ wg' = wg - 1
  BY <1>2 DEF Busy
<1>5. Counted' /\ wg' \in Nat /\ (Busy = {} => Busy' = {})
  BY <1>3, <1>4 DEF Counted
<1>6. TypeOK'
  BY <1>1, <1>2, <1>5 DEF start, read, chans, IInv, TypeOK
<1>7. ReaderHolds' /\ ReturnsOnce'
  BY <1>1 DEF start, read, IInv, ReaderHolds, ReturnsOnce, Returned
<1> QED
  BY <1>1, <1>5, <1>6, <1>7 DEF start, IInv, DrainedUnlessTimeout

LEMMA NextInv == IInv /\ [Next]_vars => IInv'
<1> SUFFICES ASSUME IInv, [Next]_vars PROVE IInv'
  OBVIOUS
<1>1. CASE UNCHANGED vars
  <2>1. UNCHANGED work /\ TypeOK' /\ ReaderHolds' /\ ReturnsOnce' /\ ret' = ret /\ timedOut' = timedOut
    BY <1>1 DEF vars, start, read, chans, work, IInv, TypeOK, ReaderHolds, ReturnsOnce, Returned
  <2> QED
    BY <2>1, Quiet
<1>2. CASE CancelCtx \/ Shutdown
  BY <1>2, CallerInv
<1>3. CASE StartStep
  BY <1>3, CallerInv, SelectMessageInv, SpawnInv, DrainInv DEF StartStep
<1>4. CASE ReaderStep
  BY <1>4, ReaderInv
<1>5. ASSUME NEW h \in Handler, HandlerStep(h) PROVE IInv'
  BY <1>5, HandlerInv
<1> QED
  BY <1>1, <1>2, <1>3, <1>4, <1>5 DEF Next

LEMMA Invariance == Spec => []IInv
BY InitInv, NextInv, PTL DEF Spec

\* The goroutines and channels of the worker have their types in every
\* reachable state; the WaitGroup never goes below zero, where it would panic
\* (worker.go:89, 97).
THEOREM TypeCorrect == Spec => []TypeOK
<1>1. IInv => TypeOK
  BY DEF IInv
<1> QED
  BY <1>1, Invariance, PTL

\* A Start that returns because it was cancelled leaves no message behind that
\* is still being processed, unless the timeout was reached
\* (worker.go:66-69, 88-91, 97, 128-143).
THEOREM DrainTheorem == Spec => []DrainedUnlessTimeout
<1>1. IInv => DrainedUnlessTimeout
  BY DEF IInv
<1> QED
  BY <1>1, Invariance, PTL

=============================================================================
