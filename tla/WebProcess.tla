----------------------------- MODULE WebProcess -----------------------------
(***************************************************************************)
(* The web process and its task queue: handlers save tasks and the runner  *)
(* runs them while the process lives, the messages outlive it.             *)
(***************************************************************************)
EXTENDS Naturals, Sequences

CONSTANTS
    Request, MaxEnds,
    Saver, Task, Buffer, MaxRetries, Goroutines, MaxSaves, MaxFaults

VARIABLES
    main, inits, up, server, registered, runner, busy, ends,
    op, mem, queue, faults

Web == INSTANCE WebServer
Queue == INSTANCE TaskQueue

ASSUME WebProcessAssumption == Web!WebServerAssumption /\ Queue!TaskQueueAssumption

webVars == <<main, inits, up, server, registered, runner, busy, ends>>
queueVars == <<op, mem, queue, faults>>
vars == <<webVars, queueVars>>

TypeOK == Web!TypeOK /\ Queue!TypeOK

Init == Web!Init /\ Queue!Init

\* A step of the web process; the queue sees its end.
WithQueue == IF main # "down" /\ main' = "down" THEN Queue!Stop ELSE UNCHANGED queueVars

WebStep == Web!Next /\ WithQueue

\* Handlers save tasks.
SaveStep(s) == busy # {} /\ Queue!SaveStep(s) /\ UNCHANGED webVars

EndTxn(i) == main # "down" /\ Queue!EndTxn(i) /\ UNCHANGED webVars

Due(i) == Queue!Due(i) /\ UNCHANGED webVars

\* A runner whose context is cancelled takes no message any more, but finishes
\* the ones it runs for as long as the process lives.
Receive(i) == runner = "running" /\ Queue!Receive(i) /\ UNCHANGED webVars

Finish(i) == runner # "off" /\ Queue!Finish(i) /\ UNCHANGED webVars

Next ==
    \/ WebStep
    \/ \E s \in Saver : SaveStep(s)
    \/ \E i \in DOMAIN queue : EndTxn(i) \/ Due(i) \/ Receive(i) \/ Finish(i)

Spec == Init /\ [][Next]_vars

Sent == 1 .. MaxSaves

\* The process is started again and main goes on; the runner polls; delays and
\* transactions end. Nothing is assumed of handlers and signals.
FairSpec ==
    /\ Spec
    /\ WF_vars(Web!Start /\ WithQueue)
    /\ WF_vars(Web!MainStep /\ WithQueue)
    /\ \A i \in Sent :
        /\ WF_vars(i \in DOMAIN queue /\ (EndTxn(i) \/ Due(i) \/ Finish(i)))
        /\ SF_vars(i \in DOMAIN queue /\ Receive(i))

-----------------------------------------------------------------------------

ServicesInOrder == Web!ServicesInOrder
SignalEndsProcess == Web!SignalEndsProcess
RunsAreJustified == Queue!RunsAreJustified
SavedTaskRuns == Queue!SavedTaskRuns

=============================================================================
