----------------------------- MODULE WebServer -----------------------------
(***************************************************************************)
(* The life of the web process: main (cmd/web/main.go) with the goroutines *)
(* of the server and of the task runner, and the container of services it  *)
(* starts and shuts down (pkg/services/container.go). The process is       *)
(* started again whenever it has ended (docker-compose.yml, restart).      *)
(***************************************************************************)
EXTENDS Naturals, Sequences

CONSTANTS
    Request,
    MaxEnds    \* bound: ends of the process, wished for or not

WebServerAssumption == MaxEnds \in Nat

VARIABLES
    main,       \* what the main goroutine does next, "down" without a process
    inits,      \* the init functions of NewContainer that have returned
    up,         \* the services that are initialised and not closed
    server,     \* the server goroutine
    registered, \* the task queues are registered with the runner
    runner,     \* the runner and its context
    busy,       \* requests whose handler is running
    ends        \* ends of the process so far or under way

vars == <<main, inits, up, server, registered, runner, busy, ends>>

\* Variant: the task client is made before the database it is given.
MutInitOrder ==
    <<"config", "validator", "web", "cache", "database", "tasks", "queueDatabase", "orm", "auth",
      "templateRenderer", "mail">>

\* NewContainer.
InitOrder ==
    <<"config", "validator", "web", "cache", "database", "queueDatabase", "orm", "auth",
      "templateRenderer", "mail", "tasks">>

Service == {InitOrder[i] : i \in DOMAIN InitOrder}

\* The fields of the container that an init function reads.
Needs(service) ==
    CASE service \in {"config", "validator"} -> {}
      [] service = "web" -> {"validator"}
      [] service \in {"cache", "database", "queueDatabase", "orm"} -> {"config"}
      [] service = "auth" -> {"config", "orm"}
      [] service = "templateRenderer" -> {"config", "cache", "web"}
      [] service = "mail" -> {"config", "templateRenderer"}
      [] service = "tasks" -> {"config", "queueDatabase"}

\* The init functions that panic.
MayFail == {"config", "cache", "database", "queueDatabase", "orm", "mail", "tasks"}

\* Container.Shutdown; the queue's database is not among them.
CloseOrder == <<"orm", "database", "cache">>

TypeOK ==
    /\ main \in {"down", "init", "router", "register", "runner", "wait", "cancel", "shutdown",
                 "drain", "close"}
    /\ inits \in 0 .. Len(InitOrder)
    /\ up \subseteq Service
    /\ server \in {"off", "starting", "listening", "failed", "closing"}
    /\ registered \in BOOLEAN
    /\ runner \in {"off", "running", "cancelled"}
    /\ busy \subseteq Request
    /\ ends \in 0 .. MaxEnds
    /\ main \in {"down", "init", "router"} => server = "off" /\ runner = "off" /\ busy = {}

Init ==
    /\ main = "init"
    /\ inits = 0
    /\ up = {}
    /\ server = "off"
    /\ registered = FALSE
    /\ runner = "off"
    /\ busy = {}
    /\ ends = 0

-----------------------------------------------------------------------------

\* os.Exit, a panic, a kill or the return of main: nothing of the process is left.
Exit ==
    /\ main' = "down"
    /\ inits' = 0
    /\ up' = {}
    /\ server' = "off"
    /\ registered' = FALSE
    /\ runner' = "off"
    /\ busy' = {}

Mishap == ends < MaxEnds /\ ends' = ends + 1 /\ Exit

Start ==
    /\ main = "down"
    /\ main' = "init"
    /\ UNCHANGED <<inits, up, server, registered, runner, busy, ends>>

(***************************************************************************)
(* NewContainer: one service after the other, a panic where one fails.     *)
(***************************************************************************)
NextService == InitOrder[inits + 1]

InitService ==
    /\ main = "init"
    /\ up' = up \union {NextService}
    /\ inits' = inits + 1
    /\ main' = IF inits + 1 = Len(InitOrder) THEN "router" ELSE "init"
    /\ UNCHANGED <<server, registered, runner, busy, ends>>

InitFails == main = "init" /\ NextService \in MayFail /\ Mishap

\* BuildRouter and the go statement of the server.
BuildRouter ==
    /\ main = "router"
    /\ main' = "register"
    /\ server' = "starting"
    /\ UNCHANGED <<inits, up, registered, runner, busy, ends>>

BuildRouterFails == main = "router" /\ Mishap

(***************************************************************************)
(* The server goroutine. A listener that fails is not noticed; a           *)
(* certificate that does not load, or a server that was shut down, ends    *)
(* the process.                                                            *)
(***************************************************************************)
Listen ==
    /\ server = "starting"
    /\ server' \in {"listening", "failed"}
    /\ UNCHANGED <<main, inits, up, registered, runner, busy, ends>>

NoCertificate == server = "starting" /\ Mishap

ErrServerClosed == server = "closing" /\ Exit /\ UNCHANGED ends

Arrive(r) ==
    /\ server = "listening"
    /\ busy' = busy \union {r}
    /\ UNCHANGED <<main, inits, up, server, registered, runner, ends>>

Respond(r) ==
    /\ r \in busy
    /\ busy' = busy \ {r}
    /\ UNCHANGED <<main, inits, up, server, registered, runner, ends>>

(***************************************************************************)
(* main, after the server's go statement.                                  *)
(***************************************************************************)
Register ==
    /\ main = "register"
    /\ registered' = TRUE
    /\ main' = "runner"
    /\ UNCHANGED <<inits, up, server, runner, busy, ends>>

StartRunner ==
    /\ main = "runner"
    /\ runner' = "running"
    /\ main' = "wait"
    /\ UNCHANGED <<inits, up, server, registered, busy, ends>>

\* os.Interrupt.
Signal ==
    /\ main = "wait"
    /\ ends < MaxEnds
    /\ ends' = ends + 1
    /\ main' = "cancel"
    /\ UNCHANGED <<inits, up, server, registered, runner, busy>>

\* SIGKILL, or SIGTERM, which is not asked for; an interrupt before "wait".
Kill == main # "down" /\ Mishap

\* Variant: cancel is left to main's deferred calls.
MutCancel ==
    /\ main = "cancel"
    /\ main' = "shutdown"
    /\ UNCHANGED <<inits, up, server, registered, runner, busy, ends>>

Cancel ==
    /\ main = "cancel"
    /\ runner' = "cancelled"
    /\ main' = "shutdown"
    /\ UNCHANGED <<inits, up, server, registered, busy, ends>>

\* Web.Shutdown (echo, external) closes the listener and waits for the
\* handlers, if it knows the server: StartServer was given one of main's own.
Shutdown ==
    /\ main = "shutdown"
    /\ \/ main' = "close" /\ UNCHANGED server
       \/ main' = "drain" /\ server' = IF server = "listening" THEN "closing" ELSE server
    /\ UNCHANGED <<inits, up, registered, runner, busy, ends>>

\* Variant: no timeout.
MutDrain ==
    /\ main = "drain"
    /\ busy = {}
    /\ main' = "close"
    /\ UNCHANGED <<inits, up, server, registered, runner, busy, ends>>

\* It returns when the handlers are done, or with an error after 10 seconds.
Drain ==
    /\ main = "drain"
    /\ IF busy = {}
       THEN main' = "close" /\ UNCHANGED <<inits, up, server, registered, runner, busy>>
       ELSE Exit
    /\ UNCHANGED ends

\* The deferred Container.Shutdown; the end of main is the end of the process,
\* and so is an error.
ToClose == {i \in DOMAIN CloseOrder : CloseOrder[i] \in up}

Close ==
    /\ main = "close"
    /\ ToClose # {}
    /\ \E i \in ToClose :
        /\ \A j \in ToClose : i <= j
        /\ up' = up \ {CloseOrder[i]}
    /\ UNCHANGED <<main, inits, server, registered, runner, busy, ends>>

CloseEnds == main = "close" /\ Exit /\ UNCHANGED ends

MainStep ==
    \/ InitService \/ BuildRouter \/ Register \/ StartRunner \/ Cancel \/ Shutdown \/ Drain
    \/ Close \/ CloseEnds

Next ==
    \/ Start \/ MainStep \/ Signal \/ Kill \/ InitFails \/ BuildRouterFails
    \/ Listen \/ NoCertificate \/ ErrServerClosed
    \/ \E r \in Request : Arrive(r) \/ Respond(r)

Spec == Init /\ [][Next]_vars

-----------------------------------------------------------------------------

(***************************************************************************)
(* Every init function finds what it reads in the container; handlers and  *)
(* the runner start only when all of it is there and the task queues are   *)
(* registered: what the server, started first, meets is never half a       *)
(* container (container.go:57-71, main.go:21-64). On every way to the end  *)
(* of main, "if the task runner was started, cancel the context to shut it *)
(* down prior to calling this" (container.go:74).                          *)
(***************************************************************************)
ServicesInOrder ==
    /\ main = "init" => Needs(NextService) \subseteq up
    /\ server # "off" /\ main # "close" => up = Service
    /\ runner # "off" => registered
    /\ main = "close" => runner = "cancelled"

(***************************************************************************)
(* A signal ends the process, whatever handlers and tasks do               *)
(* (main.go:66-76).                                                        *)
(***************************************************************************)
SignalEndsProcess == main = "cancel" ~> main = "down"

=============================================================================
