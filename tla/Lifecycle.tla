----------------------------- MODULE Lifecycle -----------------------------
(***************************************************************************)
(* The life of the server process: internal/app/app.go, called by          *)
(* cmd/api-server/main.go.  Actors: the goroutine of Run, the drain        *)
(* goroutine it starts, the signal, the requests being served, and a load  *)
(* balancer that asks /readyz and sends requests where it was told yes.    *)
(*                                                                         *)
(* External, as Run uses them: net/http's Server (Shutdown closes the      *)
(* listener at once, ListenAndServe returns as soon as that happens and    *)
(* refuses to open after it, Shutdown returns when no request is served or *)
(* its context expires) and pgxpool (Close refuses new connections and     *)
(* blocks until those in use are returned).                                *)
(***************************************************************************)
EXTENDS Naturals

CONSTANTS
    Requests,   \* the requests that may be sent, each once
    Delay,      \* cfg.Graceful.ReadinessDelay, in ticks
    Timeout,    \* cfg.Graceful.ShutdownTimeout, in ticks
    PollEvery   \* the load balancer asks at least once in this many ticks

ASSUME LifecycleAssumption ==
    /\ Delay \in Nat
    /\ Timeout \in Nat
    /\ PollEvery \in Nat

\* The readiness delay is there for this, and a deployment has to see to it.
ASSUME PollingAssumption == PollEvery < Delay

VARIABLES
    main,        \* where Run is
    drain,       \* where the drain goroutine is
    cancelled,   \* ctx is done: SIGTERM, or SIGINT
    pool,        \* the database pool
    ready,       \* the flag of healthSvc.SetReady
    checks,      \* the health checks run
    listener,    \* of the http.Server
    broke,       \* ListenAndServe returned an error of its own
    overdue,     \* Shutdown gave up
    req,         \* the state of each request
    up,          \* the load balancer believes the server is ready
    sincePoll, delayLeft, timeoutLeft

mainVars  == <<main, pool, ready, checks, listener, broke>>
timeVars  == <<sincePoll, delayLeft, timeoutLeft>>
vars == <<mainVars, drain, cancelled, overdue, req, up, timeVars>>

MainPhases  == {"config", "pool", "migrate", "health", "server", "listen",
                "serve", "join", "close", "returned"}
DrainPhases == {"off", "wait", "sleep", "shutdown", "stop", "done"}

\* What may have become of the pool in a phase of Run: nothing before NewPool,
\* open from then on, and its Close, deferred, comes before the return.
PoolIn(phase) ==
    CASE phase \in {"config", "pool"} -> {"none"}
      [] phase = "close"    -> {"open", "closing"}
      [] phase = "returned" -> {"none", "closed"}
      [] OTHER -> {"open"}

\* The values of every variable; those of the pool depend on the phase of Run:
\* whichever way Run ends, it closes the pool if it has made one and closes
\* nothing else (app.go 28-32).
TypeOK ==
    /\ main \in MainPhases
    /\ drain \in DrainPhases
    /\ cancelled \in BOOLEAN
    /\ pool \in PoolIn(main)
    /\ ready \in BOOLEAN
    /\ checks \in BOOLEAN
    /\ listener \in {"new", "open", "closed"}
    /\ broke \in BOOLEAN
    /\ overdue \in BOOLEAN
    /\ req \in [Requests -> {"unsent", "active", "query", "answered",
                             "error", "refused", "killed"}]
    /\ up \in BOOLEAN
    /\ sincePoll \in 0..PollEvery
    /\ delayLeft \in 0..Delay
    /\ timeoutLeft \in 0..Timeout

Init ==
    /\ main = "config"
    /\ drain = "off"
    /\ cancelled = FALSE
    /\ pool = "none"
    /\ ready = FALSE
    /\ checks = FALSE
    /\ listener = "new"
    /\ broke = FALSE
    /\ overdue = FALSE
    /\ req = [r \in Requests |-> "unsent"]
    /\ up = FALSE
    /\ sincePoll = 0
    /\ delayLeft = Delay
    /\ timeoutLeft = Timeout

Served(r)  == req[r] \in {"active", "query"}
Alive      == main # "returned"

----------------------------------------------------------------------------
(* Run, up to the server.                                                  *)

\* The function given to app.Run: no database URL, or a file or variable that
\* does not parse, ends it before Run.
LoadConfig ==
    /\ main = "config"
    /\ main' \in {"pool", "returned"}
    /\ UNCHANGED <<pool, ready, checks, listener, broke, drain, cancelled,
                   overdue, req, up, timeVars>>

\* Mutant: Close is deferred before the error of NewPool is looked at.
NewPoolDeferred ==
    /\ main = "pool"
    /\ \/ main' = "migrate" /\ pool' = "open"
       \/ main' = "close" /\ UNCHANGED pool
    /\ UNCHANGED <<ready, checks, listener, broke, drain, cancelled, overdue,
                   req, up, timeVars>>

NewPool ==
    /\ main = "pool"
    /\ \/ main' = "migrate" /\ pool' = "open"
       \/ main' = "returned" /\ UNCHANGED pool
    /\ UNCHANGED <<ready, checks, listener, broke, drain, cancelled, overdue,
                   req, up, timeVars>>

\* A statement under a cancelled context fails.
RunMigrations ==
    /\ main = "migrate"
    /\ \/ main' = "health" /\ ~cancelled
       \/ main' = "close"
    /\ UNCHANGED <<pool, ready, checks, listener, broke, drain, cancelled,
                   overdue, req, up, timeVars>>

StartHealth ==
    /\ main = "health"
    /\ main' = "server"
    /\ ready' = TRUE
    /\ checks' = ~cancelled
    /\ UNCHANGED <<pool, listener, broke, drain, cancelled, overdue, req, up,
                   timeVars>>

\* NewServer, and the go statement: a server that cannot be created ends Run
\* with the readiness flag set and nobody listening.
NewServer ==
    /\ main = "server"
    /\ \/ main' = "listen" /\ drain' = "wait"
       \/ main' = "close" /\ UNCHANGED drain
    /\ UNCHANGED <<pool, ready, checks, listener, broke, cancelled, overdue,
                   req, up, timeVars>>

----------------------------------------------------------------------------
(* Run, from ListenAndServe on.                                            *)

ListenAndServe ==
    /\ main = "listen"
    /\ listener = "new"
    /\ \/ main' = "serve" /\ listener' = "open" /\ UNCHANGED broke
       \/ main' = "close" /\ broke' = TRUE /\ UNCHANGED listener
    /\ UNCHANGED <<pool, ready, checks, drain, cancelled, overdue, req, up,
                   timeVars>>

\* Accept fails while nobody shuts the server down.
ListenerFails ==
    /\ main = "serve"
    /\ listener = "open"
    /\ listener' = "closed"
    /\ broke' = TRUE
    /\ main' = "close"
    /\ UNCHANGED <<pool, ready, checks, drain, cancelled, overdue, req, up,
                   timeVars>>

\* ErrServerClosed: Shutdown has closed the listener, or came first.
ServerClosed ==
    /\ main \in {"listen", "serve"}
    /\ listener = "closed"
    /\ main' = "join"
    /\ UNCHANGED <<pool, ready, checks, listener, broke, drain, cancelled,
                   overdue, req, up, timeVars>>

\* Mutant: Run returns as soon as ListenAndServe does.
JoinDrainNow ==
    /\ main = "join"
    /\ main' = "close"
    /\ UNCHANGED <<pool, ready, checks, listener, broke, drain, cancelled,
                   overdue, req, up, timeVars>>

JoinDrain ==
    /\ main = "join"
    /\ drain = "done"
    /\ main' = "close"
    /\ UNCHANGED <<pool, ready, checks, listener, broke, drain, cancelled,
                   overdue, req, up, timeVars>>

\* The deferred pool.Close: new connections are refused from here ...
BeginClose ==
    /\ main = "close"
    /\ pool = "open"
    /\ pool' = "closing"
    /\ UNCHANGED <<main, ready, checks, listener, broke, drain, cancelled,
                   overdue, req, up, timeVars>>

\* ... and it returns when those in use are back.  The process ends with Run.
EndClose ==
    /\ main = "close"
    /\ pool = "closing"
    /\ \A r \in Requests : req[r] # "query"
    /\ pool' = "closed"
    /\ main' = "returned"
    /\ checks' = FALSE
    /\ req' = [r \in Requests |-> IF Served(r) THEN "killed" ELSE req[r]]
    /\ UNCHANGED <<ready, listener, broke, drain, cancelled, overdue, up,
                   timeVars>>

Main ==
    \/ LoadConfig \/ NewPool \/ RunMigrations \/ StartHealth \/ NewServer
    \/ ListenAndServe \/ ServerClosed \/ JoinDrain \/ BeginClose \/ EndClose

----------------------------------------------------------------------------
(* The signal and the drain goroutine.                                     *)

Cancel ==
    /\ Alive
    /\ ~cancelled
    /\ cancelled' = TRUE
    /\ checks' = FALSE                    \* the runners have a child of ctx
    /\ UNCHANGED <<main, pool, ready, listener, broke, drain, overdue, req, up,
                   timeVars>>

BeginDrain ==
    /\ Alive
    /\ drain = "wait"
    /\ cancelled
    /\ ready' = FALSE
    /\ drain' = "sleep"
    /\ UNCHANGED <<main, pool, checks, listener, broke, cancelled, overdue, req,
                   up, timeVars>>

\* Mutant: the delay is left out.
BeginShutdownAtOnce ==
    /\ Alive
    /\ drain = "sleep"
    /\ drain' = "shutdown"
    /\ listener' = "closed"
    /\ UNCHANGED <<main, pool, ready, checks, broke, cancelled, overdue, req, up,
                   timeVars>>

\* time.Sleep is over; Shutdown closes the listener first.
BeginShutdown ==
    /\ Alive
    /\ drain = "sleep"
    /\ delayLeft = 0
    /\ drain' = "shutdown"
    /\ listener' = "closed"
    /\ UNCHANGED <<main, pool, ready, checks, broke, cancelled, overdue, req, up,
                   timeVars>>

\* Mutant: a Shutdown that failed ends the goroutine.
EndShutdownReturn ==
    /\ Alive
    /\ drain = "shutdown"
    /\ \/ (\A r \in Requests : ~Served(r)) /\ drain' = "stop" /\ UNCHANGED overdue
       \/ timeoutLeft = 0 /\ overdue' = TRUE /\ drain' = "off"
    /\ UNCHANGED <<mainVars, cancelled, req, up, timeVars>>

EndShutdown ==
    /\ Alive
    /\ drain = "shutdown"
    /\ \/ (\A r \in Requests : ~Served(r)) /\ UNCHANGED overdue
       \/ timeoutLeft = 0 /\ overdue' = TRUE
    /\ drain' = "stop"
    /\ UNCHANGED <<mainVars, cancelled, req, up, timeVars>>

\* healthSvc.Stop, close(shutdownDone).
EndDrain ==
    /\ Alive
    /\ drain = "stop"
    /\ checks' = FALSE
    /\ drain' = "done"
    /\ UNCHANGED <<main, pool, ready, listener, broke, cancelled, overdue, req,
                   up, timeVars>>

Drain == BeginDrain \/ BeginShutdown \/ EndShutdown \/ EndDrain

----------------------------------------------------------------------------
(* The requests and the load balancer.                                     *)

\* Sent where the balancer believes the server ready.
Send(r) ==
    /\ req[r] = "unsent"
    /\ up
    /\ req' = [req EXCEPT ![r] = IF listener = "open" THEN "active" ELSE "refused"]
    /\ UNCHANGED <<mainVars, drain, cancelled, overdue, up, timeVars>>

\* A repository call takes a connection of the pool.
Acquire(r) ==
    /\ Alive
    /\ req[r] = "active"
    /\ req' = [req EXCEPT ![r] = IF pool = "open" THEN "query" ELSE "error"]
    /\ UNCHANGED <<mainVars, drain, cancelled, overdue, up, timeVars>>

Release(r) ==
    /\ Alive
    /\ req[r] = "query"
    /\ req' = [req EXCEPT ![r] = "active"]
    /\ UNCHANGED <<mainVars, drain, cancelled, overdue, up, timeVars>>

Answer(r) ==
    /\ Alive
    /\ req[r] = "active"
    /\ req' = [req EXCEPT ![r] = "answered"]
    /\ UNCHANGED <<mainVars, drain, cancelled, overdue, up, timeVars>>

\* GET /readyz: refused once the listener is closed, 503 without the flag, and
\* 503 with it when the database check fails.
Poll ==
    /\ up' \in {FALSE, listener = "open" /\ ready}
    /\ sincePoll' = 0
    /\ UNCHANGED <<mainVars, drain, cancelled, overdue, req, delayLeft, timeoutLeft>>

Less(n) == IF n = 0 THEN 0 ELSE n - 1

Tick ==
    /\ Alive
    /\ sincePoll < PollEvery
    /\ sincePoll' = sincePoll + 1
    /\ delayLeft' = IF drain = "sleep" THEN Less(delayLeft) ELSE delayLeft
    /\ timeoutLeft' = IF drain = "shutdown" THEN Less(timeoutLeft) ELSE timeoutLeft
    /\ UNCHANGED <<mainVars, drain, cancelled, overdue, req, up>>

Next ==
    \/ Main \/ ListenerFails
    \/ Cancel \/ Drain
    \/ \E r \in Requests : Send(r) \/ Acquire(r) \/ Release(r) \/ Answer(r)
    \/ Poll \/ Tick

\* Goroutines are scheduled, time passes, the balancer asks, and the database
\* answers: a connection in use comes back.  Requests may last for ever.
Spec ==
    /\ Init
    /\ [][Next]_vars
    /\ WF_vars(Main)
    /\ WF_vars(Drain)
    /\ WF_vars(Tick)
    /\ WF_vars(Poll)
    /\ \A r \in Requests : WF_vars(Release(r))

----------------------------------------------------------------------------
(* Properties                                                              *)

\* Run joins the drain before it closes the pool (app.go:131): a request that
\* is being served loses the database, and then its process, only when Shutdown
\* gave up on it (app.go:120) or the listener broke down by itself.
PoolOutlivesRequests ==
    pool \in {"closing", "closed"} /\ (\E r \in Requests : Served(r))
        => overdue \/ broke

\* Readiness is withdrawn, then the delay passes, then the listener closes
\* (app.go:112-120, ARCHITECTURE.md:39-43): a balancer that asks more often
\* than the delay never sends a request to a closed listener.
DrainedBeforeRefusing ==
    (\E r \in Requests : req[r] = "refused") => broke

\* After a signal Run returns, whatever the requests do (app.go:116-132).
RunReturns == cancelled ~> main = "returned"
=============================================================================
