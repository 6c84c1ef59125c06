-------------------------- MODULE LifecycleProofs --------------------------
(***************************************************************************)
(* Proofs about Lifecycle, for any number of requests, any delay and any   *)
(* timeout.  Only DrainFirst takes the load balancer to ask more often     *)
(* than the delay lasts (PollingAssumption).                               *)
(***************************************************************************)
EXTENDS Lifecycle, TLAPS

USE DEF Less

(* How far each goroutine has come, and what that says of the others.       *)
Early == {"config", "pool", "migrate", "health", "server"}
Down  == {"shutdown", "stop", "done"}

Order ==
    /\ main \in Early => listener = "new" /\ drain = "off" /\ pool \in {"none", "open"}
    /\ main = "join" => listener = "closed"
    /\ listener = "closed" => broke \/ drain \in Down
    /\ drain \in Down => listener = "closed"
    /\ main \in {"close", "returned"} =>
          broke \/ drain = "done" \/ (listener = "new" /\ drain = "off")
    /\ pool \in {"closing", "closed"} => main \in {"close", "returned"}

(* Requests are served only since the listener opened; once Shutdown has    *)
(* returned there are none, or it gave up.                                  *)
Settled ==
    /\ listener = "new" => \A r \in Requests : ~Served(r)
    /\ drain \in {"stop", "done"} => overdue \/ \A r \in Requests : ~Served(r)

(* While the drain sleeps, a balancer that still believes in the server has *)
(* not asked since: at least as many ticks have passed since it did as the  *)
(* drain has slept.                                                         *)
Withdrawn ==
    /\ drain \in {"off", "wait"} => delayLeft = Delay
    /\ drain \notin {"off", "wait"} => ~ready
    /\ drain = "sleep" /\ up => delayLeft + sincePoll >= Delay
    /\ drain \in Down => ~up
    /\ up => listener = "open" \/ broke

ServingInv ==
    /\ TypeOK
    /\ Order
    /\ Settled

LifecycleInv ==
    /\ ServingInv
    /\ Withdrawn
    /\ DrainedBeforeRefusing

(* Types, one group of variables at a time.                                 *)

LEMMA StepPhases ==
    ASSUME TypeOK, [Next]_vars
    PROVE  /\ main' \in MainPhases
           /\ drain' \in DrainPhases
           /\ listener' \in {"new", "open", "closed"}
  BY ZenonT(60) DEF TypeOK, MainPhases, DrainPhases,
         LoadConfig, NewPool, RunMigrations, StartHealth, NewServer, ListenAndServe, ListenerFails,
         ServerClosed, JoinDrain, BeginClose, EndClose, Cancel, BeginDrain, BeginShutdown,
         EndShutdown, EndDrain, Send, Acquire, Release, Answer, Poll, Tick,
         Next, Main, Drain, vars, mainVars, timeVars

\* A pool is made on the way to the migrations, and closed on every way back.
LEMMA StepPool ==
    ASSUME TypeOK, [Next]_vars
    PROVE  pool' \in PoolIn(main')
<1>1. \/ UNCHANGED <<main, pool>>
      \/ LoadConfig \/ NewPool \/ BeginClose \/ EndClose
      \/ UNCHANGED pool /\ main \in MainPhases \ {"config", "pool", "close", "returned"}
                        /\ main' \in MainPhases \ {"config", "pool", "returned"}
  BY Zenon DEF MainPhases,
         RunMigrations, StartHealth, NewServer, ListenAndServe, ListenerFails,
         ServerClosed, JoinDrain, Cancel, BeginDrain, BeginShutdown,
         EndShutdown, EndDrain, Send, Acquire, Release, Answer, Poll, Tick,
         Next, Main, Drain, vars, mainVars, timeVars
<1>2. CASE UNCHANGED <<main, pool>>
  BY <1>2 DEF TypeOK
<1>3. CASE LoadConfig \/ NewPool \/ BeginClose \/ EndClose
  BY <1>3 DEF TypeOK, PoolIn, LoadConfig, NewPool, BeginClose, EndClose
<1>4. CASE UNCHANGED pool /\ main \in MainPhases \ {"config", "pool", "close", "returned"}
                         /\ main' \in MainPhases \ {"config", "pool", "returned"}
  BY <1>4 DEF TypeOK, PoolIn, MainPhases
<1> QED  BY <1>1, <1>2, <1>3, <1>4

LEMMA StepFlags ==
    ASSUME TypeOK, [Next]_vars
    PROVE  /\ cancelled' \in BOOLEAN
           /\ ready' \in BOOLEAN
           /\ checks' \in BOOLEAN
           /\ broke' \in BOOLEAN
           /\ overdue' \in BOOLEAN
           /\ up' \in BOOLEAN
  BY ZenonT(60) DEF TypeOK,
         LoadConfig, NewPool, RunMigrations, StartHealth, NewServer, ListenAndServe, ListenerFails,
         ServerClosed, JoinDrain, BeginClose, EndClose, Cancel, BeginDrain, BeginShutdown,
         EndShutdown, EndDrain, Send, Acquire, Release, Answer, Poll, Tick,
         Next, Main, Drain, vars, mainVars, timeVars

LEMMA StepTimers ==
    ASSUME TypeOK, [Next]_vars
    PROVE  /\ sincePoll' \in 0..PollEvery
           /\ delayLeft' \in 0..Delay
           /\ timeoutLeft' \in 0..Timeout
<1>1. UNCHANGED timeVars \/ Poll \/ Tick
  BY Zenon DEF
         LoadConfig, NewPool, RunMigrations, StartHealth, NewServer, ListenAndServe, ListenerFails,
         ServerClosed, JoinDrain, BeginClose, EndClose, Cancel, BeginDrain, BeginShutdown,
         EndShutdown, EndDrain, Send, Acquire, Release, Answer,
         Next, Main, Drain, vars, mainVars, timeVars
<1>2. CASE UNCHANGED timeVars
  BY <1>2 DEF TypeOK, timeVars
<1>3. CASE Poll
  BY <1>3, LifecycleAssumption DEF TypeOK, Poll
<1>4. CASE Tick
  BY <1>4, LifecycleAssumption DEF TypeOK, Tick
<1> QED  BY <1>1, <1>2, <1>3, <1>4

LEMMA StepRequests ==
    ASSUME TypeOK, [Next]_vars
    PROVE  req' \in [Requests -> {"unsent", "active", "query", "answered",
                                  "error", "refused", "killed"}]
<1>1. \/ UNCHANGED req
      \/ EndClose
      \/ \E r \in Requests : Send(r) \/ Acquire(r) \/ Release(r) \/ Answer(r)
  BY Zenon DEF
         LoadConfig, NewPool, RunMigrations, StartHealth, NewServer, ListenAndServe, ListenerFails,
         ServerClosed, JoinDrain, BeginClose, Cancel, BeginDrain, BeginShutdown,
         EndShutdown, EndDrain, Poll, Tick,
         Next, Main, Drain, vars, mainVars, timeVars
<1>2. CASE UNCHANGED req
  BY <1>2 DEF TypeOK
<1>3. CASE EndClose
  BY <1>3 DEF TypeOK, EndClose
<1>4. ASSUME NEW r \in Requests, Send(r) \/ Acquire(r) \/ Release(r) \/ Answer(r)
      PROVE  req' \in [Requests -> {"unsent", "active", "query", "answered",
                                    "error", "refused", "killed"}]
  BY <1>4 DEF TypeOK, Send, Acquire, Release, Answer
<1> QED  BY <1>1, <1>2, <1>3, <1>4

LEMMA StepTypeOK ==
    ASSUME TypeOK, [Next]_vars
    PROVE  TypeOK'
  BY StepPhases, StepPool, StepFlags, StepTimers, StepRequests DEF TypeOK

(* The order of the shutdown.                                               *)

LEMMA StepOrder ==
    ASSUME TypeOK, Order, [Next]_vars
    PROVE  Order'
  BY ZenonT(60) DEF TypeOK, Order, Early, Down,
         LoadConfig, NewPool, RunMigrations, StartHealth, NewServer, ListenAndServe, ListenerFails,
         ServerClosed, JoinDrain, BeginClose, EndClose, Cancel, BeginDrain, BeginShutdown,
         EndShutdown, EndDrain, Send, Acquire, Release, Answer, Poll, Tick,
         Next, Main, Drain, vars, mainVars, timeVars

(* Which requests are served.                                               *)

LEMMA StepSettled ==
    ASSUME TypeOK, Order, Settled, [Next]_vars
    PROVE  Settled'
<1>1. \/ UNCHANGED <<req, listener, drain, overdue>>
      \/ ListenAndServe \/ ListenerFails \/ NewServer
      \/ BeginDrain \/ BeginShutdown \/ EndShutdown \/ EndDrain
      \/ EndClose
      \/ \E r \in Requests : Send(r) \/ Acquire(r) \/ Release(r) \/ Answer(r)
  BY Zenon DEF
         LoadConfig, NewPool, RunMigrations, StartHealth,
         ServerClosed, JoinDrain, BeginClose, Cancel, Poll, Tick,
         Next, Main, Drain, vars, mainVars, timeVars
<1>2. CASE \/ UNCHANGED <<req, listener, drain, overdue>>
           \/ ListenAndServe \/ ListenerFails \/ NewServer
           \/ BeginDrain \/ BeginShutdown \/ EndShutdown \/ EndDrain
  BY <1>2, ZenonT(60) DEF Settled, Served, Order, Early, Down, ListenAndServe, ListenerFails, NewServer,
         BeginDrain, BeginShutdown, EndShutdown, EndDrain, vars, mainVars, timeVars
<1>3. CASE EndClose
  BY <1>3 DEF TypeOK, Settled, Served, EndClose
<1>4. ASSUME NEW r \in Requests, Send(r) \/ Acquire(r) \/ Release(r) \/ Answer(r)
      PROVE  Settled'
  <2>1. UNCHANGED <<listener, drain, overdue>>
    BY <1>4, Zenon DEF Send, Acquire, Release, Answer, mainVars
  <2>2. \A q \in Requests : Served(q)' => Served(q) \/ listener = "open"
    BY <1>4 DEF TypeOK, Served, Send, Acquire, Release, Answer
  <2>3. listener = "open" => drain \notin {"stop", "done"}
    BY DEF Order, Down
  <2>4. drain \in {"stop", "done"} => listener # "new"
    BY DEF Order, Down
  <2> QED  BY <2>1, <2>2, <2>3, <2>4, Zenon DEF Settled
<1> QED  BY <1>1, <1>2, <1>3, <1>4

(* What the balancer may still believe.                                     *)

LEMMA StepWithdrawn ==
    ASSUME TypeOK, Order, Withdrawn, [Next]_vars
    PROVE  Withdrawn'
<1>1. \/ UNCHANGED <<drain, delayLeft, ready, up, sincePoll, listener, broke>>
      \/ StartHealth \/ NewServer \/ ListenAndServe \/ ListenerFails
      \/ BeginDrain \/ BeginShutdown \/ EndShutdown \/ EndDrain
      \/ Poll \/ Tick
  BY Zenon DEF
         LoadConfig, NewPool, RunMigrations, ServerClosed, JoinDrain, BeginClose, EndClose,
         Cancel, Send, Acquire, Release, Answer,
         Next, Main, Drain, vars, mainVars, timeVars
<1>2. CASE UNCHANGED <<drain, delayLeft, ready, up, sincePoll, listener, broke>>
  BY <1>2 DEF Withdrawn, Down
<1>3. CASE StartHealth
  BY <1>3 DEF Withdrawn, Order, Early, Down, StartHealth, timeVars
<1>4. CASE NewServer
  BY <1>4 DEF Withdrawn, Order, Early, Down, NewServer, timeVars
<1>5. CASE ListenAndServe
  BY <1>5, Zenon DEF Withdrawn, ListenAndServe, timeVars, Order, Down
<1>6. CASE ListenerFails
  BY <1>6, Zenon DEF Withdrawn, ListenerFails, timeVars
<1>7. CASE BeginDrain
  BY <1>7, LifecycleAssumption DEF TypeOK, Withdrawn, BeginDrain, timeVars, Down
<1>8. CASE BeginShutdown
  BY <1>8, LifecycleAssumption, PollingAssumption DEF TypeOK, Withdrawn, BeginShutdown, timeVars, Down
<1>9. CASE EndShutdown \/ EndDrain
  BY <1>9 DEF Withdrawn, EndShutdown, EndDrain, mainVars, timeVars, Down
<1>10. CASE Poll
  BY <1>10 DEF TypeOK, Withdrawn, Poll, mainVars, Down
<1>11. CASE Tick
  BY <1>11, LifecycleAssumption DEF TypeOK, Withdrawn, Tick, mainVars, Down
<1> QED  BY <1>1, <1>2, <1>3, <1>4, <1>5, <1>6, <1>7, <1>8, <1>9, <1>10, <1>11

(* A request is refused only where the listener broke down.                 *)

LEMMA StepRefused ==
    ASSUME TypeOK, Withdrawn, DrainedBeforeRefusing, [Next]_vars
    PROVE  DrainedBeforeRefusing'
<1>1. \/ UNCHANGED <<req, broke>>
      \/ ListenAndServe \/ ListenerFails \/ EndClose
      \/ \E r \in Requests : Send(r) \/ Acquire(r) \/ Release(r) \/ Answer(r)
  BY Zenon DEF
         LoadConfig, NewPool, RunMigrations, StartHealth, NewServer,
         ServerClosed, JoinDrain, BeginClose, Cancel, BeginDrain, BeginShutdown, EndShutdown,
         EndDrain, Poll, Tick, Next, Main, Drain, vars, mainVars, timeVars
<1>2. CASE UNCHANGED <<req, broke>> \/ ListenAndServe \/ ListenerFails
  BY <1>2, Zenon DEF DrainedBeforeRefusing, ListenAndServe, ListenerFails
<1>3. CASE EndClose
  BY <1>3 DEF TypeOK, DrainedBeforeRefusing, EndClose, Served
<1>4. ASSUME NEW r \in Requests, Send(r) \/ Acquire(r) \/ Release(r) \/ Answer(r)
      PROVE  DrainedBeforeRefusing'
  <2>1. UNCHANGED broke
    BY <1>4, Zenon DEF Send, Acquire, Release, Answer, mainVars
  <2>2. (\E q \in Requests : req'[q] = "refused") =>
           (\E q \in Requests : req[q] = "refused") \/ broke
    BY <1>4 DEF TypeOK, Withdrawn, Send, Acquire, Release, Answer
  <2> QED  BY <2>1, <2>2, Zenon DEF DrainedBeforeRefusing
<1> QED  BY <1>1, <1>2, <1>3, <1>4

LEMMA InitServing == Init => ServingInv
<1>1. Init => TypeOK
  <2>1. Init => main \in MainPhases /\ drain \in DrainPhases /\ pool \in PoolIn(main)
                /\ listener \in {"new", "open", "closed"}
    BY DEF Init, MainPhases, DrainPhases, PoolIn
  <2>2. Init => /\ cancelled \in BOOLEAN /\ ready \in BOOLEAN /\ checks \in BOOLEAN
                /\ broke \in BOOLEAN /\ overdue \in BOOLEAN /\ up \in BOOLEAN
    BY Zenon DEF Init
  <2>3. Init => /\ sincePoll \in 0..PollEvery /\ delayLeft \in 0..Delay
                /\ timeoutLeft \in 0..Timeout
    BY LifecycleAssumption DEF Init
  <2>4. Init => req \in [Requests -> {"unsent", "active", "query", "answered",
                                      "error", "refused", "killed"}]
    BY DEF Init
  <2> QED  BY <2>1, <2>2, <2>3, <2>4, Zenon DEF TypeOK
<1>2. Init => Order
  BY Zenon DEF Init, Order, Early, Down
<1>3. Init => Settled
  BY DEF Init, Settled, Served
<1> QED  BY <1>1, <1>2, <1>3, Zenon DEF ServingInv

LEMMA InitInv == Init => LifecycleInv
<1>1. Init => Withdrawn
  BY Zenon DEF Init, Withdrawn, Down
<1>2. Init => DrainedBeforeRefusing
  BY DEF Init, DrainedBeforeRefusing
<1> QED  BY <1>1, <1>2, InitServing, Zenon DEF LifecycleInv

LEMMA StepServing == ServingInv /\ [Next]_vars => ServingInv'
  BY StepTypeOK, StepOrder, StepSettled DEF ServingInv

LEMMA StepInv == LifecycleInv /\ [Next]_vars => LifecycleInv'
  BY StepServing, StepWithdrawn, StepRefused DEF LifecycleInv, ServingInv

(* The last two steps of the shutdown: the pool is closed only by a Run     *)
(* that joined the drain, and the drain is over only when nothing is served. *)
LEMMA InvOutlives == ServingInv => PoolOutlivesRequests
  BY Zenon DEF ServingInv, Order, Settled, Early, Down, PoolOutlivesRequests

LEMMA Serving == Spec => []ServingInv
  BY InitServing, StepServing, PTL DEF Spec

(* However Run ends, it closes the pool if it has made one and nothing      *)
(* else; every other variable keeps its range.                              *)
THEOREM TypeCorrect == Spec => []TypeOK
<1>1. ServingInv => TypeOK  BY DEF ServingInv
<1> QED  BY <1>1, Serving, PTL

(* app.go:131: for any number of requests, however long they last, the pool *)
(* is closed under one only after Shutdown gave up or the listener broke.   *)
THEOREM PoolOutlives == Spec => []PoolOutlivesRequests
  BY InvOutlives, Serving, PTL

(* app.go:112-120: with any readiness delay longer than the balancer's      *)
(* period, no request it sends meets a listener that Shutdown closed.       *)
THEOREM DrainFirst == Spec => []DrainedBeforeRefusing
<1>1. LifecycleInv => DrainedBeforeRefusing  BY DEF LifecycleInv
<1> QED  BY <1>1, InitInv, StepInv, PTL DEF Spec
=============================================================================
