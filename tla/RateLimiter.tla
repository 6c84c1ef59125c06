----------------------------- MODULE RateLimiter -----------------------------
(***************************************************************************)
(* The sliding window rate limiter of pkg/httpmiddleware/ratelimit.go.     *)
(*                                                                         *)
(* Every request is served by a goroutine of its own.  It reads the clock, *)
(* waits for the mutex and then decides in one critical section, so that   *)
(* requests may decide in another order than that of the times they read.  *)
(* A background goroutine evicts old entries on every second window.       *)
(*                                                                         *)
(* Time is counted in ticks from a multiple of the window, the zero time   *)
(* of time.Truncate.  The float64 counts of the code are compared here as  *)
(* integers, multiplied by the window: no rounding.                        *)
(***************************************************************************)
EXTENDS Integers, Functions

CONSTANTS
    Clients,    \* what KeyFunc makes of requests
    Handlers,   \* the goroutines that serve requests at one time
    Max,        \* RateLimitConfig.Max
    Window,     \* RateLimitConfig.Window
    NoEntry,    \* no entry in the map
    NoRequest,  \* the goroutine serves nobody
    MaxClock,   \* bound: the clock
    MaxLag      \* bound: how long a goroutine that can run may be kept waiting

ASSUME LimiterAssumption ==
    /\ Max \in Nat
    /\ Window \in Nat \ {0}
    /\ MaxClock \in Nat
    /\ Window <= MaxClock
    /\ MaxLag \in Nat
    /\ MaxLag < Window
    /\ NoEntry \notin [prevCount : Nat, prevStart : Nat, currCount : Nat, currStart : Nat]
    /\ NoRequest \notin [key : Clients, now : Nat]

VARIABLES
    clock,      \* time.Now
    entries,    \* rl.entries: client -> entry
    serving,    \* the request of a goroutine and the time it read
    due,        \* when the ticker of the cleanup goroutine fires next
    admitted    \* history: how many requests of a client were let through at a time

vars == <<clock, entries, serving, due, admitted>>

-----------------------------------------------------------------------------
(* allow *)

Truncate(now) == now - (now % Window)

\* The entry allow works on: the one in the map or a new one, whose window
\* starts now.
Found(k, now) ==
    IF entries[k] = NoEntry
    THEN [prevCount |-> 0, prevStart |-> 0, currCount |-> 0, currStart |-> now]
    ELSE entries[k]

\* Mutant: the stale previous window is not zeroed.
RotatedKeepingStale(e, now) ==
    IF now - e.currStart >= Window
    THEN [prevCount |-> e.currCount, prevStart |-> e.currStart,
          currCount |-> 0, currStart |-> Truncate(now)]
    ELSE e

\* When the current window is over it becomes the previous one, unless it is
\* over for a whole window already.
Rotated(e, now) ==
    IF now - e.currStart >= Window
    THEN [prevCount |-> IF now - e.currStart >= 2 * Window THEN 0 ELSE e.currCount,
          prevStart |-> e.currStart,
          currCount |-> 0,
          currStart |-> Truncate(now)]
    ELSE e

\* How much of the previous window the sliding window overlaps, times Window.
\* More than all of it, when now is before the start of the current window.
Overlap(e, now) ==
    LET elapsed == now - e.currStart
    IN  IF elapsed > Window THEN 0 ELSE Window - elapsed

\* effectiveCount, times Window.
Effective(e, now) == e.prevCount * Overlap(e, now) + e.currCount * Window

\* Mutant: one request too many.
AdmitsOneMore(e, now) == Effective(e, now) <= Max * Window

Admits(e, now) == Effective(e, now) < Max * Window

Counted(e) == [e EXCEPT !.currCount = @ + 1]

-----------------------------------------------------------------------------
Init ==
    /\ clock \in 0..(Window - 1)
    /\ entries = [k \in Clients |-> NoEntry]
    /\ serving = [h \in Handlers |-> NoRequest]
    /\ due = clock + 2 * Window
    /\ admitted = [k \in Clients |-> [t \in 0..MaxClock |-> 0]]

\* A request comes in; its goroutine reads the clock.
Arrive(h, k) ==
    /\ serving[h] = NoRequest
    /\ serving' = [serving EXCEPT ![h] = [key |-> k, now |-> clock]]
    /\ UNCHANGED <<clock, entries, due, admitted>>

\* allow, under the mutex.
Allow(h) ==
    /\ serving[h] # NoRequest
    /\ LET k == serving[h].key
           now == serving[h].now
           e == Rotated(Found(k, now), now)
       IN  \/ /\ Admits(e, now)
              /\ entries' = [entries EXCEPT ![k] = Counted(e)]
              /\ admitted' = [admitted EXCEPT ![k][now] = @ + 1]
           \/ /\ ~Admits(e, now)
              /\ entries' = [entries EXCEPT ![k] = e]
              /\ UNCHANGED admitted
    /\ serving' = [serving EXCEPT ![h] = NoRequest]
    /\ UNCHANGED <<clock, due>>

\* Mutant: an entry is evicted after one window.
ExpiredEarly(e, now) == e # NoEntry /\ now - e.currStart >= Window

\* Mutant: an entry that counts requests is never evicted.
ExpiredIfUnused(e, now) == e # NoEntry /\ now - e.currStart >= 2 * Window /\ e.currCount = 0

Expired(e, now) == e # NoEntry /\ now - e.currStart >= 2 * Window

\* The cleanup goroutine receives a tick, late perhaps, and evicts by the time
\* of the tick.  Ticks it misses are dropped.
Cleanup ==
    /\ clock >= due
    /\ entries' = [k \in Clients |-> IF Expired(entries[k], due) THEN NoEntry ELSE entries[k]]
    /\ due' = due + 2 * Window * ((clock - due) \div (2 * Window) + 1)
    /\ UNCHANGED <<clock, serving, admitted>>

\* A goroutine that can run is not kept waiting for longer than MaxLag.
Tick ==
    /\ clock < MaxClock
    /\ clock - due < MaxLag
    /\ \A h \in Handlers : serving[h] # NoRequest => clock - serving[h].now < MaxLag
    /\ clock' = clock + 1
    /\ UNCHANGED <<entries, serving, due, admitted>>

Next ==
    \/ \E h \in Handlers, k \in Clients : Arrive(h, k)
    \/ \E h \in Handlers : Allow(h)
    \/ Cleanup
    \/ Tick

Spec == Init /\ [][Next]_vars

-----------------------------------------------------------------------------
(* Properties. *)

\* What the variables range over; no window is ever charged with more than Max
\* requests, in whatever order the goroutines get the mutex (ratelimit.go:87-91).
TypeOK ==
    /\ clock \in Nat
    /\ entries \in [Clients -> [prevCount : 0..Max, prevStart : Nat,
                                currCount : 0..Max, currStart : Nat] \cup {NoEntry}]
    /\ serving \in [Handlers -> [key : Clients, now : Nat] \cup {NoRequest}]
    /\ due \in Nat
    /\ admitted \in [Clients -> [0..MaxClock -> Nat]]

\* The requests of k let through that read the clock from time a to time b.
Passed(k, a, b) == FoldFunctionOnSet(+, 0, admitted[k], {t \in 0..MaxClock : a <= t /\ t <= b})

\* In the window X-RateLimit-Reset tells of, fewer than twice Max requests pass:
\* the first window of a client starts with its first request and may overlap the
\* second, which starts at a multiple of the window (ratelimit.go:61, 70).
WindowBound ==
    \A k \in Clients :
        entries[k] # NoEntry =>
            Passed(k, entries[k].currStart, entries[k].currStart + Window - 1) < 2 * Max

\* How long before the current window began the request read the clock.
Late(e, now) == IF now < e.currStart THEN e.currStart - now ELSE 0

\* A step that answers the request h serves lets it through, or enough requests
\* of its client were let through in the last three windows: Max, or, if it is
\* late, as many as make up Max when they count for Window + Late instead of
\* Window.
Earned(h) ==
    serving[h] # NoRequest =>
        LET k == serving[h].key
            now == serving[h].now
            late == Late(entries'[k], now)
        IN  \/ serving'[h] = serving[h]
            \/ admitted' # admitted
            \/ /\ late <= MaxLag
               /\ Passed(k, now - 3 * Window - MaxLag, clock) * (Window + late) >= Max * Window

\* A request is refused only if Max requests of its client were let through in
\* the last three windows.  One that read the clock before the current window
\* began, which the previous window weighs on with more than all of it
\* (ratelimit.go:79-84), may be refused after fewer, but after more than half of
\* Max, since it is late by less than a window.
RefusalEarned == [][\A h \in Handlers : Earned(h)]_vars

\* The entry of a client that stays away is evicted within four windows, so the
\* map holds recent clients only (ratelimit.go:102-128).
StaleEntriesGo ==
    \A k \in Clients :
        entries[k] # NoEntry => clock - entries[k].currStart < 4 * Window + MaxLag

-----------------------------------------------------------------------------
(* What the code says of itself; it does otherwise. *)

\* "Max is the maximum number of requests allowed per window" (ratelimit.go:17).
WindowRespected ==
    \A k \in Clients :
        entries[k] # NoEntry =>
            Passed(k, entries[k].currStart, entries[k].currStart + Window - 1) <= Max
=============================================================================
