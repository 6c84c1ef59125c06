------------------------------- MODULE Health -------------------------------
(***************************************************************************)
(* Liveness and readiness probes: pkg/health/health.go.                    *)
(*                                                                         *)
(* Start gives every registered check a goroutine (a runner) that runs it  *)
(* now and on every tick.  A run has three steps others can come between:  *)
(* the check returns, its error is stored, the counters and the flag are   *)
(* updated.  /livez and /readyz load one flag after the other.             *)
(*                                                                         *)
(* The two counters of a check are plain ints of its only runner, as the   *)
(* code has it (health.go:25-28); they are counted up to their threshold.  *)
(***************************************************************************)
EXTENDS Integers, FiniteSets

CONSTANTS
    Liveness,           \* names of the liveness checks
    Readiness,          \* names of the readiness checks
    Starts,             \* the calls of Start
    Requests,           \* the goroutines that serve /livez and /readyz
    failureThreshold,
    successThreshold,
    NoCancel            \* h.cancel is nil

Checks == Liveness \cup Readiness

ASSUME HealthAssumption ==
    /\ failureThreshold \in Nat \ {0}
    /\ successThreshold \in Nat \ {0}
    /\ NoCancel \notin Starts
    /\ Liveness \cap Readiness = {}

VARIABLES
    registered,     \* the checks added so far
    ready,          \* h.ready
    cancel,         \* h.cancel: whose context Stop cancels
    called,         \* the calls of Start that were made
    done,           \* the calls of Start whose context is cancelled
    runner,         \* what the runner of a check does, per call of Start
    failed,         \* whether the check it ran returned an error
    lastErr,        \* whether c.lastErr holds an error
    fails,          \* c.consecutiveFails
    oks,            \* c.consecutiveOK
    healthy,        \* c.healthy
    up,             \* whether the checked component works
    endpoint,       \* what a request asks for, "none" between requests
    left,           \* the flags it has not loaded yet
    failures,       \* the failures it has collected
    streak          \* history: failures returned since the last success

checkState == <<lastErr, fails, oks, healthy, streak>>
requestState == <<endpoint, left, failures>>
vars == <<registered, ready, cancel, called, done, runner, failed, checkState, up, requestState>>

-----------------------------------------------------------------------------
Init ==
    /\ registered = {}
    /\ ready = FALSE
    /\ cancel = NoCancel
    /\ called = {}
    /\ done = {}
    /\ runner = [s \in Starts |-> [c \in Checks |-> "off"]]
    /\ failed = [s \in Starts |-> [c \in Checks |-> FALSE]]
    /\ lastErr = [c \in Checks |-> FALSE]
    /\ fails = [c \in Checks |-> 0]
    /\ oks = [c \in Checks |-> 0]
    /\ healthy = [c \in Checks |-> TRUE]
    /\ streak = [c \in Checks |-> 0]
    /\ up \in [Checks -> BOOLEAN]
    /\ endpoint = [r \in Requests |-> "none"]
    /\ left = [r \in Requests |-> {}]
    /\ failures = [r \in Requests |-> {}]

\* AddLivenessCheck and AddReadinessCheck.
AddCheck(c) ==
    /\ c \notin registered
    /\ registered' = registered \cup {c}
    /\ UNCHANGED <<ready, cancel, called, done, runner, failed, checkState, up, requestState>>

\* A check that is added later is not run.
Start(s) ==
    /\ s \notin called
    /\ called' = called \cup {s}
    /\ cancel' = s
    /\ runner' = [runner EXCEPT ![s] = [c \in Checks |-> IF c \in registered THEN "run" ELSE "off"]]
    /\ UNCHANGED <<registered, ready, done, failed, checkState, up, requestState>>

SetReady(b) ==
    /\ ready' = b
    /\ UNCHANGED <<registered, cancel, called, done, runner, failed, checkState, up, requestState>>

\* Mutant: h.cancel is called without a test for nil.
StopUnguarded ==
    /\ done' = done \cup {cancel}
    /\ cancel' = NoCancel
    /\ UNCHANGED <<registered, ready, called, runner, failed, checkState, up, requestState>>

Stop ==
    /\ cancel # NoCancel
    /\ done' = done \cup {cancel}
    /\ cancel' = NoCancel
    /\ UNCHANGED <<registered, ready, called, runner, failed, checkState, up, requestState>>

\* The context the application gave to Start is cancelled.
Shutdown ==
    /\ called # {}
    /\ done' = called
    /\ done # called
    /\ UNCHANGED <<registered, ready, cancel, called, runner, failed, checkState, up, requestState>>

-----------------------------------------------------------------------------
(* The runner of check c started by call s. *)

Goto(s, c, label) == runner' = [runner EXCEPT ![s][c] = label]

Saturated(n, limit) == IF n < limit THEN n + 1 ELSE limit

\* The check returns, by its timeout at the latest; with its context cancelled
\* it may fail though the component works.
Return(s, c) ==
    /\ runner[s][c] = "run"
    /\ \E f \in BOOLEAN :
          /\ f # up[c] \/ s \in done
          /\ failed' = [failed EXCEPT ![s][c] = f]
          /\ streak' = [streak EXCEPT ![c] = IF f THEN Saturated(@, failureThreshold) ELSE 0]
    /\ Goto(s, c, "store")
    /\ UNCHANGED <<registered, ready, cancel, called, done, lastErr, fails, oks, healthy, up, requestState>>

StoreError(s, c) ==
    /\ runner[s][c] = "store"
    /\ lastErr' = [lastErr EXCEPT ![c] = failed[s][c]]
    /\ Goto(s, c, "count")
    /\ UNCHANGED <<registered, ready, cancel, called, done, failed, fails, oks, healthy, streak, up, requestState>>

\* Mutant: a success does not reset the failures.
CountCumulative(s, c) ==
    /\ runner[s][c] = "count"
    /\ \/ /\ failed[s][c]
          /\ fails' = [fails EXCEPT ![c] = Saturated(@, failureThreshold)]
          /\ oks' = [oks EXCEPT ![c] = 0]
          /\ healthy' = [healthy EXCEPT ![c] = @ /\ fails'[c] < failureThreshold]
       \/ /\ ~failed[s][c]
          /\ oks' = [oks EXCEPT ![c] = Saturated(@, successThreshold)]
          /\ healthy' = [healthy EXCEPT ![c] = @ \/ oks'[c] >= successThreshold]
          /\ UNCHANGED fails
    /\ Goto(s, c, "wait")
    /\ UNCHANGED <<registered, ready, cancel, called, done, failed, lastErr, streak, up, requestState>>

\* Mutant: a check that is unhealthy stays so.
CountWithoutRecovery(s, c) ==
    /\ runner[s][c] = "count"
    /\ fails' = [fails EXCEPT ![c] = IF failed[s][c] THEN Saturated(@, failureThreshold) ELSE 0]
    /\ oks' = [oks EXCEPT ![c] = IF failed[s][c] THEN 0 ELSE Saturated(@, successThreshold)]
    /\ healthy' = [healthy EXCEPT ![c] = @ /\ fails'[c] < failureThreshold]
    /\ Goto(s, c, "wait")
    /\ UNCHANGED <<registered, ready, cancel, called, done, failed, lastErr, streak, up, requestState>>

\* Mutant: a check is marked unhealthy while its failures are fewer than the threshold.
CountBackwards(s, c) ==
    /\ runner[s][c] = "count"
    /\ fails' = [fails EXCEPT ![c] = IF failed[s][c] THEN Saturated(@, failureThreshold) ELSE 0]
    /\ oks' = [oks EXCEPT ![c] = IF failed[s][c] THEN 0 ELSE Saturated(@, successThreshold)]
    /\ healthy' = [healthy EXCEPT ![c] = ~failed[s][c] \/ fails'[c] >= failureThreshold]
    /\ Goto(s, c, "wait")
    /\ UNCHANGED <<registered, ready, cancel, called, done, failed, lastErr, streak, up, requestState>>

\* The rest of run: the counters, and the flag at a threshold.
Count(s, c) ==
    /\ runner[s][c] = "count"
    /\ \/ /\ failed[s][c]
          /\ oks' = [oks EXCEPT ![c] = 0]
          /\ fails' = [fails EXCEPT ![c] = Saturated(@, failureThreshold)]
          /\ healthy' = [healthy EXCEPT ![c] = @ /\ fails'[c] < failureThreshold]
       \/ /\ ~failed[s][c]
          /\ fails' = [fails EXCEPT ![c] = 0]
          /\ oks' = [oks EXCEPT ![c] = Saturated(@, successThreshold)]
          /\ healthy' = [healthy EXCEPT ![c] = @ \/ oks'[c] >= successThreshold]
    /\ Goto(s, c, "wait")
    /\ UNCHANGED <<registered, ready, cancel, called, done, failed, lastErr, streak, up, requestState>>

\* select takes the tick, also when the context is cancelled as well...
TakeTick(s, c) ==
    /\ runner[s][c] = "wait"
    /\ Goto(s, c, "run")
    /\ UNCHANGED <<registered, ready, cancel, called, done, failed, checkState, up, requestState>>

\* Mutant: the context is looked at after a failure only.
ExitOnFailure(s, c) ==
    /\ runner[s][c] = "wait"
    /\ s \in done
    /\ failed[s][c]
    /\ Goto(s, c, "off")
    /\ UNCHANGED <<registered, ready, cancel, called, done, failed, checkState, up, requestState>>

\* ... or ctx.Done.
Exit(s, c) ==
    /\ runner[s][c] = "wait"
    /\ s \in done
    /\ Goto(s, c, "off")
    /\ UNCHANGED <<registered, ready, cancel, called, done, failed, checkState, up, requestState>>

-----------------------------------------------------------------------------
(* A request to /livez or /readyz. *)

\* Mutant: the flag of SetReady is not looked at.
AskIgnoringReady(r, e) ==
    /\ endpoint[r] = "none"
    /\ endpoint' = [endpoint EXCEPT ![r] = e]
    /\ left' = [left EXCEPT ![r] = registered \cap (IF e = "livez" THEN Liveness ELSE Readiness)]
    /\ failures' = [failures EXCEPT ![r] = {}]
    /\ UNCHANGED <<registered, ready, cancel, called, done, runner, failed, checkState, up>>

\* /readyz loads the flag of SetReady first; both take a copy of their checks.
Ask(r, e) ==
    /\ endpoint[r] = "none"
    /\ endpoint' = [endpoint EXCEPT ![r] = e]
    /\ left' = [left EXCEPT ![r] = registered \cap (IF e = "livez" THEN Liveness ELSE Readiness)]
    /\ failures' = [failures EXCEPT ![r] = IF e = "readyz" /\ ~ready THEN {"_readiness"} ELSE {}]
    /\ UNCHANGED <<registered, ready, cancel, called, done, runner, failed, checkState, up>>

LoadFlag(r, c) ==
    /\ c \in left[r]
    /\ left' = [left EXCEPT ![r] = @ \ {c}]
    /\ failures' = [failures EXCEPT ![r] = IF healthy[c] THEN @ ELSE @ \cup {c}]
    /\ UNCHANGED <<registered, ready, cancel, called, done, runner, failed, checkState, up, endpoint>>

\* 200 without failures, 503 with the list of them.
Respond(r, status) ==
    /\ endpoint[r] # "none"
    /\ left[r] = {}
    /\ status = IF failures[r] = {} THEN 200 ELSE 503
    /\ endpoint' = [endpoint EXCEPT ![r] = "none"]
    /\ failures' = [failures EXCEPT ![r] = {}]
    /\ UNCHANGED <<registered, ready, cancel, called, done, runner, failed, checkState, up, left>>

\* The component breaks or is repaired.
Turn(c) ==
    /\ up' = [up EXCEPT ![c] = ~@]
    /\ UNCHANGED <<registered, ready, cancel, called, done, runner, failed, checkState, requestState>>

-----------------------------------------------------------------------------
Run(s, c) == Return(s, c) \/ StoreError(s, c) \/ Count(s, c) \/ TakeTick(s, c)

Next ==
    \/ \E c \in Checks : AddCheck(c) \/ Turn(c)
    \/ \E s \in Starts : Start(s)
    \/ \E b \in BOOLEAN : SetReady(b)
    \/ Stop
    \/ Shutdown
    \/ \E s \in Starts, c \in Checks : Run(s, c) \/ Exit(s, c)
    \/ \E r \in Requests, e \in {"livez", "readyz"} : Ask(r, e)
    \/ \E r \in Requests, c \in Checks : LoadFlag(r, c)
    \/ \E r \in Requests, status \in {200, 503} : Respond(r, status)

Spec == Init /\ [][Next]_vars

\* Runners are scheduled, tickers fire, checks return at their timeout; a
\* select that is offered both does not take the tick forever.
FairSpec ==
    /\ Spec
    /\ \A s \in Starts, c \in Checks : WF_vars(Run(s, c)) /\ SF_vars(Exit(s, c))

-----------------------------------------------------------------------------
(* Properties. *)

\* What the variables range over.
TypeOK ==
    /\ registered \subseteq Checks
    /\ ready \in BOOLEAN
    /\ cancel \in Starts \cup {NoCancel}
    /\ called \subseteq Starts
    /\ done \subseteq called
    /\ runner \in [Starts -> [Checks -> {"off", "run", "store", "count", "wait"}]]
    /\ failed \in [Starts -> [Checks -> BOOLEAN]]
    /\ lastErr \in [Checks -> BOOLEAN]
    /\ fails \in [Checks -> 0..failureThreshold]
    /\ oks \in [Checks -> 0..successThreshold]
    /\ healthy \in [Checks -> BOOLEAN]
    /\ streak \in [Checks -> 0..failureThreshold]
    /\ up \in [Checks -> BOOLEAN]
    /\ endpoint \in [Requests -> {"none", "livez", "readyz"}]
    /\ left \in [Requests -> SUBSET Checks]
    /\ failures \in [Requests -> SUBSET (Checks \cup {"_readiness"})]

\* No run of c is under way.
Quiet(c) == \A s \in Starts : runner[s][c] \in {"off", "run", "wait"}

\* Between two runs, a check is reported unhealthy exactly if its last results,
\* failureThreshold of them at least, were failures, and then with an error to
\* show (package comment, health.go:63-83).  successThreshold is 1 in the code.
FlagFollowsResults ==
    successThreshold = 1 =>
        \A c \in Checks : Quiet(c) => /\ healthy[c] <=> streak[c] < failureThreshold
                                      /\ ~healthy[c] => lastErr[c]

\* A check that is broken for good ends in /readyz answering 503, as long as its
\* runner is not stopped (health.go:238-251).
FailureReported ==
    \A c \in Readiness, s \in Starts :
        <>[](~up[c] /\ runner[s][c] # "off") =>
            <>[][\A r \in Requests : endpoint[r] = "readyz" => ~Respond(r, 200)]_vars

\* A check that works for good is not reported any more.
RecoveryReported ==
    \A c \in Checks, s \in Starts :
        <>[](up[c] /\ s \in called \ done /\ runner[s][c] # "off") => <>[]healthy[c]

\* Once SetReady(false) stays, /readyz ends up answering 503 only: draining is seen.
DrainSeen ==
    <>[]~ready => <>[][\A r \in Requests : endpoint[r] = "readyz" => ~Respond(r, 200)]_vars

\* A runner whose context is cancelled ends.
RunnersEnd == \A s \in Starts, c \in Checks : s \in done ~> runner[s][c] = "off"

-----------------------------------------------------------------------------
(* What the code says of itself; it does otherwise. *)

\* "Calling Start multiple times without calling Stop first is a no-op for
\* already-running checks" (health.go:141): no check has two runners.
OneRunnerPerCheck ==
    \A c \in Checks : Cardinality({s \in Starts : runner[s][c] # "off"}) <= 1
=============================================================================
