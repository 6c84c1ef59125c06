---------------------------- MODULE HealthProofs ----------------------------
(***************************************************************************)
(* Proofs about Health, for any checks, requests and thresholds.           *)
(***************************************************************************)
EXTENDS Health, TLAPS

Labels == {"off", "run", "store", "count", "wait"}

LEMMA SaturatedType ==
    ASSUME NEW limit \in Nat \ {0}, NEW n \in 0..limit
    PROVE  Saturated(n, limit) \in 0..limit
  BY DEF Saturated

(* Types: the runners, what they count, and the rest.                      *)

RunnerTypes ==
    /\ registered \subseteq Checks
    /\ cancel \in called \cup {NoCancel}
    /\ called \subseteq Starts
    /\ done \subseteq called
    /\ runner \in [Starts -> [Checks -> Labels]]

\* Goto moves one runner.
LEMMA GotoType ==
    ASSUME RunnerTypes, NEW s \in Starts, NEW c \in Checks, NEW label \in Labels,
           Goto(s, c, label)
    PROVE  /\ runner' \in [Starts -> [Checks -> Labels]]
           /\ runner'[s][c] = label
           /\ \A t \in Starts, d \in Checks :
                 t # s \/ d # c => runner'[t][d] = runner[t][d]
<1>1. runner[s] \in [Checks -> Labels]
  BY DEF RunnerTypes
<1>2. runner' = [runner EXCEPT ![s] = [runner[s] EXCEPT ![c] = label]]
  BY DEF Goto
<1>3. [runner[s] EXCEPT ![c] = label] \in [Checks -> Labels]
  BY <1>1
<1> HIDE DEF Goto
<1> QED
  BY <1>1, <1>2, <1>3 DEF RunnerTypes

LEMMA StepRunnerTypes == RunnerTypes /\ [Next]_vars => RunnerTypes'
<1> SUFFICES ASSUME RunnerTypes, [Next]_vars PROVE RunnerTypes'
  OBVIOUS
<1>1. ASSUME NEW s \in Starts, NEW c \in Checks, Run(s, c) \/ Exit(s, c)
      PROVE  RunnerTypes'
  <2>1. /\ UNCHANGED <<registered, cancel, called, done>>
        /\ \E label \in Labels : Goto(s, c, label)
    BY <1>1 DEF Run, Return, StoreError, Count, TakeTick, Exit, Labels
  <2> QED
    BY <2>1, GotoType DEF RunnerTypes
<1>2. ASSUME NEW s \in Starts, Start(s)
      PROVE  RunnerTypes'
  <2> DEFINE row == [c \in Checks |-> IF c \in registered THEN "run" ELSE "off"]
  <2>1. row \in [Checks -> Labels]
    BY DEF Labels
  <2>2. /\ runner' = [runner EXCEPT ![s] = row]
        /\ cancel' = s /\ called' = called \cup {s}
        /\ UNCHANGED <<registered, done>>
    BY <1>2 DEF Start
  <2> HIDE DEF row
  <2> QED
    BY <2>1, <2>2 DEF RunnerTypes
<1>3. CASE Stop
  BY <1>3 DEF Stop, RunnerTypes
<1>6. CASE Shutdown
  BY <1>6 DEF Shutdown, RunnerTypes
<1>4. ASSUME NEW c \in Checks, AddCheck(c)
      PROVE  RunnerTypes'
  BY <1>4 DEF AddCheck, RunnerTypes
<1>5. CASE UNCHANGED <<registered, cancel, called, done, runner>>
  BY <1>5 DEF RunnerTypes
<1> QED
  BY <1>1, <1>2, <1>3, <1>4, <1>5, <1>6
  DEF Next, vars, Turn, SetReady, Ask, LoadFlag, Respond

CountTypes ==
    /\ fails \in [Checks -> 0..failureThreshold]
    /\ oks \in [Checks -> 0..successThreshold]
    /\ streak \in [Checks -> 0..failureThreshold]

FlagTypes ==
    /\ ready \in BOOLEAN
    /\ failed \in [Starts -> [Checks -> BOOLEAN]]
    /\ lastErr \in [Checks -> BOOLEAN]
    /\ healthy \in [Checks -> BOOLEAN]
    /\ up \in [Checks -> BOOLEAN]

RequestTypes ==
    /\ endpoint \in [Requests -> {"none", "livez", "readyz"}]
    /\ left \in [Requests -> SUBSET Checks]
    /\ failures \in [Requests -> SUBSET (Checks \cup {"_readiness"})]

LEMMA StepCountTypes == CountTypes /\ [Next]_vars => CountTypes'
<1> SUFFICES ASSUME CountTypes, [Next]_vars PROVE CountTypes'
  OBVIOUS
<1>1. failureThreshold \in Nat \ {0} /\ successThreshold \in Nat \ {0}
  BY HealthAssumption
<1>2. ASSUME NEW s \in Starts, NEW c \in Checks, Return(s, c)
      PROVE  CountTypes'
  <2>1. PICK f \in BOOLEAN :
            streak' = [streak EXCEPT ![c] = IF f THEN Saturated(@, failureThreshold) ELSE 0]
    BY <1>2 DEF Return
  <2>2. Saturated(streak[c], failureThreshold) \in 0..failureThreshold /\ 0 \in 0..failureThreshold
    BY <1>1, SaturatedType DEF CountTypes
  <2> QED
    BY <1>2, <2>1, <2>2 DEF Return, CountTypes
<1>3. ASSUME NEW s \in Starts, NEW c \in Checks, Count(s, c)
      PROVE  CountTypes'
  <2>1. /\ Saturated(fails[c], failureThreshold) \in 0..failureThreshold
        /\ Saturated(oks[c], successThreshold) \in 0..successThreshold
        /\ 0 \in 0..failureThreshold /\ 0 \in 0..successThreshold
    BY <1>1, SaturatedType DEF CountTypes
  <2>2. /\ streak' = streak
        /\ \/ /\ oks' = [oks EXCEPT ![c] = 0]
              /\ fails' = [fails EXCEPT ![c] = Saturated(fails[c], failureThreshold)]
           \/ /\ oks' = [oks EXCEPT ![c] = Saturated(oks[c], successThreshold)]
              /\ fails' = [fails EXCEPT ![c] = 0]
    BY <1>3 DEF Count
  <2> QED
    BY <2>1, <2>2 DEF CountTypes
<1>4. CASE UNCHANGED <<fails, oks, streak>>
  BY <1>4 DEF CountTypes
<1> QED
  BY <1>2, <1>3, <1>4
  DEF Next, Run, vars, checkState, AddCheck, Turn, Start, SetReady, Stop, Shutdown,
      StoreError, TakeTick, Exit, Ask, LoadFlag, Respond

LEMMA StepFlagTypes == FlagTypes /\ [Next]_vars => FlagTypes'
<1> SUFFICES ASSUME FlagTypes, [Next]_vars PROVE FlagTypes'
  OBVIOUS
<1>1. ASSUME NEW s \in Starts, NEW c \in Checks, Return(s, c)
      PROVE  FlagTypes'
  <2>1. PICK f \in BOOLEAN : failed' = [failed EXCEPT ![s] = [failed[s] EXCEPT ![c] = f]]
    BY <1>1 DEF Return
  <2>2. [failed[s] EXCEPT ![c] = f] \in [Checks -> BOOLEAN]
    BY Zenon DEF FlagTypes
  <2> QED
    BY <1>1, <2>1, <2>2, Zenon DEF Return, FlagTypes
<1>2. ASSUME NEW s \in Starts, NEW c \in Checks, StoreError(s, c)
      PROVE  FlagTypes'
  <2>1. failed[s][c] \in BOOLEAN
    BY Zenon DEF FlagTypes
  <2> QED
    BY <1>2, <2>1, Zenon DEF StoreError, FlagTypes
<1>3. ASSUME NEW s \in Starts, NEW c \in Checks, Count(s, c)
      PROVE  FlagTypes'
  <2>1. UNCHANGED <<ready, failed, lastErr, up>>
    BY <1>3 DEF Count
  <2>2. healthy' \in [Checks -> BOOLEAN]
    BY <1>3, Zenon DEF Count, FlagTypes
  <2> QED
    BY <2>1, <2>2, Zenon DEF FlagTypes
<1>4. ASSUME NEW c \in Checks, Turn(c)
      PROVE  FlagTypes'
  BY <1>4, Zenon DEF Turn, FlagTypes, checkState
<1>5. ASSUME NEW b \in BOOLEAN, SetReady(b)
      PROVE  FlagTypes'
  BY <1>5, Zenon DEF SetReady, FlagTypes, checkState
<1>6. CASE UNCHANGED <<ready, failed, lastErr, healthy, up>>
  BY <1>6, Zenon DEF FlagTypes
<1> QED
  BY <1>1, <1>2, <1>3, <1>4, <1>5, <1>6
  DEF Next, Run, vars, checkState, AddCheck, Start, Stop, Shutdown,
      TakeTick, Exit, Ask, LoadFlag, Respond

LEMMA StepRequestTypes == RunnerTypes /\ RequestTypes /\ [Next]_vars => RequestTypes'
<1> SUFFICES ASSUME RunnerTypes, RequestTypes, [Next]_vars PROVE RequestTypes'
  OBVIOUS
<1>1. ASSUME NEW r \in Requests, NEW e \in {"livez", "readyz"}, Ask(r, e)
      PROVE  RequestTypes'
  BY <1>1 DEF Ask, RequestTypes, RunnerTypes
<1>2. ASSUME NEW r \in Requests, NEW c \in Checks, LoadFlag(r, c)
      PROVE  RequestTypes'
  <2>1. /\ endpoint' = endpoint
        /\ left' = [left EXCEPT ![r] = left[r] \ {c}]
        /\ failures' = [failures EXCEPT ![r] = failures[r]]
             \/ failures' = [failures EXCEPT ![r] = failures[r] \cup {c}]
    BY <1>2, Zenon DEF LoadFlag
  <2> QED
    BY <2>1 DEF RequestTypes
<1>3. ASSUME NEW r \in Requests, NEW status, Respond(r, status)
      PROVE  RequestTypes'
  BY <1>3 DEF Respond, RequestTypes
<1>4. CASE UNCHANGED requestState
  BY <1>4 DEF RequestTypes, requestState
<1> QED
  BY <1>1, <1>2, <1>3, <1>4
  DEF Next, Run, vars, AddCheck, Turn, Start, SetReady, Stop, Shutdown,
      Return, StoreError, Count, TakeTick, Exit

Types == RunnerTypes /\ CountTypes /\ FlagTypes /\ RequestTypes

LEMMA TypesAreTypeOK == Types => TypeOK
BY DEF Types, RunnerTypes, CountTypes, FlagTypes, RequestTypes, TypeOK, Labels

LEMMA InitTypes == Init => Types
<1> SUFFICES ASSUME Init PROVE Types
  OBVIOUS
<1>1. RunnerTypes /\ RequestTypes
  BY DEF Init, RunnerTypes, RequestTypes, Labels
<1>2. CountTypes
  BY HealthAssumption DEF Init, CountTypes
<1>3. FlagTypes
  BY Zenon DEF Init, FlagTypes
<1> QED
  BY <1>1, <1>2, <1>3 DEF Types

LEMMA StepTypes == Types /\ [Next]_vars => Types'
BY StepRunnerTypes, StepCountTypes, StepFlagTypes, StepRequestTypes DEF Types

\* The counters never leave 0 to their threshold, the flags and the requests
\* keep their types, however many runners a check has.
THEOREM TypeCorrect == Spec => []TypeOK
BY InitTypes, StepTypes, TypesAreTypeOK, PTL DEF Spec

-----------------------------------------------------------------------------
(* Flags.  One call of Start gives each check one runner, which alone      *)
(* writes its counters.                                                    *)

OneStart == \A s, t \in Starts : s = t

\* A runner that was never started does nothing.
Uncalled == \A s \in Starts \ called, c \in Checks : runner[s][c] = "off"

\* The flag follows the counter, and between two runs the counter holds the
\* failures in a row; during a run it lags behind by the result that came last.
Follows(c) ==
    /\ healthy[c] <=> fails[c] < failureThreshold
    /\ Quiet(c) => streak[c] = fails[c] /\ (healthy[c] \/ lastErr[c])
    /\ \A s \in Starts :
          /\ runner[s][c] \in {"store", "count"} =>
                streak[c] = IF failed[s][c] THEN Saturated(fails[c], failureThreshold) ELSE 0
          /\ runner[s][c] = "count" => (lastErr[c] <=> failed[s][c])

FlagInv == Types /\ Uncalled /\ \A c \in Checks : Follows(c)

LEMMA StepUncalled == RunnerTypes /\ Uncalled /\ [Next]_vars => Uncalled'
<1> SUFFICES ASSUME RunnerTypes, Uncalled, [Next]_vars,
                    NEW t \in Starts \ called', NEW d \in Checks
             PROVE  runner'[t][d] = "off"
  BY DEF Uncalled
<1>1. ASSUME NEW s \in Starts, NEW c \in Checks, Run(s, c) \/ Exit(s, c)
      PROVE  runner'[t][d] = "off"
  <2>1. called' = called /\ runner[s][c] # "off" /\ \E label \in Labels : Goto(s, c, label)
    BY <1>1 DEF Run, Return, StoreError, Count, TakeTick, Exit, Labels
  <2>2. t # s \/ d # c
    BY <2>1 DEF Uncalled
  <2>3. runner'[t][d] = runner[t][d]
    BY <2>1, <2>2, GotoType
  <2> QED
    BY <2>1, <2>3 DEF Uncalled
<1>2. ASSUME NEW s \in Starts, Start(s)
      PROVE  runner'[t][d] = "off"
  <2>1. t # s /\ t \notin called
    BY <1>2 DEF Start
  <2>2. runner'[t] = runner[t]
    BY <1>2, <2>1 DEF Start, RunnerTypes
  <2> QED
    BY <2>1, <2>2 DEF Uncalled
<1>3. CASE UNCHANGED <<called, runner>>
  BY <1>3 DEF Uncalled
<1> QED
  BY <1>1, <1>2, <1>3
  DEF Next, vars, AddCheck, Turn, SetReady, Stop, Shutdown, Ask, LoadFlag, Respond

\* The runner of another check, or none, moves.
LEMMA OthersFollow ==
    ASSUME NEW d \in Checks, Follows(d),
           healthy'[d] = healthy[d], fails'[d] = fails[d], streak'[d] = streak[d],
           lastErr'[d] = lastErr[d],
           \A s \in Starts : runner'[s][d] = runner[s][d] /\ failed'[s][d] = failed[s][d]
    PROVE  Follows(d)'
  BY Zenon DEF Follows, Quiet

\* The only runner of a check that is not between two runs.
LEMMA OnlyRunner ==
    ASSUME OneStart, NEW s \in Starts, NEW c \in Checks
    PROVE  Quiet(c) <=> runner[s][c] \in {"off", "run", "wait"}
  BY DEF OneStart, Quiet

LEMMA OnlyRunnerNext ==
    ASSUME OneStart, NEW s \in Starts, NEW c \in Checks
    PROVE  Quiet(c)' <=> runner'[s][c] \in {"off", "run", "wait"}
  BY DEF OneStart, Quiet

\* What there is to show when the only runner of c is s.
LEMMA FollowsNext ==
    ASSUME OneStart, NEW s \in Starts, NEW c \in Checks,
           healthy'[c] <=> fails'[c] < failureThreshold,
           runner'[s][c] \in {"off", "run", "wait"} =>
               streak'[c] = fails'[c] /\ (healthy'[c] \/ lastErr'[c]),
           runner'[s][c] \in {"store", "count"} =>
               streak'[c] = IF failed'[s][c] THEN Saturated(fails'[c], failureThreshold) ELSE 0,
           runner'[s][c] = "count" => (lastErr'[c] <=> failed'[s][c])
    PROVE  Follows(c)'
<1>1. \A t \in Starts : t = s
  BY DEF OneStart
<1> QED
  BY <1>1, OnlyRunnerNext, Zenon DEF Follows, Saturated

LEMMA ReturnFollows ==
    ASSUME OneStart, Types, NEW s \in Starts, NEW c \in Checks, Follows(c), Return(s, c)
    PROVE  Follows(c)'
<1>1. runner'[s][c] = "store"
  BY GotoType DEF Return, Types, Labels
<1>2. healthy' = healthy /\ fails' = fails
  BY DEF Return
<1>3. PICK f \in BOOLEAN :
          /\ failed' = [failed EXCEPT ![s] = [failed[s] EXCEPT ![c] = f]]
          /\ streak' = [streak EXCEPT ![c] = IF f THEN Saturated(streak[c], failureThreshold) ELSE 0]
  BY DEF Return
<1>4. failed'[s][c] = f
  BY <1>3, Zenon DEF Types, FlagTypes
<1>5. streak'[c] = IF f THEN Saturated(streak[c], failureThreshold) ELSE 0
  BY <1>3 DEF Types, CountTypes
<1>6. streak[c] = fails[c]
  BY OnlyRunner DEF Follows, Return
<1>7. streak'[c] = IF failed'[s][c] THEN Saturated(fails'[c], failureThreshold) ELSE 0
  BY <1>2, <1>4, <1>5, <1>6, Zenon
<1>8. healthy'[c] <=> fails'[c] < failureThreshold
  BY <1>2, Zenon DEF Follows
<1> QED
  BY <1>1, <1>7, <1>8, FollowsNext

LEMMA StoreFollows ==
    ASSUME OneStart, Types, NEW s \in Starts, NEW c \in Checks, Follows(c), StoreError(s, c)
    PROVE  Follows(c)'
<1>1. runner[s][c] = "store" /\ runner'[s][c] = "count"
  BY GotoType DEF StoreError, Types, Labels
<1>2. UNCHANGED <<healthy, fails, streak, failed>>
  BY DEF StoreError
<1>3. lastErr'[c] = failed[s][c]
  BY Zenon DEF StoreError, Types, FlagTypes
<1>4. streak[c] = IF failed[s][c] THEN Saturated(fails[c], failureThreshold) ELSE 0
  BY <1>1, Zenon DEF Follows
<1>5. healthy'[c] <=> fails'[c] < failureThreshold
  BY <1>2, Zenon DEF Follows
<1>6. streak'[c] = IF failed'[s][c] THEN Saturated(fails'[c], failureThreshold) ELSE 0
  BY <1>2, <1>4, Zenon
<1>7. lastErr'[c] <=> failed'[s][c]
  BY <1>2, <1>3, Zenon
<1> QED
  BY <1>1, <1>5, <1>6, <1>7, FollowsNext

\* Counters saturate at their threshold and not before.
LEMMA SaturatedBelow ==
    ASSUME NEW limit \in Nat \ {0}, NEW n \in 0..limit
    PROVE  /\ Saturated(n, limit) < limit => n < limit
           /\ Saturated(n, 1) >= 1
  BY DEF Saturated

LEMMA CountFollows ==
    ASSUME OneStart, successThreshold = 1, Types,
           NEW s \in Starts, NEW c \in Checks, Follows(c), Count(s, c)
    PROVE  Follows(c)'
<1>1. runner[s][c] = "count" /\ runner'[s][c] = "wait"
  BY GotoType DEF Count, Types, Labels
<1>2. UNCHANGED <<streak, failed, lastErr>>
  BY DEF Count
<1>3. /\ lastErr[c] <=> failed[s][c]
      /\ streak[c] = IF failed[s][c] THEN Saturated(fails[c], failureThreshold) ELSE 0
      /\ healthy[c] <=> fails[c] < failureThreshold
  BY <1>1, Zenon DEF Follows
<1>4. /\ fails[c] \in 0..failureThreshold /\ oks[c] \in 0..1
      /\ failureThreshold \in Nat \ {0}
  BY HealthAssumption DEF Types, CountTypes
<1>5. CASE failed[s][c]
  <2>1. /\ fails' = [fails EXCEPT ![c] = Saturated(fails[c], failureThreshold)]
        /\ healthy' = [healthy EXCEPT ![c] = healthy[c] /\ fails'[c] < failureThreshold]
    BY <1>5, Zenon DEF Count
  <2>2. fails'[c] = Saturated(fails[c], failureThreshold)
    BY <2>1 DEF Types, CountTypes
  <2>3. healthy'[c] <=> healthy[c] /\ fails'[c] < failureThreshold
    BY <2>1, Zenon DEF Types, FlagTypes
  <2>4. fails'[c] < failureThreshold => fails[c] < failureThreshold
    BY <1>4, <2>2, SaturatedBelow
  <2>5. healthy'[c] <=> fails'[c] < failureThreshold
    BY <1>3, <2>3, <2>4, Zenon
  <2>6. streak'[c] = fails'[c]
    BY <1>2, <1>3, <1>5, <2>2, Zenon
  <2>7. lastErr'[c]
    BY <1>2, <1>3, <1>5, Zenon
  <2> QED
    BY <1>1, <2>5, <2>6, <2>7, FollowsNext
<1>6. CASE ~failed[s][c]
  <2>1. /\ fails' = [fails EXCEPT ![c] = 0]
        /\ oks' = [oks EXCEPT ![c] = Saturated(oks[c], successThreshold)]
        /\ healthy' = [healthy EXCEPT ![c] = healthy[c] \/ oks'[c] >= successThreshold]
    BY <1>6, Zenon DEF Count
  <2>2. fails'[c] = 0 /\ oks'[c] = Saturated(oks[c], 1)
    BY <2>1 DEF Types, CountTypes
  <2>3. healthy'[c] <=> healthy[c] \/ oks'[c] >= 1
    BY <2>1, Zenon DEF Types, FlagTypes
  <2>4. oks'[c] >= 1 /\ fails'[c] < failureThreshold
    BY <1>4, <2>2, SaturatedBelow
  <2>5. healthy'[c]
    BY <2>3, <2>4, Zenon
  <2>6. streak'[c] = fails'[c]
    BY <1>2, <1>3, <1>6, <2>2, Zenon
  <2>7. healthy'[c] <=> fails'[c] < failureThreshold
    BY <2>4, <2>5, Zenon
  <2> QED
    BY <1>1, <2>5, <2>6, <2>7, FollowsNext
<1> QED
  BY <1>5, <1>6

\* A runner waits, starts or ends between two runs.
LEMMA RestFollows ==
    ASSUME OneStart, NEW s \in Starts, NEW c \in Checks, Follows(c),
           UNCHANGED <<healthy, fails, streak, lastErr>>,
           runner[s][c] \in {"off", "run", "wait"}, runner'[s][c] \in {"off", "run", "wait"}
    PROVE  Follows(c)'
<1>1. Quiet(c)
  BY OnlyRunner
<1>2. /\ healthy[c] <=> fails[c] < failureThreshold
      /\ streak[c] = fails[c] /\ (healthy[c] \/ lastErr[c])
  BY <1>1, Zenon DEF Follows
<1>3. healthy'[c] <=> fails'[c] < failureThreshold
  BY <1>2, Zenon
<1>4. streak'[c] = fails'[c] /\ (healthy'[c] \/ lastErr'[c])
  BY <1>2, Zenon
<1>5. runner'[s][c] \notin {"store", "count"}
  OBVIOUS
<1> QED
  BY <1>3, <1>4, <1>5, FollowsNext
\* A step of a runner: of this check, or of another.
LEMMA RunnerFollows ==
    ASSUME OneStart, successThreshold = 1, Types, NEW d \in Checks, Follows(d),
           NEW s \in Starts, NEW c \in Checks, Run(s, c) \/ Exit(s, c)
    PROVE  Follows(d)'
<1>1. CASE d # c
  <2>1. \E label \in Labels : Goto(s, c, label)
    BY DEF Run, Return, StoreError, Count, TakeTick, Exit, Labels
  <2>2. \A t \in Starts : runner'[t][d] = runner[t][d]
    BY <1>1, <2>1, GotoType DEF Types
  <2>3. \A t \in Starts : failed'[t][d] = failed[t][d]
    <3>1. CASE Return(s, c)
      <4>1. PICK f \in BOOLEAN : failed' = [failed EXCEPT ![s] = [failed[s] EXCEPT ![c] = f]]
        BY <3>1 DEF Return
      <4> QED
        BY <1>1, <4>1, Zenon DEF Types, FlagTypes
    <3>2. CASE failed' = failed
      BY <3>2, Zenon
    <3> QED
      BY <3>1, <3>2 DEF Run, StoreError, Count, TakeTick, Exit
  <2>4. healthy'[d] = healthy[d] /\ lastErr'[d] = lastErr[d]
    BY <1>1, Zenon
    DEF Types, FlagTypes, Run, Return, StoreError, Count, TakeTick, Exit, checkState
  <2>5. fails'[d] = fails[d] /\ streak'[d] = streak[d]
    BY <1>1, Zenon
    DEF Types, CountTypes, Run, Return, StoreError, Count, TakeTick, Exit, checkState
  <2> QED
    BY <2>2, <2>3, <2>4, <2>5, OthersFollow
<1>2. CASE d = c /\ (TakeTick(s, c) \/ Exit(s, c))
  <2>1. UNCHANGED <<healthy, fails, streak, lastErr>>
    BY <1>2 DEF TakeTick, Exit, checkState
  <2>2. runner[s][c] = "wait" /\ runner'[s][c] \in {"run", "off"}
    BY <1>2, GotoType DEF TakeTick, Exit, Types, Labels
  <2> QED
    BY <1>2, <2>1, <2>2, RestFollows
<1> QED
  BY <1>1, <1>2, ReturnFollows, StoreFollows, CountFollows DEF Run

\* Start finds no runner of the check, since it is the only call.
LEMMA StartFollows ==
    ASSUME OneStart, Types, Uncalled, NEW d \in Checks, Follows(d), NEW s \in Starts, Start(s)
    PROVE  Follows(d)'
<1>1. runner[s][d] = "off"
  BY DEF Uncalled, Start
<1>2. runner'[s][d] \in {"off", "run"}
  BY DEF Start, Types, RunnerTypes
<1>3. UNCHANGED <<healthy, fails, streak, lastErr>>
  BY DEF Start, checkState
<1> QED
  BY <1>1, <1>2, <1>3, RestFollows

LEMMA StepFlagInv == OneStart /\ successThreshold = 1 /\ FlagInv /\ [Next]_vars => FlagInv'
<1> SUFFICES ASSUME OneStart, successThreshold = 1, FlagInv, [Next]_vars PROVE FlagInv'
  OBVIOUS
<1>1. Types' /\ Uncalled'
  BY StepTypes, StepUncalled DEF FlagInv, Types
<1>2. ASSUME NEW d \in Checks
      PROVE  Follows(d)'
  <2>1. Types /\ Uncalled /\ Follows(d)
    BY DEF FlagInv
  <2>2. ASSUME NEW s \in Starts, NEW c \in Checks, Run(s, c) \/ Exit(s, c)
        PROVE  Follows(d)'
    BY <2>1, <2>2, RunnerFollows
  <2>3. ASSUME NEW s \in Starts, Start(s)
        PROVE  Follows(d)'
    BY <2>1, <2>3, StartFollows
  <2>4. CASE UNCHANGED <<runner, failed, checkState>>
    BY <2>1, <2>4, OthersFollow DEF checkState
  <2> QED
    BY <2>2, <2>3, <2>4
    DEF Next, vars, AddCheck, Turn, SetReady, Stop, Shutdown, Ask, LoadFlag, Respond
<1> QED
  BY <1>1, <1>2 DEF FlagInv

LEMMA InitFlagInv == Init => FlagInv
<1> SUFFICES ASSUME Init PROVE FlagInv
  OBVIOUS
<1>1. Uncalled
  BY DEF Init, Uncalled
<1>2. ASSUME NEW c \in Checks
      PROVE  Follows(c)
  <2>1. /\ healthy[c] /\ fails[c] = 0 /\ streak[c] = 0
        /\ \A s \in Starts : runner[s][c] = "off"
    BY Zenon DEF Init
  <2>2. healthy[c] <=> fails[c] < failureThreshold
    <3>1. fails[c] < failureThreshold
      BY <2>1, HealthAssumption
    <3> QED
      BY <2>1, <3>1, Zenon
  <2>3. streak[c] = fails[c] /\ (healthy[c] \/ lastErr[c])
    BY <2>1, Zenon
  <2>4. \A s \in Starts : runner[s][c] \notin {"store", "count"}
    BY <2>1
  <2>5. \A s \in Starts : runner[s][c] # "count"
    BY <2>1
  <2> QED
    BY <2>2, <2>3, <2>4, <2>5, Zenon DEF Follows
<1> QED
  BY InitTypes, <1>1, <1>2 DEF FlagInv

LEMMA FlagInvFollows == FlagInv => FlagFollowsResults
<1> SUFFICES ASSUME FlagInv, NEW c \in Checks, Quiet(c)
             PROVE  /\ healthy[c] <=> streak[c] < failureThreshold
                    /\ ~healthy[c] => lastErr[c]
  BY DEF FlagFollowsResults
<1>1. /\ healthy[c] <=> fails[c] < failureThreshold
      /\ streak[c] = fails[c] /\ (healthy[c] \/ lastErr[c])
  BY Zenon DEF FlagInv, Follows
<1> QED
  BY <1>1, Zenon

\* With one call of Start, the flag of a check that is between two runs says
\* whether its last failureThreshold results were all failures, and an
\* unhealthy check has an error to show (health.go:63-83).
THEOREM FlagsFollow == ASSUME OneStart PROVE Spec => []FlagFollowsResults
<1>1. CASE successThreshold = 1
  <2>1. FlagInv /\ [Next]_vars => FlagInv'
    BY <1>1, StepFlagInv
  <2> QED
    BY <2>1, InitFlagInv, FlagInvFollows, PTL DEF Spec
<1>2. CASE successThreshold # 1
  <2>1. FlagFollowsResults
    BY <1>2 DEF FlagFollowsResults
  <2> QED
    BY <2>1, PTL
<1> QED
  BY <1>1, <1>2
=============================================================================
