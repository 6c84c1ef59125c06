-------------------------- MODULE RateLimiterProofs --------------------------
(***************************************************************************)
(* What TLAPS proves of RateLimiter, for every limit, every window and any *)
(* number of clients and goroutines: no window is charged with more than   *)
(* Max requests, the entry of a client that stays away is evicted, fewer   *)
(* than twice Max requests pass in a window, and whoever is refused has    *)
(* had Max of them in three windows, or more than half of Max if late.     *)
(***************************************************************************)
EXTENDS RateLimiter, FoldLemmas

\* The entries of the limiter.
Counters == [prevCount : 0..Max, prevStart : Nat, currCount : 0..Max, currStart : Nat]

\* The ticker of the cleanup goroutine is at most two windows ahead of the clock
\* and MaxLag behind it; a request has waited for MaxLag at most; no window begins
\* in the future, and no entry is older than two rounds of the ticker.
Timely ==
    /\ due <= clock + 2 * Window
    /\ clock <= due + MaxLag
    /\ \A h \in Handlers : serving[h] # NoRequest =>
            serving[h].now <= clock /\ clock <= serving[h].now + MaxLag
    /\ \A k \in Clients : entries[k] # NoEntry =>
            entries[k].currStart <= clock /\ due < entries[k].currStart + 4 * Window

\* The invariant of the counters and the clocks.
LimiterInv == TypeOK /\ Timely

-----------------------------------------------------------------------------
\* Truncate goes back by less than a window.
LEMMA TruncateBounds ==
    ASSUME NEW now \in Nat
    PROVE  Truncate(now) \in Nat /\ Truncate(now) <= now /\ now < Truncate(now) + Window
<1>1. now % Window \in 0..(Window - 1) /\ now % Window <= now
  BY LimiterAssumption
<1> QED
  BY <1>1, LimiterAssumption DEF Truncate

\* The overlap with the previous window is never negative.
LEMMA OverlapNat ==
    ASSUME NEW e \in Counters, NEW now \in Nat
    PROVE  Overlap(e, now) \in Nat
BY LimiterAssumption DEF Overlap, Counters

\* A request is let through only into a window with fewer than Max.
LEMMA AdmittedBelowMax ==
    ASSUME NEW e \in Counters, NEW now \in Nat, Admits(e, now)
    PROVE  e.currCount < Max
<1> DEFINE weight == e.prevCount * Overlap(e, now)
<1>1. e.prevCount \in Nat /\ e.currCount \in Nat /\ Max \in Nat /\ Window \in Nat /\ Window > 0
  BY LimiterAssumption DEF Counters
<1>2. weight \in Nat
  <2>1. \A m, n \in Nat : m * n \in Nat
    OBVIOUS
  <2> QED
    BY <1>1, <2>1, OverlapNat
<1>3. weight + e.currCount * Window < Max * Window
  BY DEF Admits, Effective
<1>4. \A w, c, m, v \in Nat : v > 0 /\ w + c * v < m * v => c < m
  <2> SUFFICES ASSUME NEW w \in Nat, NEW c \in Nat, NEW m \in Nat, NEW v \in Nat,
                      v > 0, w + c * v < m * v, c >= m
               PROVE  FALSE
    OBVIOUS
  <2>1. PICK d \in Nat : c = m + d
    OBVIOUS
  <2>2. c * v = m * v + d * v /\ d * v \in Nat /\ m * v \in Nat
    BY <2>1
  <2> QED
    BY <2>2
<1> HIDE DEF weight
<1> QED
  BY <1>1, <1>2, <1>3, <1>4

\* A rotation keeps the types of the counters; the window it ends in is the one
\* it found or began less than a window before the request read the clock.
LEMMA RotatedType ==
    ASSUME NEW f \in Counters, NEW now \in Nat
    PROVE  /\ Rotated(f, now) \in Counters
           /\ \/ Rotated(f, now).currStart = f.currStart
              \/ Rotated(f, now).currStart <= now /\ now < Rotated(f, now).currStart + Window
<1>1. 0 \in 0..Max /\ f.currCount \in 0..Max /\ f.currStart \in Nat
  BY LimiterAssumption DEF Counters
<1>2. CASE now - f.currStart >= Window
  <2>1. PICK p \in 0..Max :
          Rotated(f, now) = [prevCount |-> p, prevStart |-> f.currStart,
                             currCount |-> 0, currStart |-> Truncate(now)]
    <3>1. CASE now - f.currStart >= 2 * Window
      BY <1>1, <1>2, <3>1 DEF Rotated
    <3>2. CASE ~(now - f.currStart >= 2 * Window)
      BY <1>1, <1>2, <3>2 DEF Rotated
    <3> QED
      BY <3>1, <3>2
  <2>2. Truncate(now) \in Nat /\ Truncate(now) <= now /\ now < Truncate(now) + Window
    BY TruncateBounds
  <2> QED
    BY <1>1, <2>1, <2>2 DEF Counters
<1>3. CASE ~(now - f.currStart >= Window)
  BY <1>3 DEF Rotated
<1> QED
  BY <1>2, <1>3

\* The entry allow starts from is the one in the map or begins now.
LEMMA FoundType ==
    ASSUME TypeOK, NEW k \in Clients, NEW now \in Nat
    PROVE  /\ Found(k, now) \in Counters
           /\ \/ entries[k] # NoEntry /\ Found(k, now) = entries[k]
              \/ Found(k, now).currStart = now
BY LimiterAssumption DEF Found, TypeOK, Counters

\* One more request in the history of a client.
LEMMA HistoryType ==
    ASSUME NEW row \in [0..MaxClock -> Nat], NEW now \in Nat
    PROVE  [row EXCEPT ![now] = @ + 1] \in [0..MaxClock -> Nat]
<1>1. CASE now \in 0..MaxClock
  <2>1. row[now] + 1 \in Nat
    BY <1>1
  <2> QED
    BY <1>1, <2>1
<1>2. CASE now \notin 0..MaxClock
  BY <1>2
<1> QED
  BY <1>1, <1>2

\* Counting a request keeps the window.
LEMMA CountedType ==
    ASSUME NEW e \in Counters, e.currCount < Max
    PROVE  Counted(e) \in Counters /\ Counted(e).currStart = e.currStart
BY LimiterAssumption DEF Counted, Counters

-----------------------------------------------------------------------------
\* The limiter starts empty and on time.
LEMMA InitLimiter == Init => LimiterInv
<1> SUFFICES ASSUME Init PROVE LimiterInv
  OBVIOUS
<1>1. clock \in Nat /\ due \in Nat /\ due = clock + 2 * Window
  BY LimiterAssumption DEF Init
<1>2. admitted \in [Clients -> [0..MaxClock -> Nat]]
  BY DEF Init
<1>3. TypeOK
  BY <1>1, <1>2 DEF Init, TypeOK
<1>4. Timely
  BY <1>1, LimiterAssumption DEF Init, Timely
<1> QED
  BY <1>3, <1>4 DEF LimiterInv

\* One call of allow.
LEMMA AllowKeeps ==
    ASSUME LimiterInv, NEW h \in Handlers, Allow(h)
    PROVE  LimiterInv'
<1> DEFINE k == serving[h].key
           now == serving[h].now
           e == Rotated(Found(k, now), now)
<1>1. k \in Clients /\ now \in Nat /\ serving' = [serving EXCEPT ![h] = NoRequest]
      /\ clock' = clock /\ due' = due /\ TypeOK /\ Timely
  BY DEF Allow, LimiterInv, TypeOK
<1>2. /\ e \in Counters
      /\ \/ entries[k] # NoEntry /\ e.currStart = entries[k].currStart
         \/ e.currStart <= now /\ now < e.currStart + Window
  <2>1. /\ Found(k, now) \in Counters
        /\ (entries[k] # NoEntry /\ Found(k, now) = entries[k]) \/ Found(k, now).currStart = now
    BY <1>1, FoundType
  <2>2. /\ e \in Counters
        /\ \/ e.currStart = Found(k, now).currStart
           \/ e.currStart <= now /\ now < e.currStart + Window
    BY <1>1, <2>1, RotatedType
  <2> QED
    BY <1>1, <2>1, <2>2, LimiterAssumption
<1>3. PICK f \in Counters : entries' = [entries EXCEPT ![k] = f] /\ f.currStart = e.currStart
  <2>1. CASE Admits(e, now)
    BY <1>1, <1>2, <2>1, AdmittedBelowMax, CountedType DEF Allow
  <2>2. CASE ~Admits(e, now)
    BY <1>2, <2>2 DEF Allow
  <2> QED
    BY <2>1, <2>2
<1>4. admitted' \in [Clients -> [0..MaxClock -> Nat]]
  <2>1. admitted' = admitted \/ admitted' = [admitted EXCEPT ![k][now] = @ + 1]
    BY DEF Allow
  <2>2. [admitted[k] EXCEPT ![now] = admitted[k][now] + 1] \in [0..MaxClock -> Nat]
    BY <1>1, HistoryType DEF TypeOK
  <2> QED
    BY <1>1, <2>1, <2>2 DEF TypeOK
<1>5. TypeOK'
  BY <1>1, <1>3, <1>4 DEF TypeOK, Counters
<1> HIDE DEF e
<1>6. now <= clock /\ clock <= now + MaxLag
  BY <1>1 DEF Timely, Allow
<1>7. e.currStart <= clock /\ due < e.currStart + 4 * Window
  <2>1. /\ e.currStart \in Nat /\ due \in Nat /\ clock \in Nat /\ now \in Nat
        /\ Window \in Nat /\ MaxLag \in Nat /\ MaxLag < Window /\ due <= clock + 2 * Window
    BY <1>1, <1>2, LimiterAssumption DEF Timely, TypeOK, Counters
  <2>2. CASE e.currStart <= now /\ now < e.currStart + Window
    BY <1>6, <2>1, <2>2
  <2>3. CASE entries[k] # NoEntry /\ e.currStart = entries[k].currStart
    BY <1>1, <2>3 DEF Timely
  <2> QED
    BY <1>2, <2>2, <2>3
<1>8. Timely'
  BY <1>1, <1>3, <1>7 DEF Timely, TypeOK
<1> QED
  BY <1>5, <1>8 DEF LimiterInv

\* One round of the cleanup goroutine.
LEMMA CleanupKeeps ==
    ASSUME LimiterInv, Cleanup
    PROVE  LimiterInv'
<1>1. clock \in Nat /\ due \in Nat /\ Window \in Nat /\ Window > 0 /\ MaxLag \in Nat /\ MaxLag < Window
      /\ due <= clock /\ clock <= due + MaxLag
  BY LimiterAssumption DEF Cleanup, LimiterInv, TypeOK, Timely
<1>2. (clock - due) \div (2 * Window) = 0
  <2>1. clock - due \in Nat /\ clock - due < 2 * Window /\ 2 * Window \in Nat /\ 2 * Window > 0
    BY <1>1
  <2>2. \A m, n \in Nat : n > 0 /\ m < n => m \div n = 0
    OBVIOUS
  <2> QED
    BY <2>1, <2>2
<1>3. due' = due + 2 * Window
  BY <1>1, <1>2 DEF Cleanup
<1>4. /\ clock' = clock /\ serving' = serving /\ admitted' = admitted
      /\ entries' = [k \in Clients |-> IF Expired(entries[k], due) THEN NoEntry ELSE entries[k]]
  BY DEF Cleanup
<1>5. TypeOK'
  BY <1>1, <1>3, <1>4 DEF LimiterInv, TypeOK
<1>6. \A k \in Clients : entries'[k] # NoEntry =>
          entries[k] # NoEntry /\ entries'[k] = entries[k] /\ due < entries[k].currStart + 2 * Window
  BY <1>1, <1>4 DEF Expired, LimiterInv, TypeOK
<1>7. Timely'
  BY <1>1, <1>3, <1>4, <1>6 DEF LimiterInv, TypeOK, Timely
<1> QED
  BY <1>5, <1>7 DEF LimiterInv

\* Every step keeps the invariant.
LEMMA StepLimiter ==
    ASSUME LimiterInv, [Next]_vars
    PROVE  LimiterInv'
<1>1. CASE UNCHANGED vars
  BY <1>1 DEF vars, LimiterInv, TypeOK, Timely
<1>2. ASSUME NEW h \in Handlers, NEW k \in Clients, Arrive(h, k) PROVE LimiterInv'
  <2>1. TypeOK'
    BY <1>2 DEF Arrive, LimiterInv, TypeOK
  <2>2. Timely'
    BY <1>2, LimiterAssumption DEF Arrive, LimiterInv, TypeOK, Timely
  <2> QED
    BY <2>1, <2>2 DEF LimiterInv
<1>3. ASSUME NEW h \in Handlers, Allow(h) PROVE LimiterInv'
  BY <1>3, AllowKeeps
<1>4. CASE Cleanup
  BY <1>4, CleanupKeeps
<1>5. CASE Tick
  <2>1. TypeOK'
    BY <1>5 DEF Tick, LimiterInv, TypeOK
  <2>2. Timely'
    BY <1>5, LimiterAssumption DEF Tick, LimiterInv, TypeOK, Timely
  <2> QED
    BY <2>1, <2>2 DEF LimiterInv
<1> QED
  BY <1>1, <1>2, <1>3, <1>4, <1>5 DEF Next

\* The invariant the two results rest on.
THEOREM Limiter == Spec => []LimiterInv
<1>1. Init => LimiterInv
  BY InitLimiter
<1>2. LimiterInv /\ [Next]_vars => LimiterInv'
  BY StepLimiter
<1> QED
  BY <1>1, <1>2, PTL DEF Spec

\* No window is charged with more than Max requests, and the limiter keeps its
\* types (ratelimit.go:55-99).
THEOREM ChargesBounded == Spec => []TypeOK
<1>1. LimiterInv => TypeOK
  BY DEF LimiterInv
<1> QED
  BY <1>1, Limiter, PTL

\* The map of the limiter holds no entry older than four windows
\* (ratelimit.go:102-128).
THEOREM Eviction == Spec => []StaleEntriesGo
<1>1. LimiterInv => StaleEntriesGo
  BY LimiterAssumption DEF LimiterInv, TypeOK, Timely, StaleEntriesGo
<1> QED
  BY <1>1, Limiter, PTL

-----------------------------------------------------------------------------
(* What the history of the requests let through has to do with the counters. *)

\* What is remembered of one client: requests let through, by their clock.
Row == [0..MaxClock -> Nat]

\* The requests that read the clock at a or later.
Since(row, a) == SumFunctionOnSet(row, {t \in 0..MaxClock : a <= t /\ t <= MaxClock})

\* A window that does not start at a multiple of its length may overlap the next
\* one, but at its first instant.
Borrowed(e) == IF e.prevCount > 0 /\ e.prevStart + Window > e.currStart THEN e.prevCount - 1 ELSE 0

\* The entry counts at least the requests of row since its window began, and
\* requests of row that waited no longer than MaxLag.
Tallies(row, e, now) ==
    /\ e.currStart <= now
    /\ \A t \in 0..MaxClock : e.currStart + Window <= t => row[t] = 0
    /\ Since(row, e.currStart) <= e.currCount + Borrowed(e)
    /\ e.currCount <= Since(row, e.currStart - MaxLag)
    /\ e.prevCount > 0 =>
          /\ e.prevStart <= e.currStart
          /\ e.currStart < e.prevStart + 2 * Window
          /\ e.prevCount + e.currCount <= Since(row, e.prevStart - MaxLag)

\* Between a rotation and the first request that is counted after it the entry
\* is ahead of what has been let through since.
FirstCounts(row, e) == Since(row, e.currStart + 1) < e.currCount

\* The entry of a client that comes at the time at for the first time.
Unused(row, e, at) ==
    e.currStart = at /\ e.currCount = 0 /\ e.prevCount = 0 /\ Since(row, e.currStart + 1) = 0

\* An entry as it stands in the map, and as allow tests it for a request that
\* read the clock at the time at.
Recorded(row, e, now) ==
    Tallies(row, e, now) /\ (e.currStart % Window # 0 => FirstCounts(row, e))
\* An entry as allow finds it, or as it leaves it.
Ready(row, e, at, now) ==
    Tallies(row, e, now) /\ (e.currStart % Window # 0 => FirstCounts(row, e) \/ Unused(row, e, at))

\* Every entry of the map agrees with the history of its client.
History ==
    /\ clock <= MaxClock
    /\ \A k \in Clients : \A t \in 0..MaxClock : clock < t => admitted[k][t] = 0
    /\ \A k \in Clients : entries[k] # NoEntry => Recorded(admitted[k], entries[k], clock)
    /\ \A k \in Clients : \A t \in 0..MaxClock :
          entries[k] = NoEntry /\ clock <= t + MaxLag => admitted[k][t] = 0

\* No request is let through in the future.
LEMMA Reaches ==
    ASSUME NEW a \in Int, NEW b \in Int
    PROVE  IsFiniteSet({t \in 0..MaxClock : a <= t /\ t <= b})
<1>1. IsFiniteSet(0..MaxClock) /\ {t \in 0..MaxClock : a <= t /\ t <= b} \in SUBSET (0..MaxClock)
  BY FS_Interval, LimiterAssumption
<1> QED
  BY <1>1, FS_Subset

\* What was let through since a time is a natural number, and grows as the time
\* recedes.
LEMMA SinceFacts ==
    ASSUME NEW row \in Row, NEW a \in Int
    PROVE  /\ Since(row, a) \in Nat
           /\ \A b \in Int : a <= b => Since(row, b) <= Since(row, a)
           /\ (\A t \in 0..MaxClock : a <= t => row[t] = 0) => Since(row, a) = 0
<1> DEFINE After(b) == {t \in 0..MaxClock : b <= t /\ t <= MaxClock}
<1>1. IsFiniteSet(After(a)) /\ \A t \in After(a) : row[t] \in Nat
  BY Reaches, LimiterAssumption DEF Row
<1>2. \A s \in SUBSET After(a) : SumFunctionOnSet(row, s) \in Nat
                              /\ SumFunctionOnSet(row, s) <= SumFunctionOnSet(row, After(a))
  <2> HIDE DEF After
  <2> QED
    BY <1>1, SumNat
<1>3. After(a) \in SUBSET After(a) /\ \A b \in Int : a <= b => After(b) \in SUBSET After(a)
  OBVIOUS
<1>4. ASSUME \A t \in 0..MaxClock : a <= t => row[t] = 0 PROVE Since(row, a) = 0
  <2>1. {} \in SUBSET After(a) /\ \A t \in After(a) \ {} : row[t] = 0
    BY <1>4
  <2>2. \A t \in After(a) : row[t] \in Int
    BY <1>1
  <2>3. SumFunctionOnSet(row, After(a)) = SumFunctionOnSet(row, {})
    <3> HIDE DEF After
    <3> QED
      BY <1>1, <2>1, <2>2, SumZeros
  <2>4. SumFunctionOnSet(row, {}) = 0
    <3> HIDE DEF After
    <3> QED
      BY <1>1, <2>2, SumFacts
  <2> QED
    BY <2>3, <2>4 DEF Since
<1> QED
  BY <1>2, <1>3, <1>4 DEF Since

\* One more request that is let through.
LEMMA SinceBump ==
    ASSUME NEW row \in Row, NEW a \in Int, NEW now \in 0..MaxClock
    PROVE  Since([row EXCEPT ![now] = @ + 1], a) = Since(row, a) + IF a <= now THEN 1 ELSE 0
<1> DEFINE S == {t \in 0..MaxClock : a <= t /\ t <= MaxClock}
<1>1. IsFiniteSet(S) /\ S \subseteq 0..MaxClock /\ row \in [0..MaxClock -> Int]
  BY Reaches, LimiterAssumption DEF Row
<1>2. now \in S <=> a <= now
  BY LimiterAssumption
<1>3. SumFunctionOnSet([row EXCEPT ![now] = @ + 1], S) = SumFunctionOnSet(row, S) + IF now \in S THEN 1 ELSE 0
  <2> HIDE DEF S
  <2> QED
    BY <1>1, SumBump
<1> QED
  BY <1>2, <1>3 DEF Since

\* The windows that start at a multiple of the window do not overlap.
LEMMA TruncateAligned ==
    ASSUME NEW now \in Nat
    PROVE  /\ Truncate(now) % Window = 0
           /\ \A s \in Nat : s % Window = 0 /\ s < Truncate(now) => s + Window <= Truncate(now)
<1>1. \A n \in Nat : n \div Window \in Nat /\ n = Window * (n \div Window) + (n % Window)
               /\ n % Window \in Nat /\ n % Window < Window
  BY LimiterAssumption
<1>2. PICK q \in Nat : Truncate(now) = Window * q
  <2>1. Truncate(now) = Window * (now \div Window)
    BY <1>1, LimiterAssumption DEF Truncate
  <2> QED
    BY <1>1, <2>1
<1>3. (Window * q) % Window = 0
  <2>1. PICK r, m \in Nat : Window * q = Window * r + m /\ m < Window /\ m = (Window * q) % Window
    <3>1. Window * q \in Nat
      BY LimiterAssumption
    <3> QED
      BY <1>1, <3>1, LimiterAssumption
  <2>2. CASE q > r
    <3>1. PICK d \in Nat : q = r + 1 + d
      BY <2>2
    <3>2. Window * q = Window * r + Window + Window * d /\ Window * d \in Nat
      BY <3>1, LimiterAssumption
    <3> QED
      BY <2>1, <3>2, LimiterAssumption
  <2>3. CASE q < r
    <3>1. PICK d \in Nat : r = q + 1 + d
      BY <2>3
    <3>2. Window * r = Window * q + Window + Window * d /\ Window * d \in Nat
      BY <3>1, LimiterAssumption
    <3> QED
      BY <2>1, <3>2, LimiterAssumption
  <2>4. CASE q = r
    <3>1. Window * q = Window * r /\ Window * r \in Nat
      BY <2>4, LimiterAssumption
    <3> QED
      BY <2>1, <3>1
  <2>5. q > r \/ q < r \/ q = r
    OBVIOUS
  <2> QED
    BY <2>2, <2>3, <2>4, <2>5
<1>4. ASSUME NEW s \in Nat, s % Window = 0, s < Truncate(now) PROVE s + Window <= Truncate(now)
  <2>1. PICK r \in Nat : s = Window * r
    <3>1. s \div Window \in Nat /\ s = Window * (s \div Window) + (s % Window)
      BY <1>1
    <3>2. \A m \in Nat : Window * m \in Nat
      BY LimiterAssumption
    <3>3. s = Window * (s \div Window)
      BY <1>4, <3>1, <3>2
    <3> QED
      BY <3>1, <3>3
  <2>2. Window * r < Window * q
    BY <1>2, <1>4, <2>1
  <2>3. r < q
    <3> SUFFICES ASSUME q <= r PROVE FALSE
      OBVIOUS
    <3>1. PICK d \in Nat : r = q + d
      OBVIOUS
    <3>2. Window * r = Window * q + Window * d /\ Window * d \in Nat
      BY <3>1, LimiterAssumption
    <3> QED
      BY <2>2, <3>2, LimiterAssumption
  <2>4. PICK d \in Nat : q = r + 1 + d
    BY <2>3
  <2>5. Window * q = Window * r + Window + Window * d /\ Window * d \in Nat
    BY <2>4, LimiterAssumption
  <2> QED
    BY <1>2, <2>1, <2>5, LimiterAssumption
<1> QED
  BY <1>2, <1>3, <1>4

\* The entry allow rotates to still tells of all the requests of its window.
LEMMA RotatedReady ==
    ASSUME NEW row \in Row, NEW e \in Counters, NEW now \in Nat, NEW c \in Nat, now <= c,
           Recorded(row, e, c)
    PROVE  Ready(row, Rotated(e, now), now, c) /\ now < Rotated(e, now).currStart + Window
<1> DEFINE cs == e.currStart
           r == Rotated(e, now)
           T == Truncate(now)
<1>0. cs \in Nat /\ e.currCount \in Nat /\ e.prevCount \in Nat /\ Window \in Nat /\ Window > 0 /\ MaxLag \in Nat
  BY LimiterAssumption DEF Counters
<1>1. CASE ~(now - cs >= Window)
  <2>1. r = e
    BY <1>1 DEF Rotated
  <2> QED
    BY <1>0, <1>1, <2>1 DEF Recorded, Ready
<1>2. CASE now - cs >= Window
  <2>1. T \in Nat /\ T <= now /\ now < T + Window /\ T % Window = 0 /\ cs < T
        /\ (cs % Window = 0 => cs + Window <= T)
    <3>1. T \in Nat /\ T <= now /\ now < T + Window
      BY TruncateBounds
    <3>2. T % Window = 0 /\ \A s \in Nat : s % Window = 0 /\ s < T => s + Window <= T
      BY TruncateAligned
    <3> HIDE DEF T
    <3>3. cs < T
      BY <1>0, <1>2, <3>1
    <3> QED
      BY <1>0, <3>1, <3>2, <3>3
  <2>2. r.prevStart = cs /\ r.currCount = 0 /\ r.currStart = T
        /\ r.prevCount = IF now - cs >= 2 * Window THEN 0 ELSE e.currCount
    BY <1>2 DEF Rotated
  <2> HIDE DEF r, T, cs
  <2>3. \A a \in Int : Since(row, a) \in Nat /\ \A b \in Int : a <= b => Since(row, b) <= Since(row, a)
    BY SinceFacts
  <2>4. \A t \in 0..MaxClock : cs + Window <= t => row[t] = 0
    BY DEF Recorded, Tallies, cs
  <2>5. cs + Window <= T => Since(row, T) = 0
    <3> SUFFICES ASSUME cs + Window <= T PROVE Since(row, T) = 0
      OBVIOUS
    <3>1. \A t \in 0..MaxClock : T <= t => row[t] = 0
      BY <1>0, <2>1, <2>4, LimiterAssumption
    <3> QED
      BY <2>1, <3>1, SinceFacts
  <2>6. Since(row, T) <= Borrowed(r)
    <3>1. Borrowed(r) \in Nat
      BY <1>0, <2>1, <2>2 DEF Borrowed
    <3>2. CASE cs + Window <= T
      BY <2>5, <3>1, <3>2
    <3>3. CASE T < cs + Window
      <4>1. Since(row, cs + 1) < e.currCount
        BY <1>0, <2>1, <3>3 DEF Recorded, FirstCounts, cs
      <4>2. Since(row, T) <= Since(row, cs + 1) /\ Since(row, cs + 1) \in Nat /\ Since(row, T) \in Nat
        BY <1>0, <2>1, <2>3
      <4>3. r.prevCount = e.currCount
        BY <1>0, <2>1, <2>2, <3>3
      <4>4. Borrowed(r) = e.currCount - 1
        BY <1>0, <2>1, <2>2, <3>3, <4>1, <4>2, <4>3 DEF Borrowed
      <4> QED
        BY <1>0, <4>1, <4>2, <4>4
    <3> QED
      BY <1>0, <2>1, <3>2, <3>3
  <2>7. \A t \in 0..MaxClock : T + Window <= t => row[t] = 0
    BY <1>0, <2>1, <2>4, LimiterAssumption
  <2>8. e.currCount <= Since(row, cs - MaxLag)
    BY DEF Recorded, Tallies, cs
  <2>9. Tallies(row, r, c)
    <3>1. r.currStart <= c
      BY <2>1, <2>2
    <3>2. Since(row, r.currStart) <= r.currCount + Borrowed(r)
      BY <1>0, <2>1, <2>2, <2>6 DEF Borrowed
    <3>3. r.currCount <= Since(row, r.currStart - MaxLag)
      BY <1>0, <2>1, <2>2, <2>3
    <3>4. r.prevCount > 0 =>
          /\ r.prevStart <= r.currStart
          /\ r.currStart < r.prevStart + 2 * Window
          /\ r.prevCount + r.currCount <= Since(row, r.prevStart - MaxLag)
      BY <1>0, <2>1, <2>2, <2>8
    <3> QED
      BY <2>2, <2>7, <3>1, <3>2, <3>3, <3>4 DEF Tallies
  <2> QED
    BY <2>1, <2>2, <2>9 DEF Ready, r
<1> QED
  BY <1>1, <1>2

\* A request let through is counted by the entry.
LEMMA CountedRecorded ==
    ASSUME NEW row \in Row, NEW e \in Counters, NEW now \in 0..MaxClock, NEW c \in Nat,
           now <= c, c <= now + MaxLag, now < e.currStart + Window, Ready(row, e, now, c)
    PROVE  Recorded([row EXCEPT ![now] = @ + 1], Counted(e), c)
<1> DEFINE new == [row EXCEPT ![now] = @ + 1]
           f == Counted(e)
<1>0. /\ e.currStart \in Nat /\ e.prevStart \in Nat /\ e.currCount \in Nat /\ e.prevCount \in Nat
      /\ Window \in Nat /\ Window > 0 /\ MaxLag \in Nat /\ now \in Nat /\ MaxClock \in Nat
  BY LimiterAssumption DEF Counters
<1>1. f.currStart = e.currStart /\ f.prevStart = e.prevStart /\ f.prevCount = e.prevCount
      /\ f.currCount = e.currCount + 1
  BY DEF Counted, Counters
<1>2. \A a \in Int : Since(row, a) \in Nat /\ Since(new, a) = Since(row, a) + IF a <= now THEN 1 ELSE 0
  BY SinceBump, SinceFacts
<1>3. \A t \in 0..MaxClock : e.currStart + Window <= t => new[t] = 0
  BY <1>0 DEF Ready, Tallies, Row
<1> HIDE DEF new, f
<1>4. Borrowed(f) = Borrowed(e) /\ Borrowed(e) \in Nat
  BY <1>0, <1>1 DEF Borrowed
<1>5. Since(new, f.currStart) <= f.currCount + Borrowed(f)
  <2>1. Since(row, e.currStart) <= e.currCount + Borrowed(e)
    BY DEF Ready, Tallies
  <2>2. Since(row, e.currStart) \in Nat /\ Since(new, e.currStart) \in Nat
        /\ Since(new, e.currStart) <= Since(row, e.currStart) + 1
    BY <1>0, <1>2
  <2> QED
    BY <1>0, <1>1, <1>4, <2>1, <2>2
<1>6. f.currCount <= Since(new, f.currStart - MaxLag)
  <2>1. e.currCount <= Since(row, e.currStart - MaxLag) /\ e.currStart <= c
    BY DEF Ready, Tallies
  <2>2. Since(new, e.currStart - MaxLag) = Since(row, e.currStart - MaxLag) + 1
    BY <1>0, <1>2, <2>1
  <2> QED
    BY <1>0, <1>1, <1>2, <2>1, <2>2
<1>7. ASSUME f.prevCount > 0
      PROVE  /\ f.prevStart <= f.currStart
             /\ f.currStart < f.prevStart + 2 * Window
             /\ f.prevCount + f.currCount <= Since(new, f.prevStart - MaxLag)
  <2>1. /\ e.prevStart <= e.currStart
        /\ e.currStart < e.prevStart + 2 * Window
        /\ e.prevCount + e.currCount <= Since(row, e.prevStart - MaxLag)
        /\ e.currStart <= c
    BY <1>1, <1>7 DEF Ready, Tallies
  <2>2. Since(new, e.prevStart - MaxLag) = Since(row, e.prevStart - MaxLag) + 1
    BY <1>0, <1>2, <2>1
  <2> QED
    BY <1>0, <1>1, <1>2, <2>1, <2>2
<1>8. Tallies(new, f, c)
  <2>1. f.currStart <= c
    BY <1>1 DEF Ready, Tallies
  <2> QED
    BY <1>1, <1>3, <1>5, <1>6, <1>7, <2>1 DEF Tallies
<1>9. ASSUME f.currStart % Window # 0 PROVE FirstCounts(new, f)
  <2>1. FirstCounts(row, e) \/ Unused(row, e, now)
    BY <1>1, <1>9 DEF Ready
  <2>2. /\ Since(row, e.currStart + 1) \in Nat
        /\ Since(new, e.currStart + 1) = Since(row, e.currStart + 1) + IF e.currStart + 1 <= now THEN 1 ELSE 0
    BY <1>0, <1>2
  <2>3. CASE FirstCounts(row, e)
    BY <1>0, <1>1, <2>2, <2>3 DEF FirstCounts
  <2>4. CASE Unused(row, e, now)
    BY <1>0, <1>1, <2>2, <2>4 DEF FirstCounts, Unused
  <2> QED
    BY <2>1, <2>3, <2>4
<1> QED
  BY <1>8, <1>9 DEF Recorded, new, f

\* A request refused leaves an entry that counts the first request of its window:
\* the first request of a client is let through.
LEMMA RefusedRecorded ==
    ASSUME Max > 0, NEW row \in Row, NEW e \in Counters, NEW now \in Nat, NEW c \in Nat,
           Ready(row, e, now, c), ~Admits(e, now)
    PROVE  Recorded(row, e, c)
<1>1. ASSUME Unused(row, e, now) PROVE FALSE
  <2>1. Effective(e, now) = 0
    <3>1. \A m \in Nat : 0 * m = 0
      OBVIOUS
    <3> QED
      BY <1>1, <3>1, OverlapNat, LimiterAssumption DEF Effective, Unused
  <2>2. \A m, n \in Nat : m > 0 /\ n > 0 => 0 < m * n
    <3> SUFFICES ASSUME NEW m \in Nat, NEW n \in Nat, m > 0, n > 0 PROVE 0 < m * n
      OBVIOUS
    <3>1. PICK d \in Nat : m = d + 1
      OBVIOUS
    <3>2. m * n = d * n + n /\ d * n \in Nat
      BY <3>1
    <3> QED
      BY <3>2
  <2> QED
    BY <2>1, <2>2, LimiterAssumption DEF Admits
<1> QED
  BY <1>1 DEF Ready, Recorded

\* What allow tests in an interleaving of the goroutines.
LEMMA ServedReady ==
    ASSUME LimiterInv, History, NEW h \in Handlers, serving[h] # NoRequest,
           NEW k, k = serving[h].key, NEW now, now = serving[h].now,
           NEW e, e = Rotated(Found(k, now), now)
    PROVE  /\ k \in Clients /\ admitted[k] \in Row /\ now \in 0..MaxClock
           /\ clock \in Nat /\ now <= clock /\ clock <= now + MaxLag
           /\ e \in Counters /\ now < e.currStart + Window
           /\ Ready(admitted[k], e, now, clock)
<1>1. /\ k \in Clients /\ admitted[k] \in Row /\ now \in 0..MaxClock
      /\ clock \in Nat /\ now <= clock /\ clock <= now + MaxLag
  <2>1. k \in Clients /\ now \in Nat /\ clock \in Nat /\ admitted[k] \in Row
    BY DEF LimiterInv, TypeOK, Row
  <2>2. now <= clock /\ clock <= now + MaxLag /\ clock <= MaxClock
    BY DEF LimiterInv, Timely, History
  <2> QED
    BY <2>1, <2>2, LimiterAssumption
<1>2. e \in Counters
  BY <1>1, FoundType, RotatedType DEF LimiterInv
<1>3. CASE entries[k] # NoEntry
  <2>1. Found(k, now) = entries[k] /\ entries[k] \in Counters /\ Recorded(admitted[k], entries[k], clock)
    BY <1>1, <1>3 DEF Found, LimiterInv, TypeOK, History, Counters
  <2>2. Ready(admitted[k], e, now, clock) /\ now < e.currStart + Window
    <3>1. now \in Nat
      BY <1>1
    <3> QED
      BY <1>1, <2>1, <3>1, RotatedReady
  <2> QED
    BY <1>1, <1>2, <2>2
<1>4. CASE entries[k] = NoEntry
  <2>1. e = [prevCount |-> 0, prevStart |-> 0, currCount |-> 0, currStart |-> now]
    BY <1>1, <1>4, LimiterAssumption DEF Found, Rotated
  <2>2. \A t \in 0..MaxClock : now <= t => admitted[k][t] = 0
    BY <1>1, <1>4, LimiterAssumption DEF History
  <2>3. Since(admitted[k], now) = 0 /\ Since(admitted[k], now + 1) = 0
    <3>1. now \in Int /\ now + 1 \in Int /\ \A t \in 0..MaxClock : now + 1 <= t => admitted[k][t] = 0
      BY <1>1, <2>2, LimiterAssumption
    <3> QED
      BY <1>1, <2>2, <3>1, SinceFacts
  <2>4. Since(admitted[k], now - MaxLag) \in Nat
    BY <1>1, SinceFacts, LimiterAssumption
  <2>5. Tallies(admitted[k], e, clock)
    <3>1. \A t \in 0..MaxClock : now + Window <= t => admitted[k][t] = 0
      BY <1>1, <2>2, LimiterAssumption
    <3> QED
      BY <1>1, <2>1, <2>3, <2>4, <3>1 DEF Tallies, Borrowed
  <2>6. Unused(admitted[k], e, now)
    BY <2>1, <2>3 DEF Unused
  <2>7. now < e.currStart + Window
    BY <1>1, <2>1, LimiterAssumption
  <2> QED
    BY <1>1, <1>2, <2>5, <2>6, <2>7 DEF Ready
<1> QED
  BY <1>3, <1>4

\* One call of allow.
LEMMA AllowRecords ==
    ASSUME Max > 0, LimiterInv, History, NEW h \in Handlers, Allow(h)
    PROVE  History'
<1> DEFINE k == serving[h].key
           now == serving[h].now
           e == Rotated(Found(k, now), now)
<1>1. /\ k \in Clients /\ admitted[k] \in Row /\ now \in 0..MaxClock
      /\ clock \in Nat /\ now <= clock /\ clock <= now + MaxLag
      /\ e \in Counters /\ now < e.currStart + Window
      /\ Ready(admitted[k], e, now, clock)
  <2>1. serving[h] # NoRequest
    BY DEF Allow
  <2> HIDE DEF e, now, k
  <2>2. k = serving[h].key /\ now = serving[h].now /\ e = Rotated(Found(k, now), now)
    BY DEF e, now, k
  <2> QED
    BY <2>1, <2>2, ServedReady
<1>2. \/ /\ Admits(e, now)
         /\ entries' = [entries EXCEPT ![k] = Counted(e)]
         /\ admitted' = [admitted EXCEPT ![k][now] = @ + 1]
      \/ /\ ~Admits(e, now)
         /\ entries' = [entries EXCEPT ![k] = e]
         /\ admitted' = admitted
  BY DEF Allow
<1>3. clock' = clock /\ entries \in [Clients -> Counters \cup {NoEntry}] /\ admitted \in [Clients -> Row]
  BY DEF Allow, LimiterInv, TypeOK, Counters, Row
<1>4. LimiterInv'
  BY AllowKeeps
<1> HIDE DEF e, now, k
<1>5. entries'[k] \in Counters /\ Recorded(admitted'[k], entries'[k], clock)
  <2>1. CASE Admits(e, now)
    <3>1. entries'[k] = Counted(e) /\ admitted'[k] = [admitted[k] EXCEPT ![now] = @ + 1]
      BY <1>1, <1>2, <1>3, <2>1
    <3>2. Counted(e) \in Counters
      BY <1>1, <2>1, AdmittedBelowMax, CountedType, LimiterAssumption
    <3>3. Recorded([admitted[k] EXCEPT ![now] = @ + 1], Counted(e), clock)
      BY <1>1, CountedRecorded
    <3> QED
      BY <3>1, <3>2, <3>3
  <2>2. CASE ~Admits(e, now)
    <3>1. entries'[k] = e /\ admitted'[k] = admitted[k]
      BY <1>1, <1>2, <1>3, <2>2
    <3>2. now \in Nat
      BY <1>1
    <3>3. Recorded(admitted[k], e, clock)
      BY <1>1, <2>2, <3>2, RefusedRecorded
    <3> QED
      BY <1>1, <3>1, <3>3
  <2> QED
    BY <2>1, <2>2
<1>6. \A i \in Clients : i # k => entries'[i] = entries[i] /\ admitted'[i] = admitted[i]
  BY <1>2, <1>3
<1>7. \A t \in 0..MaxClock : t # now => admitted'[k][t] = admitted[k][t]
  BY <1>1, <1>2, <1>3 DEF Row
<1>8. \A i \in Clients : \A t \in 0..MaxClock : clock' < t => admitted'[i][t] = 0
  BY <1>1, <1>3, <1>6, <1>7 DEF History
<1>9. \A i \in Clients : entries'[i] # NoEntry => Recorded(admitted'[i], entries'[i], clock')
  BY <1>3, <1>5, <1>6 DEF History
<1>10. \A i \in Clients : \A t \in 0..MaxClock :
          entries'[i] = NoEntry /\ clock' <= t + MaxLag => admitted'[i][t] = 0
  <2>1. entries'[k] # NoEntry
    BY <1>5, LimiterAssumption DEF Counters
  <2> QED
    BY <1>3, <1>6, <2>1 DEF History
<1>11. clock' <= MaxClock
  BY <1>3 DEF History
<1> QED
  BY <1>8, <1>9, <1>10, <1>11 DEF History, Recorded, Tallies, FirstCounts, Since

\* Every step keeps the counters true to the history.
LEMMA StepHistory ==
    ASSUME Max > 0, LimiterInv, History, [Next]_vars
    PROVE  History'
<1>0. /\ clock \in Nat /\ due \in Nat /\ entries \in [Clients -> Counters \cup {NoEntry}]
      /\ MaxClock \in Nat /\ MaxLag \in Nat /\ Window \in Nat /\ MaxLag < Window
  BY LimiterAssumption DEF LimiterInv, TypeOK, Counters
<1>1. CASE UNCHANGED vars
  BY <1>1 DEF vars, History
<1>2. ASSUME NEW h \in Handlers, NEW k \in Clients, Arrive(h, k) PROVE History'
  BY <1>2 DEF Arrive, History
<1>3. ASSUME NEW h \in Handlers, Allow(h) PROVE History'
  BY <1>3, AllowRecords
<1>4. CASE Cleanup
  <2>1. /\ clock' = clock /\ admitted' = admitted /\ due <= clock
        /\ entries' = [k \in Clients |-> IF Expired(entries[k], due) THEN NoEntry ELSE entries[k]]
    BY <1>0, <1>4 DEF Cleanup
  <2>2. \A k \in Clients : entries'[k] # NoEntry => entries'[k] = entries[k] /\ entries[k] # NoEntry
    BY <2>1
  <2>3. ASSUME NEW k \in Clients, entries'[k] = NoEntry, NEW t \in 0..MaxClock, clock <= t + MaxLag
        PROVE  admitted[k][t] = 0
    <3>1. CASE entries[k] = NoEntry
      BY <2>3, <3>1 DEF History
    <3>2. CASE entries[k] # NoEntry
      <4>1. Expired(entries[k], due)
        BY <2>1, <2>3, <3>2
      <4>2. entries[k].currStart + Window <= t
        BY <1>0, <2>1, <2>3, <3>2, <4>1 DEF Expired, Counters
      <4> QED
        BY <2>3, <3>2, <4>2 DEF History, Recorded, Tallies
    <3> QED
      BY <3>1, <3>2
  <2> QED
    BY <2>1, <2>2, <2>3 DEF History
<1>5. CASE Tick
  <2>1. clock' = clock + 1 /\ entries' = entries /\ admitted' = admitted /\ clock < MaxClock
    BY <1>5 DEF Tick
  <2>2. \A k \in Clients : entries[k] # NoEntry => Recorded(admitted[k], entries[k], clock + 1)
    BY <1>0 DEF History, Recorded, Tallies, Counters
  <2>3. clock + 1 <= MaxClock /\ \A t \in 0..MaxClock : clock + 1 < t => clock < t
    BY <1>0, <2>1
  <2>4. \A t \in 0..MaxClock : clock + 1 <= t + MaxLag => clock <= t + MaxLag
    BY <1>0
  <2> QED
    BY <2>1, <2>2, <2>3, <2>4 DEF History
<1> QED
  BY <1>1, <1>2, <1>3, <1>4, <1>5 DEF Next

\* What the limiter knows of the requests it let through.  A limiter that lets
\* nothing through need not know anything.
HistoryInv == LimiterInv /\ (Max > 0 => History)

\* The limiter starts without a history.
LEMMA InitHistory == Init => HistoryInv
<1> SUFFICES ASSUME Init PROVE History
  BY InitLimiter DEF HistoryInv
<1>1. clock <= MaxClock
  BY LimiterAssumption DEF Init
<1>2. \A k \in Clients : entries[k] = NoEntry /\ \A t \in 0..MaxClock : admitted[k][t] = 0
  BY DEF Init
<1> QED
  BY <1>1, <1>2 DEF History

\* The entries agree with the history in every behaviour.
LEMMA Historic == Spec => []HistoryInv
<1>1. HistoryInv /\ [Next]_vars => HistoryInv'
  BY StepLimiter, StepHistory DEF HistoryInv
<1> QED
  BY <1>1, InitHistory, PTL DEF Spec

\* What was let through in a span of time, and since its beginning.
LEMMA PassedSince ==
    ASSUME HistoryInv, NEW k \in Clients, NEW a \in Int, NEW b \in Int
    PROVE  /\ Passed(k, a, b) \in Nat
           /\ Passed(k, a, b) <= Since(admitted[k], a)
           /\ Max > 0 /\ clock <= b => Passed(k, a, b) = Since(admitted[k], a)
<1> DEFINE row == admitted[k]
           S == {t \in 0..MaxClock : a <= t /\ t <= MaxClock}
           T == {t \in 0..MaxClock : a <= t /\ t <= b}
<1>1. IsFiniteSet(S) /\ T \in SUBSET S /\ \A t \in S : row[t] \in Nat
  BY Reaches, LimiterAssumption DEF HistoryInv, LimiterInv, TypeOK
<1>2. Passed(k, a, b) = SumFunctionOnSet(row, T)
  BY DEF Passed, SumFunctionOnSet
<1>3. ASSUME Max > 0, clock <= b PROVE \A t \in S \ T : row[t] = 0
  BY <1>3 DEF HistoryInv, LimiterInv, TypeOK, History
<1> HIDE DEF T, S, row
<1>4. SumFunctionOnSet(row, T) \in Nat /\ SumFunctionOnSet(row, T) <= SumFunctionOnSet(row, S)
  BY <1>1, SumNat
<1>5. (\A t \in S \ T : row[t] = 0) => SumFunctionOnSet(row, S) = SumFunctionOnSet(row, T)
  BY <1>1, SumZeros
<1>6. Since(row, a) = SumFunctionOnSet(row, S)
  BY DEF Since, S
<1> QED
  BY <1>2, <1>3, <1>4, <1>5, <1>6 DEF row

\* Fewer than twice Max requests pass in a window X-RateLimit-Reset tells of,
\* whatever the limit, the window and the interleaving (ratelimit.go:61-91).
THEOREM WindowBounded == ASSUME Max > 0 PROVE Spec => []WindowBound
<1>1. HistoryInv => WindowBound
  <2> SUFFICES ASSUME HistoryInv, NEW k \in Clients, entries[k] # NoEntry
               PROVE  Passed(k, entries[k].currStart, entries[k].currStart + Window - 1) < 2 * Max
    BY DEF WindowBound
  <2> DEFINE e == entries[k]
  <2>1. e \in Counters
    BY DEF HistoryInv, LimiterInv, TypeOK, Counters
  <2>2. Since(admitted[k], e.currStart) <= e.currCount + Borrowed(e)
    BY DEF HistoryInv, History, Recorded, Tallies
  <2>3. e.currCount + Borrowed(e) < 2 * Max
    BY <2>1, LimiterAssumption DEF Borrowed, Counters
  <2>4. /\ Passed(k, e.currStart, e.currStart + Window - 1) \in Nat
        /\ Passed(k, e.currStart, e.currStart + Window - 1) <= Since(admitted[k], e.currStart)
    BY <2>1, PassedSince, LimiterAssumption DEF Counters
  <2>5. Since(admitted[k], e.currStart) \in Nat /\ e.currCount + Borrowed(e) \in Nat
    <3>1. admitted[k] \in Row /\ e.currStart \in Int
      BY <2>1 DEF HistoryInv, LimiterInv, TypeOK, Counters, Row
    <3> QED
      BY <2>1, <3>1, SinceFacts DEF Borrowed, Counters
  <2> QED
    BY <2>2, <2>3, <2>4, <2>5, LimiterAssumption
<1> QED
  BY <1>1, Historic, PTL

\* An entry that refuses a request counts Max requests, each for a window and
\* what the request is late.
LEMMA RefusalCounts ==
    ASSUME NEW e \in Counters, NEW now \in Nat, ~Admits(e, now)
    PROVE  Max * Window <= (e.prevCount + e.currCount) * (Window + Late(e, now))
<1>1. /\ e.prevCount \in Nat /\ e.currCount \in Nat /\ e.currStart \in Nat
      /\ Max \in Nat /\ Window \in Nat /\ Window > 0 /\ Late(e, now) \in Nat
  BY LimiterAssumption DEF Counters, Late
<1>2. PICK d \in Nat : Overlap(e, now) + d = Window + Late(e, now)
  <2>1. Overlap(e, now) \in Nat /\ Overlap(e, now) <= Window + Late(e, now)
    BY <1>1, OverlapNat DEF Overlap, Late
  <2> DEFINE d == Window + Late(e, now) - Overlap(e, now)
  <2>2. d \in Nat /\ Overlap(e, now) + d = Window + Late(e, now)
    BY <1>1, <2>1
  <2> QED
    BY <2>2
<1>3. Max * Window <= e.prevCount * Overlap(e, now) + e.currCount * Window
  <2>1. e.prevCount * Overlap(e, now) \in Nat /\ e.currCount * Window \in Nat /\ Max * Window \in Nat
    <3>1. \A m, n \in Nat : m * n \in Nat
      OBVIOUS
    <3> QED
      BY <1>1, <3>1, OverlapNat
  <2> QED
    BY <2>1 DEF Admits, Effective
<1>4. \A p, c, v, l, o, x, t \in Nat : o + x = v + l /\ t <= p * o + c * v => t <= (p + c) * (v + l)
  <2> SUFFICES ASSUME NEW p \in Nat, NEW c \in Nat, NEW v \in Nat, NEW l \in Nat,
                      NEW o \in Nat, NEW x \in Nat, NEW t \in Nat,
                      o + x = v + l, t <= p * o + c * v
               PROVE  t <= (p + c) * (v + l)
    OBVIOUS
  <2>1. (p + c) * (v + l) = p * (v + l) + c * v + c * l
    OBVIOUS
  <2>2. p * (v + l) = p * o + p * x
    <3>1. p * (o + x) = p * o + p * x
      OBVIOUS
    <3> QED
      BY <3>1
  <2>3. p * x \in Nat /\ c * l \in Nat /\ p * o \in Nat /\ c * v \in Nat
    OBVIOUS
  <2> QED
    BY <2>1, <2>2, <2>3
<1>5. Max * Window \in Nat
  BY <1>1
<1> QED
  BY <1>1, <1>2, <1>3, <1>4, <1>5, OverlapNat

\* What was let through outweighs what the entry counts.
LEMMA Outweighs ==
    ASSUME NEW n \in Nat, NEW s \in Nat, NEW v \in Nat, NEW t \in Nat, n <= s, t <= n * v
    PROVE  t <= s * v
<1>1. PICK d \in Nat : s = n + d
  OBVIOUS
<1>2. s * v = n * v + d * v /\ d * v \in Nat /\ n * v \in Nat
  BY <1>1
<1> QED
  BY <1>2

\* One call of allow refuses only who made enough requests.
LEMMA AllowEarned ==
    ASSUME HistoryInv, NEW h \in Handlers, Allow(h),
           NEW k, k = serving[h].key, NEW now, now = serving[h].now,
           NEW late, late = Late(entries'[k], now)
    PROVE  \/ admitted' # admitted
           \/ /\ late <= MaxLag
              /\ Passed(k, now - 3 * Window - MaxLag, clock) * (Window + late) >= Max * Window
<1> DEFINE e == Rotated(Found(k, now), now)
           a == now - 3 * Window - MaxLag
<1>1. k \in Clients /\ now \in Nat /\ clock \in Nat /\ a \in Int /\ admitted[k] \in Row
      /\ Window \in Nat /\ Max \in Nat /\ MaxLag \in Nat
  BY LimiterAssumption DEF Allow, HistoryInv, LimiterInv, TypeOK, Row
<1>2. late \in Nat /\ late <= MaxLag
  <2>1. entries'[k] # NoEntry /\ entries'[k] \in Counters
    <3>1. e \in Counters /\ (Admits(e, now) => Counted(e) \in Counters)
      BY <1>1, FoundType, RotatedType, AdmittedBelowMax, CountedType DEF HistoryInv, LimiterInv
    <3>2. NoEntry \notin Counters
      BY LimiterAssumption DEF Counters
    <3>3. \/ entries' = [entries EXCEPT ![k] = e]
          \/ Admits(e, now) /\ entries' = [entries EXCEPT ![k] = Counted(e)]
      BY DEF Allow
    <3>4. entries \in [Clients -> Counters \cup {NoEntry}]
      BY DEF HistoryInv, LimiterInv, TypeOK, Counters
    <3> HIDE DEF e
    <3> QED
      BY <1>1, <3>1, <3>2, <3>3, <3>4
  <2>2. entries'[k].currStart <= clock /\ clock <= now + MaxLag
    <3>1. LimiterInv' /\ clock' = clock
      BY AllowKeeps DEF HistoryInv, Allow
    <3> QED
      BY <1>1, <2>1, <3>1 DEF Allow, HistoryInv, LimiterInv, Timely
  <2> QED
    BY <1>1, <2>1, <2>2 DEF Late, Counters
<1>3. Passed(k, a, clock) \in Nat
  BY <1>1, PassedSince
<1>4. CASE ~(Max > 0)
  <2>1. Max * Window = 0
    BY <1>1, <1>4
  <2>2. \A m, n \in Nat : m * n \in Nat
    OBVIOUS
  <2>3. Passed(k, a, clock) * (Window + late) >= 0
    BY <1>1, <1>2, <1>3, <2>2
  <2> QED
    BY <1>2, <2>1, <2>3
<1>5. CASE Max > 0
  <2>1. /\ now \in 0..MaxClock
        /\ e \in Counters /\ now < e.currStart + Window
        /\ Ready(admitted[k], e, now, clock)
    <3>1. serving[h] # NoRequest /\ History /\ LimiterInv
      BY <1>5 DEF Allow, HistoryInv
    <3>2. e = Rotated(Found(k, now), now)
      OBVIOUS
    <3> HIDE DEF e
    <3> QED
      BY <3>1, <3>2, ServedReady
  <2>2. CASE Admits(e, now)
    <3>1. admitted' = [admitted EXCEPT ![k][now] = @ + 1]
      BY <2>2 DEF Allow
    <3>2. admitted \in [Clients -> Row]
      BY DEF HistoryInv, LimiterInv, TypeOK, Row
    <3>3. admitted'[k][now] = admitted[k][now] + 1 /\ admitted[k][now] \in Nat
      BY <1>1, <2>1, <3>1, <3>2 DEF Row
    <3> QED
      BY <3>3
  <2>3. CASE ~Admits(e, now)
    <3>1. entries'[k] = e
      <4>1. entries' = [entries EXCEPT ![k] = e] /\ entries \in [Clients -> Counters \cup {NoEntry}]
        BY <2>3 DEF Allow, HistoryInv, LimiterInv, TypeOK, Counters
      <4> QED
        BY <1>1, <4>1
    <3> HIDE DEF e
    <3>2. Max * Window <= (e.prevCount + e.currCount) * (Window + late)
      BY <1>1, <2>1, <2>3, <3>1, RefusalCounts
    <3>3. /\ e.currCount <= Since(admitted[k], e.currStart - MaxLag)
          /\ e.prevCount > 0 =>
                /\ e.prevStart <= e.currStart /\ e.currStart < e.prevStart + 2 * Window
                /\ e.prevCount + e.currCount <= Since(admitted[k], e.prevStart - MaxLag)
      BY <2>1 DEF Ready, Tallies
    <3>4. e.prevCount \in Nat /\ e.currCount \in Nat /\ e.currStart \in Nat /\ e.prevStart \in Nat
      BY <2>1 DEF Counters
    <3>5. \A b \in Int : Since(admitted[k], b) \in Nat /\ (a <= b => Since(admitted[k], b) <= Since(admitted[k], a))
      BY <1>1, SinceFacts
    <3>6. e.prevCount + e.currCount <= Since(admitted[k], a)
      <4>1. CASE e.prevCount > 0
        <5>1. a <= e.prevStart - MaxLag
          BY <1>1, <2>1, <3>3, <3>4, <4>1
        <5> HIDE DEF a
        <5> QED
          BY <1>1, <3>3, <3>4, <3>5, <4>1, <5>1
      <4>2. CASE ~(e.prevCount > 0)
        <5>1. a <= e.currStart - MaxLag
          BY <1>1, <2>1, <3>4
        <5> HIDE DEF a
        <5> QED
          BY <1>1, <3>3, <3>4, <3>5, <4>2, <5>1
      <4> QED
        BY <4>1, <4>2
    <3>7. Passed(k, a, clock) = Since(admitted[k], a)
      BY <1>1, <1>5, PassedSince
    <3>8. Max * Window <= Passed(k, a, clock) * (Window + late)
      <4>1. /\ e.prevCount + e.currCount \in Nat /\ Window + late \in Nat /\ Max * Window \in Nat
            /\ e.prevCount + e.currCount <= Passed(k, a, clock)
        BY <1>1, <1>2, <3>4, <3>6, <3>7
      <4> HIDE DEF a
      <4> QED
        BY <1>3, <3>2, <4>1, Outweighs
    <3>9. Passed(k, a, clock) * (Window + late) \in Nat /\ Max * Window \in Nat
      <4>1. \A m, n \in Nat : m * n \in Nat
        OBVIOUS
      <4> HIDE DEF a
      <4> QED
        BY <1>1, <1>2, <1>3, <4>1
    <3> QED
      BY <1>2, <3>8, <3>9
  <2> QED
    BY <2>2, <2>3
<1> QED
  BY <1>4, <1>5

\* A request is refused only if Max requests of its client were let through in
\* the last three windows, and one that was overtaken by a later window only if
\* more than half of Max were (ratelimit.go:61-91).
THEOREM RefusalsEarned == Spec => RefusalEarned
<1>1. HistoryInv /\ [Next]_vars => [\A h \in Handlers : Earned(h)]_vars
  <2> SUFFICES ASSUME HistoryInv, Next, NEW h \in Handlers, serving[h] # NoRequest,
                      serving'[h] # serving[h],
                      NEW k, k = serving[h].key, NEW now, now = serving[h].now,
                      NEW late, late = Late(entries'[k], now)
               PROVE  \/ admitted' # admitted
                      \/ /\ late <= MaxLag
                         /\ Passed(k, now - 3 * Window - MaxLag, clock) * (Window + late)
                               >= Max * Window
    BY DEF Earned
  <2>1. Allow(h)
    BY DEF Next, Arrive, Allow, Cleanup, Tick, HistoryInv, LimiterInv, TypeOK
  <2> QED
    BY <2>1, AllowEarned
<1> QED
  BY <1>1, Historic, PTL DEF Spec, RefusalEarned

\* A late request weighs less than twice: more than half of Max is what Earned
\* asks of it.
LEMMA LateHalf ==
    ASSUME Max > 0, NEW passed \in Nat, NEW late \in Nat, late <= MaxLag,
           passed * (Window + late) >= Max * Window
    PROVE  2 * passed > Max
<1>1. Window \in Nat /\ Max \in Nat /\ MaxLag \in Nat /\ MaxLag < Window
  BY LimiterAssumption
<1> SUFFICES ASSUME 2 * passed <= Max PROVE FALSE
  BY <1>1
<1>2. PICK d \in Nat : Window = late + 1 + d
  BY <1>1
<1>3. PICK m \in Nat : Max = 2 * passed + m
  BY <1>1
<1>4. Max * Window = passed * Window + passed * Window + m * Window
  BY <1>1, <1>3
<1>5. passed * (Window + late) = passed * Window + passed * late
  BY <1>1
<1>6. passed * Window = passed * late + passed + passed * d
  BY <1>2
<1>7. passed * Window \in Nat /\ passed * late \in Nat /\ passed * d \in Nat /\ m * Window \in Nat
  BY <1>1
<1>8. passed = 0 /\ m * Window = 0
  <2>1. \A w, l, x, n \in Nat : w = l + passed + x /\ w + l >= w + w + n => passed = 0 /\ n = 0
    OBVIOUS
  <2>2. passed * Window + passed * late >= passed * Window + passed * Window + m * Window
    BY <1>4, <1>5
  <2> QED
    BY <1>6, <1>7, <2>1, <2>2
<1>9. m > 0
  BY <1>3, <1>8
<1>10. PICK n \in Nat : m = n + 1
  BY <1>9
<1>11. m * Window = n * Window + Window /\ n * Window \in Nat
  BY <1>1, <1>10
<1> QED
  BY <1>1, <1>8, <1>11
=============================================================================
