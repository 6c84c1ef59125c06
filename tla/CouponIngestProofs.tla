------------------------- MODULE CouponIngestProofs -------------------------
(***************************************************************************)
(* What TLAPS proves of CouponIngest, for any number of files, any         *)
(* contents, any answers of the bloom filters and any number of runs: the  *)
(* two passes find exactly the shared codes, and the tool implements       *)
(* CouponImport.                                                           *)
(***************************************************************************)
EXTENDS CouponIngest, TLAPS

\* The legal codes among the lines of f that were read.
CodesRead(f) == {files[f][i] : i \in 1..line[f]} \cap Eligible

\* A goroutine never reads past its file, and is done only at its end.
Streaming ==
    stage \in {"pass1", "pass2"} =>
        \A f \in Files : /\ line[f] <= Len(files[f])
                         /\ worker[f] = "done" => line[f] = Len(files[f])

\* During the first pass the filter of a file holds what was read of it; during
\* the second, all of it.
FiltersExact ==
    /\ stage = "pass1" => \A f \in Files : filters[f] = CodesRead(f)
    /\ stage = "pass2" => \A f \in Files : filters[f] = CodesOf(f)
    /\ stage \in {"idle", "stat"} => \A f \in Files : filters[f] = {}

\* During the second pass, the candidates of a file stand in it, and every code
\* read that is in another file is one of them.
CandidatesExact ==
    /\ stage \in {"idle", "stat", "pass1"} => \A f \in Files : candidates[f] = {}
    /\ stage = "pass2" =>
        \A f \in Files :
            /\ candidates[f] \subseteq CodesOf(f)
            /\ \A c \in CodesRead(f) :
                  (\E g \in Files \ {f} : c \in CodesOf(g)) => c \in candidates[f]

ScanInv == TypeOK /\ Streaming /\ FiltersExact /\ CandidatesExact /\ ScanIsExact

-----------------------------------------------------------------------------
\* The lines of a file are codes.
LEMMA LinesAreCodes ==
    ASSUME TypeOK
    PROVE  \A f \in Files : /\ files[f] \in Seq(Codes)
                            /\ Len(files[f]) \in Nat
                            /\ DOMAIN files[f] = 1..Len(files[f])
                            /\ \A i \in 1..Len(files[f]) : files[f][i] \in Codes
BY IngestAssumption DEF TypeOK

\* A file read to its end has been read completely.
LEMMA ReadToTheEnd ==
    ASSUME TypeOK, NEW f \in Files, line[f] = Len(files[f])
    PROVE  CodesRead(f) = CodesOf(f)
BY LinesAreCodes DEF CodesRead, CodesOf, ToSet

\* The step of a goroutine that reads a line adds its code to those read.
LEMMA ReadOneMore ==
    ASSUME TypeOK, NEW f \in Files, ReadLine(f), UNCHANGED files
    PROVE  /\ CodesRead(f)' = CodesRead(f) \cup ({NextCode(f)} \cap Eligible)
           /\ \A g \in Files \ {f} : CodesRead(g)' = CodesRead(g)
           /\ line' \in [Files -> Nat]
           /\ line[f]' = line[f] + 1 /\ line[f] + 1 <= Len(files[f])
           /\ \A g \in Files \ {f} : line[g]' = line[g]
           /\ NextCode(f) \in Codes
           /\ NextCode(f) \in Eligible => NextCode(f) \in CodesOf(f)
<1>1. line \in [Files -> Nat] /\ line[f] \in Nat /\ Len(files[f]) \in Nat
  BY LinesAreCodes DEF TypeOK
<1>2. line[f] < Len(files[f]) /\ line' = [line EXCEPT ![f] = @ + 1] /\ files' = files
  BY DEF ReadLine
<1>3. line' \in [Files -> Nat] /\ line'[f] = line[f] + 1 /\ \A g \in Files \ {f} : line'[g] = line[g]
  BY <1>1, <1>2
<1>4. 1..(line[f] + 1) = 1..line[f] \cup {line[f] + 1}
  BY <1>1
<1>5. CodesRead(f)' = CodesRead(f) \cup ({NextCode(f)} \cap Eligible)
  BY <1>2, <1>3, <1>4 DEF CodesRead, NextCode
<1>6. \A g \in Files \ {f} : CodesRead(g)' = CodesRead(g)
  BY <1>2, <1>3 DEF CodesRead
<1>7. line[f] + 1 \in 1..Len(files[f])
  BY <1>1, <1>2
<1>8. NextCode(f) \in Codes /\ (NextCode(f) \in Eligible => NextCode(f) \in CodesOf(f))
  BY <1>7, LinesAreCodes DEF NextCode, CodesOf, ToSet
<1> QED
  BY <1>1, <1>2, <1>3, <1>5, <1>6, <1>7, <1>8

-----------------------------------------------------------------------------
\* The row of a code is a row of the table.
LEMMA RowForType == rowFor \in [Codes -> Rows] /\ \A c \in Codes : rowFor[c] \in Rows
BY IngestAssumption

\* An upsert keeps the type of the table and changes the row of one code.
LEMMA WrittenType ==
    ASSUME TypeOK, NEW c \in Codes
    PROVE  /\ Written(c) \in [Codes -> Rows]
           /\ Written(c)[c] = rowFor[c]
           /\ \A d \in Codes \ {c} : Written(c)[d] = coupons[d]
<1>1. coupons \in [Codes -> Rows] /\ rowFor[c] \in Rows
  BY RowForType DEF TypeOK
<1> QED
  BY <1>1 DEF Written

\* A run that returns leaves no locals behind, and they are well typed.
LEMMA ReturnType ==
    ASSUME TypeOK, NEW result \in {"ok", "failed"}, Return(result)
    PROVE  /\ stage' = "idle"
           /\ outcome' = result
           /\ interrupted' \in BOOLEAN
           /\ worker' \in [Files -> {"running", "done", "failed"}]
           /\ line' \in [Files -> Nat]
           /\ filters' \in [Files -> SUBSET Eligible]
           /\ candidates' \in [Files -> SUBSET Eligible]
           /\ todo' \subseteq Eligible
BY DEF Return

\* What is valid after the second pass is a set of legal codes.
LEMMA ValidEligible == ASSUME TypeOK PROVE Valid \subseteq Eligible
BY DEF Valid, TypeOK

\* The tool starts well typed.
LEMMA InitType == Init => TypeOK
<1> SUFFICES ASSUME Init PROVE TypeOK
  OBVIOUS
<1>1. coupons \in [Codes -> Rows] /\ runs \in 0..MaxRuns
  BY IngestAssumption DEF Init
<1>2. line \in [Files -> Nat] /\ worker \in [Files -> {"running", "done", "failed"}]
  BY DEF Init
<1>3. filters \in [Files -> SUBSET Eligible] /\ candidates \in [Files -> SUBSET Eligible]
  BY DEF Init
<1> QED
  BY <1>1, <1>2, <1>3 DEF Init, TypeOK

\* Every step keeps the types.
LEMMA StepType ==
    ASSUME TypeOK, [Next]_vars
    PROVE  TypeOK'
<1>u. CASE UNCHANGED vars
  BY <1>u DEF TypeOK, vars, scan
<1>start. CASE Start
  <2>1. runs' \in 0..MaxRuns
    BY <1>start, IngestAssumption DEF Start, TypeOK
  <2> QED
    BY <1>start, <2>1 DEF Start, TypeOK, scan
<1>stat. CASE StatFiles
  <2>1. CASE Return("failed")
    BY <1>stat, <2>1, ReturnType DEF StatFiles, TypeOK
  <2>2. CASE stage' = "pass1" /\ Spawn /\ UNCHANGED <<outcome, interrupted, filters, candidates, todo>>
    BY <1>stat, <2>2 DEF StatFiles, Spawn, TypeOK
  <2> QED
    BY <1>stat, <2>1, <2>2 DEF StatFiles
<1>add. ASSUME NEW f \in Files, AddToFilter(f) PROVE TypeOK'
  <2>1. line' \in [Files -> Nat]
    BY <1>add, ReadOneMore DEF AddToFilter
  <2>2. filters' \in [Files -> SUBSET Eligible]
    BY <1>add DEF AddToFilter, TypeOK
  <2> QED
    BY <1>add, <2>1, <2>2 DEF AddToFilter, TypeOK
<1>test. ASSUME NEW f \in Files, TestInFilters(f) PROVE TypeOK'
  <2>1. line' \in [Files -> Nat]
    BY <1>test, ReadOneMore DEF TestInFilters
  <2>2. candidates' \in [Files -> SUBSET Eligible]
    BY <1>test DEF TestInFilters, TypeOK
  <2> QED
    BY <1>test, <2>1, <2>2 DEF TestInFilters, TypeOK
<1>end. ASSUME NEW f \in Files, EndOfFile(f) PROVE TypeOK'
  BY <1>end DEF EndOfFile, TypeOK
<1>fail. ASSUME NEW f \in Files, StreamFails(f) PROVE TypeOK'
  BY <1>fail DEF StreamFails, TypeOK
<1>passfails. CASE PassFails
  BY <1>passfails, ReturnType DEF PassFails, TypeOK
<1>pass1. CASE EndPass1
  BY <1>pass1 DEF EndPass1, Spawn, TypeOK
<1>pass2. CASE EndPass2
  BY <1>pass2, ValidEligible DEF EndPass2, TypeOK, scan
<1>write. ASSUME NEW c \in Codes, WriteCoupon(c) PROVE TypeOK'
  BY <1>write, WrittenType DEF WriteCoupon, TypeOK, scan
<1>writefails. ASSUME NEW c \in Codes, WriteFails(c) PROVE TypeOK'
  <2>1. coupons' \in [Codes -> Rows]
    BY <1>writefails, WrittenType DEF WriteFails, TypeOK
  <2> QED
    BY <1>writefails, <2>1, ReturnType DEF WriteFails, TypeOK
<1>finish. CASE Finish
  BY <1>finish, ReturnType DEF Finish, TypeOK
<1>interrupt. CASE Interrupt
  BY <1>interrupt DEF Interrupt, TypeOK, scan
<1>kill. CASE Kill
  <2>1. coupons' \in [Codes -> Rows]
    BY <1>kill, WrittenType, IngestAssumption DEF Kill, TypeOK
  <2> QED
    BY <1>kill, <2>1, ReturnType DEF Kill, TypeOK
<1> QED
  BY <1>u, <1>start, <1>stat, <1>add, <1>test, <1>end, <1>fail, <1>passfails, <1>pass1,
     <1>pass2, <1>write, <1>writefails, <1>finish, <1>interrupt, <1>kill DEF Next, Work, Stream

-----------------------------------------------------------------------------
\* Nothing has been scanned at the start.
LEMMA InitScan == Init => ScanInv
<1> SUFFICES ASSUME Init PROVE ScanInv
  OBVIOUS
<1>1. stage = "idle" /\ filters = [f \in Files |-> {}] /\ candidates = [f \in Files |-> {}]
  BY DEF Init
<1> QED
  BY <1>1, InitType DEF ScanInv, Streaming, FiltersExact, CandidatesExact, ScanIsExact

\* The files stay as they are, and so does what is shared between them.
LEMMA FilesKept ==
    ASSUME [Next]_vars
    PROVE  files' = files /\ Shared' = Shared /\ \A f \in Files : CodesOf(f)' = CodesOf(f)
<1>1. files' = files
  BY DEF Next, vars, Start, Work, StatFiles, Stream, AddToFilter, TestInFilters, EndOfFile, StreamFails,
     PassFails, EndPass1, EndPass2, WriteCoupon, WriteFails, Finish, Interrupt, Kill
<1> QED
  BY <1>1 DEF Shared, CodesOf

\* The merged masks are exact once every file was read twice: two bits mean two
\* files that hold the code, and each of the two was told of the other.
LEMMA ValidIsShared ==
    ASSUME ScanInv, stage = "pass2", Joined
    PROVE  Valid = Shared
<1>1. \A f \in Files : CodesRead(f) = CodesOf(f)
  BY ReadToTheEnd DEF ScanInv, Streaming, Joined
<1>2. \A f \in Files : candidates[f] \subseteq CodesOf(f)
  BY DEF ScanInv, CandidatesExact
<1>3. \A f, g \in Files, c \in Codes :
        f # g /\ c \in CodesOf(f) /\ c \in CodesOf(g) => c \in candidates[f] /\ c \in candidates[g]
  BY <1>1 DEF ScanInv, CandidatesExact
<1> QED
  BY <1>2, <1>3 DEF Valid, Shared

-----------------------------------------------------------------------------
\* A line read in the first pass goes into the filter of its file.
LEMMA AddKeeps ==
    ASSUME ScanInv, NEW f \in Files, AddToFilter(f)
    PROVE  Streaming' /\ FiltersExact' /\ CandidatesExact' /\ ScanIsExact'
<1>1. /\ stage = "pass1" /\ stage' = "pass1" /\ files' = files /\ worker' = worker
      /\ candidates' = candidates /\ ReadLine(f) /\ TypeOK
  BY DEF AddToFilter, ScanInv
<1>2. /\ CodesRead(f)' = CodesRead(f) \cup ({NextCode(f)} \cap Eligible)
      /\ \A g \in Files \ {f} : CodesRead(g)' = CodesRead(g)
      /\ line[f]' = line[f] + 1 /\ line[f] + 1 <= Len(files[f])
      /\ \A g \in Files \ {f} : line[g]' = line[g]
  BY <1>1, ReadOneMore
<1>3. Streaming'
  <2>1. worker[f] # "done"
    BY <1>1 DEF ReadLine
  <2> QED
    BY <1>1, <1>2, <2>1 DEF Streaming, ScanInv
<1>4. FiltersExact'
  <2>1. filters' = [filters EXCEPT ![f] = @ \cup ({NextCode(f)} \cap Eligible)]
    BY DEF AddToFilter
  <2>2. \A g \in Files : filters'[g] = CodesRead(g)'
    BY <1>1, <1>2, <2>1 DEF ScanInv, FiltersExact, TypeOK
  <2> QED
    BY <1>1, <2>2 DEF FiltersExact
<1>5. CandidatesExact'
  BY <1>1 DEF CandidatesExact, ScanInv
<1>6. ScanIsExact'
  BY <1>1 DEF ScanIsExact
<1> QED
  BY <1>3, <1>4, <1>5, <1>6

\* A line read in the second pass becomes a candidate if another filter has it.
LEMMA TestKeeps ==
    ASSUME ScanInv, NEW f \in Files, TestInFilters(f)
    PROVE  Streaming' /\ FiltersExact' /\ CandidatesExact' /\ ScanIsExact'
<1>1. /\ stage = "pass2" /\ stage' = "pass2" /\ files' = files /\ worker' = worker
      /\ filters' = filters /\ ReadLine(f) /\ TypeOK
  BY DEF TestInFilters, ScanInv
<1>2. /\ CodesRead(f)' = CodesRead(f) \cup ({NextCode(f)} \cap Eligible)
      /\ \A g \in Files \ {f} : CodesRead(g)' = CodesRead(g)
      /\ line[f]' = line[f] + 1 /\ line[f] + 1 <= Len(files[f])
      /\ \A g \in Files \ {f} : line[g]' = line[g]
      /\ NextCode(f) \in Eligible => NextCode(f) \in CodesOf(f)
  BY <1>1, ReadOneMore
<1>3. Streaming'
  <2>1. worker[f] # "done"
    BY <1>1 DEF ReadLine
  <2> QED
    BY <1>1, <1>2, <2>1 DEF Streaming, ScanInv
<1>4. \A g \in Files : CodesOf(g)' = CodesOf(g)
  BY <1>1 DEF CodesOf
<1>5. FiltersExact'
  BY <1>1, <1>4 DEF FiltersExact, ScanInv
<1>6. CandidatesExact'
  <2>1. \A g \in Files :
          /\ candidates[g] \subseteq CodesOf(g)
          /\ \A c \in CodesRead(g) : (\E h \in Files \ {g} : c \in CodesOf(h)) => c \in candidates[g]
    BY <1>1 DEF ScanInv, CandidatesExact
  <2>2. \A g \in Files \ {f} : candidates'[g] = candidates[g]
    BY <1>1 DEF TestInFilters, TypeOK
  <2>3. candidates[f] \subseteq candidates'[f] /\ candidates'[f] \subseteq CodesOf(f)
    BY <1>1, <1>2, <2>1 DEF TestInFilters, TypeOK
  <2>4. NextCode(f) \in Eligible /\ (\E h \in Files \ {f} : NextCode(f) \in CodesOf(h))
          => NextCode(f) \in candidates'[f]
    BY <1>1 DEF TestInFilters, InAnother, TypeOK, ScanInv, FiltersExact
  <2>5. \A c \in CodesRead(f)' : (\E h \in Files \ {f} : c \in CodesOf(h)) => c \in candidates'[f]
    BY <1>2, <2>1, <2>3, <2>4
  <2>6. \A g \in Files :
          /\ candidates'[g] \subseteq CodesOf(g)'
          /\ \A c \in CodesRead(g)' : (\E h \in Files \ {g} : c \in CodesOf(h)') => c \in candidates'[g]
    BY <1>2, <1>4, <2>1, <2>2, <2>3, <2>5
  <2> QED
    BY <1>1, <2>6 DEF CandidatesExact
<1>7. ScanIsExact'
  BY <1>1 DEF ScanIsExact
<1> QED
  BY <1>3, <1>5, <1>6, <1>7

\* Every step keeps the scan exact.
LEMMA StepScan ==
    ASSUME ScanInv, [Next]_vars
    PROVE  ScanInv'
<1>t. TypeOK /\ TypeOK'
  BY StepType DEF ScanInv
<1> SUFFICES Streaming' /\ FiltersExact' /\ CandidatesExact' /\ ScanIsExact'
  BY <1>t DEF ScanInv
<1>idle. ASSUME NEW result, Return(result)
         PROVE  Streaming' /\ FiltersExact' /\ CandidatesExact' /\ ScanIsExact'
  BY <1>idle DEF Return, Streaming, FiltersExact, CandidatesExact, ScanIsExact
<1>u. CASE UNCHANGED vars
  <2>1. /\ stage' = stage /\ line' = line /\ worker' = worker /\ files' = files
        /\ filters' = filters /\ candidates' = candidates /\ todo' = todo /\ coupons' = coupons
    BY <1>u DEF vars, scan
  <2>2. \A f \in Files : CodesRead(f)' = CodesRead(f) /\ CodesOf(f)' = CodesOf(f)
    BY <2>1 DEF CodesRead, CodesOf
  <2>3. Shared' = Shared
    BY FilesKept
  <2>4. Streaming' /\ ScanIsExact'
    BY <2>1, <2>3 DEF ScanInv, Streaming, ScanIsExact
  <2>5. FiltersExact'
    BY <2>1, <2>2 DEF ScanInv, FiltersExact
  <2>6. CandidatesExact'
    BY <2>1, <2>2 DEF ScanInv, CandidatesExact
  <2> QED
    BY <2>4, <2>5, <2>6
<1>start. CASE Start
  BY <1>start DEF Start, scan, ScanInv, Streaming, FiltersExact, CandidatesExact, ScanIsExact
<1>stat. CASE StatFiles
  <2>1. CASE Return("failed")
    BY <2>1, <1>idle
  <2>2. CASE stage' = "pass1" /\ Spawn /\ UNCHANGED <<outcome, interrupted, filters, candidates, todo>>
    <3>1. stage = "stat" /\ files' = files
      BY <1>stat DEF StatFiles
    <3>2. \A f \in Files : line'[f] = 0 /\ worker'[f] = "running" /\ 0 <= Len(files[f])
      BY <2>2, <1>t, LinesAreCodes DEF Spawn
    <3>3. \A f \in Files : CodesRead(f)' = {}
      BY <3>1, <3>2 DEF CodesRead
    <3>4. Streaming'
      BY <3>1, <3>2 DEF Streaming
    <3> QED
      BY <2>2, <3>1, <3>3, <3>4 DEF ScanInv, FiltersExact, CandidatesExact, ScanIsExact
  <2> QED
    BY <1>stat, <2>1, <2>2 DEF StatFiles
<1>add. ASSUME NEW f \in Files, AddToFilter(f)
        PROVE  Streaming' /\ FiltersExact' /\ CandidatesExact' /\ ScanIsExact'
  BY <1>add, AddKeeps
<1>test. ASSUME NEW f \in Files, TestInFilters(f)
         PROVE  Streaming' /\ FiltersExact' /\ CandidatesExact' /\ ScanIsExact'
  BY <1>test, TestKeeps
<1>end. ASSUME NEW f \in Files, EndOfFile(f) \/ StreamFails(f)
        PROVE  Streaming' /\ FiltersExact' /\ CandidatesExact' /\ ScanIsExact'
  <2>1. /\ stage \in {"pass1", "pass2"} /\ stage' = stage /\ files' = files /\ line' = line
        /\ filters' = filters /\ candidates' = candidates
    BY <1>end DEF EndOfFile, StreamFails
  <2>2. Streaming'
    BY <1>end, <2>1, <1>t DEF EndOfFile, StreamFails, Streaming, ScanInv, TypeOK
  <2>3. \A g \in Files : CodesRead(g)' = CodesRead(g) /\ CodesOf(g)' = CodesOf(g)
    BY <2>1 DEF CodesRead, CodesOf
  <2> QED
    BY <2>1, <2>2, <2>3 DEF ScanInv, FiltersExact, CandidatesExact, ScanIsExact
<1>pass1. CASE EndPass1
  <2>1. /\ stage = "pass1" /\ stage' = "pass2" /\ files' = files
        /\ filters' = filters /\ candidates' = candidates
    BY <1>pass1 DEF EndPass1
  <2>2. \A f \in Files : line'[f] = 0 /\ worker'[f] = "running" /\ 0 <= Len(files[f])
    BY <1>pass1, <1>t, LinesAreCodes DEF EndPass1, Spawn
  <2>3. \A f \in Files : CodesRead(f)' = {} /\ CodesOf(f)' = CodesOf(f)
    BY <2>1, <2>2 DEF CodesRead, CodesOf
  <2>4. \A f \in Files : filters[f] = CodesOf(f)
    BY <1>pass1, <1>t, <2>1, ReadToTheEnd DEF EndPass1, Joined, ScanInv, Streaming, FiltersExact
  <2>5. Streaming'
    BY <2>1, <2>2 DEF Streaming
  <2>6. FiltersExact'
    BY <2>1, <2>3, <2>4 DEF FiltersExact
  <2>7. CandidatesExact'
    BY <2>1, <2>3 DEF CandidatesExact, ScanInv
  <2> QED
    BY <2>1, <2>5, <2>6, <2>7 DEF ScanIsExact
<1>pass2. CASE EndPass2
  <2>1. stage' = "write" /\ todo' = Shared
    BY <1>pass2, ValidIsShared DEF EndPass2
  <2>2. Shared' = Shared
    BY FilesKept
  <2> QED
    BY <2>1, <2>2 DEF Streaming, FiltersExact, CandidatesExact, ScanIsExact
<1>write. ASSUME NEW c \in Codes, WriteCoupon(c)
          PROVE  Streaming' /\ FiltersExact' /\ CandidatesExact' /\ ScanIsExact'
  <2>1. stage = "write" /\ stage' = "write" /\ coupons' = Written(c) /\ todo' = todo \ {c}
    BY <1>write DEF WriteCoupon
  <2>2. Shared' = Shared /\ Shared \subseteq Codes
    BY FilesKept DEF Shared
  <2>3. ScanIsExact'
    BY <1>t, <2>1, <2>2, WrittenType DEF ScanIsExact, ScanInv
  <2> QED
    BY <2>1, <2>3 DEF Streaming, FiltersExact, CandidatesExact
<1>over. CASE PassFails \/ (\E c \in Codes : WriteFails(c)) \/ Finish \/ Kill
  BY <1>over, <1>idle DEF PassFails, WriteFails, Finish, Kill
<1>interrupt. CASE Interrupt
  BY <1>interrupt DEF Interrupt, scan, ScanInv, Streaming, FiltersExact, CandidatesExact, ScanIsExact,
     CodesRead, CodesOf, Shared
<1> QED
  BY <1>u, <1>start, <1>stat, <1>add, <1>test, <1>end, <1>pass1, <1>pass2, <1>write, <1>over,
     <1>interrupt DEF Next, Work, Stream

\* The types and the exactness of the two passes (main.go:144-220).
THEOREM ScanCorrect == Spec => []ScanInv
<1>1. Init => ScanInv
  BY InitScan
<1>2. ScanInv /\ [Next]_vars => ScanInv'
  BY StepScan
<1> QED
  BY <1>1, <1>2, PTL DEF Spec

\* No step of a goroutine, no interrupt and no kill leaves the ranges of the
\* variables: a worker's position stays within its file, its filter within the
\* legal codes (main.go:144-220).
THEOREM TypeCorrect == Spec => []TypeOK
<1>1. ScanInv => TypeOK
  BY DEF ScanInv
<1> QED
  BY <1>1, ScanCorrect, PTL

\* The codes that are written are the shared ones, whatever the filters answer
\* and in whatever order the goroutines run.
THEOREM Exactness == Spec => []ScanIsExact
<1>1. ScanInv => ScanIsExact
  BY DEF ScanInv
<1> QED
  BY <1>1, ScanCorrect, PTL

-----------------------------------------------------------------------------
(* CouponIngest implements CouponImport. *)

\* The tool starts as its promise does.
LEMMA InitPromise == Init => Import!Init
<1> SUFFICES ASSUME Init PROVE Import!Init
  OBVIOUS
<1>1. Shared \in SUBSET Codes
  BY DEF Shared
<1>2. coupons \in [Codes -> Rows]
  BY IngestAssumption DEF Init
<1>3. status = "none"
  BY DEF Init, status
<1> QED
  BY <1>1, <1>2, <1>3 DEF Import!Init

\* A step that writes the codes of S, all shared, and leaves the run in state s.
LEMMA Advances ==
    ASSUME TypeOK, [Next]_vars, NEW S \in SUBSET Shared, NEW s \in {"running", "ok", "failed"},
           stage # "idle", status' = s,
           coupons' = [c \in Codes |-> IF c \in S THEN rowFor[c] ELSE coupons[c]],
           s = "ok" => \A c \in Shared : coupons'[c] = rowFor[c]
    PROVE  Import!Next
<1>1. Shared' = Shared
  BY FilesKept
<1>2. status = "running"
  BY DEF status
<1>3. Import!Advance(S, s)
  BY <1>1, <1>2 DEF Import!Advance
<1> QED
  BY <1>3 DEF Import!Next

\* Every step of the tool is a step of its promise, or none.
LEMMA StepPromise ==
    ASSUME ScanInv, [Next]_vars
    PROVE  [Import!Next]_(Import!vars)
<1>t. TypeOK /\ coupons \in [Codes -> Rows] /\ Shared' = Shared /\ Shared \subseteq Codes
  BY FilesKept DEF ScanInv, TypeOK, Shared
<1>0. coupons' = coupons => coupons' = [c \in Codes |-> IF c \in {} THEN rowFor[c] ELSE coupons[c]]
  BY <1>t
<1>1. ASSUME NEW c \in todo, stage = "write", coupons' = Written(c)
      PROVE  /\ {c} \in SUBSET Shared
             /\ coupons' = [d \in Codes |-> IF d \in {c} THEN rowFor[d] ELSE coupons[d]]
  BY <1>t, <1>1 DEF ScanInv, ScanIsExact, Written
<1>quiet. CASE coupons' = coupons /\ stage # "idle" /\ stage' # "idle"
  BY <1>t, <1>quiet DEF Import!vars, status
<1>gone. CASE coupons' = coupons /\ stage # "idle" /\ Return("failed")
  <2>1. status' = "failed"
    BY <1>gone DEF status, Return
  <2>2. {} \in SUBSET Shared /\ "failed" # "ok"
    OBVIOUS
  <2>3. Import!Next
    BY <1>gone, <1>0, <1>t, <2>1, <2>2, Advances
  <2> QED
    BY <2>3
<1>u. CASE UNCHANGED vars
  BY <1>u, <1>t DEF vars, status, Import!vars
<1>start. CASE Start
  <2>1. status # "running" /\ status' = "running" /\ coupons' = coupons
    BY <1>start, <1>t DEF Start, status, TypeOK
  <2> QED
    BY <2>1, <1>t DEF Import!Next, Import!Begin
<1>stat. CASE StatFiles
  BY <1>stat, <1>gone, <1>quiet DEF StatFiles
<1>stream. CASE \E f \in Files : Stream(f)
  BY <1>stream, <1>quiet DEF Stream, AddToFilter, TestInFilters, EndOfFile, StreamFails
<1>passfails. CASE PassFails
  BY <1>passfails, <1>gone DEF PassFails
<1>pass1. CASE EndPass1
  BY <1>pass1, <1>quiet DEF EndPass1
<1>pass2. CASE EndPass2
  BY <1>pass2, <1>quiet DEF EndPass2
<1>write. ASSUME NEW c \in Codes, WriteCoupon(c) PROVE Import!Next
  <2>1. status' = "running" /\ stage # "idle"
    BY <1>write DEF WriteCoupon, status
  <2> QED
    BY <1>write, <1>1, <1>t, <2>1, Advances DEF WriteCoupon
<1>writefails. ASSUME NEW c \in Codes, WriteFails(c) PROVE [Import!Next]_(Import!vars)
  <2>1. status' = "failed" /\ stage # "idle"
    BY <1>writefails DEF WriteFails, Return, status
  <2>2. CASE coupons' = coupons
    <3>1. Return("failed")
      BY <1>writefails DEF WriteFails
    <3> QED
      BY <2>1, <2>2, <3>1, <1>gone
  <2>3. CASE coupons' = Written(c)
    BY <1>writefails, <1>1, <1>t, <2>1, <2>3, Advances DEF WriteFails
  <2> QED
    BY <1>writefails, <2>2, <2>3 DEF WriteFails
<1>finish. CASE Finish
  <2>1. status' = "ok" /\ stage # "idle" /\ coupons' = coupons
    BY <1>finish DEF Finish, Return, status
  <2>2. \A c \in Shared : coupons'[c] = rowFor[c]
    BY <1>finish, <2>1 DEF Finish, ScanInv, ScanIsExact
  <2> QED
    BY <1>0, <1>t, <2>1, <2>2, Advances
<1>interrupt. CASE Interrupt
  BY <1>interrupt, <1>quiet DEF Interrupt
<1>kill. CASE Kill
  <2>1. status' = "failed" /\ stage # "idle"
    BY <1>kill DEF Kill, Return, status
  <2>2. CASE coupons' = coupons
    BY <1>kill, <2>1, <2>2, <1>gone DEF Kill
  <2>3. ASSUME NEW c \in todo, stage = "write", coupons' = Written(c) PROVE Import!Next
    BY <2>3, <1>1, <1>t, <2>1, Advances
  <2> QED
    BY <1>kill, <2>2, <2>3 DEF Kill
<1> QED
  BY <1>u, <1>start, <1>stat, <1>stream, <1>passfails, <1>pass1, <1>pass2, <1>write,
     <1>writefails, <1>finish, <1>interrupt, <1>kill DEF Next, Work

\* coupon-ingest keeps its promise: only shared codes are written, and a run
\* that reports success has written them all (main.go:93-141).
THEOREM Promise == Spec => KeepsPromise
<1>1. Init => Import!Init
  BY InitPromise
<1>2. ScanInv /\ [Next]_vars => [Import!Next]_(Import!vars)
  BY StepPromise
<1> QED
  BY <1>1, <1>2, ScanCorrect, PTL DEF Spec, KeepsPromise, Import!Spec
=============================================================================
