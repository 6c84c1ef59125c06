---------------------------- MODULE CouponIngest ----------------------------
(***************************************************************************)
(* cmd/coupon-ingest: the coupon codes that stand in two or more of the    *)
(* promo files are written to the coupons table.                           *)
(*                                                                         *)
(* The files are streamed twice, by one goroutine per file and pass.  The  *)
(* first pass builds a bloom filter of each file, the second looks every   *)
(* code of a file up in the filters of the others.  An errgroup joins the  *)
(* goroutines of a pass: the first error cancels the context the others    *)
(* test before each line, and fails the run.                               *)
(*                                                                         *)
(* A bloom filter is the set of codes added to it; it answers "maybe" for  *)
(* each of them and may answer "maybe" for any other code as well.  The    *)
(* bit mask of a code is the set of files that have it as a candidate.     *)
(***************************************************************************)
EXTENDS Integers, Sequences, SequencesExt

CONSTANTS
    Files,          \* the promo files
    Codes,          \* the lines they may hold
    Contents,       \* what a file may hold: sequences of Codes
    Eligible,       \* the codes of minCodeLen to maxCodeLen letters
    codeRules,      \* the rows of the codes known by name
    defaultRule,    \* the row of any other code
    Rows,           \* what the coupons table may hold for a code
    InitialCoupons, \* the coupons tables the tool may find
    MaxRuns         \* bound: how many times the tool is run

rowFor == [c \in Codes |-> IF c \in DOMAIN codeRules THEN codeRules[c] ELSE defaultRule]

ASSUME IngestAssumption ==
    /\ Contents \subseteq Seq(Codes)
    /\ Eligible \subseteq Codes
    /\ rowFor \in [Codes -> Rows]
    /\ InitialCoupons \subseteq [Codes -> Rows]
    /\ MaxRuns \in Nat

VARIABLES
    files,          \* the promo files: file -> its lines
    coupons,        \* the coupons table: code -> row
    stage,          \* what the run is doing, "idle" between runs
    outcome,        \* how the last run ended
    interrupted,    \* the context of the run was cancelled by SIGINT
    runs,           \* how many runs were started
    worker,         \* the goroutine of a file, in the current pass
    line,           \* how many lines it has read
    filters,        \* the bloom filter of a file
    candidates,     \* the codes of a file that may be in another one
    todo            \* valid codes that are not written yet

scan == <<worker, line, filters, candidates>>
vars == <<files, coupons, stage, outcome, interrupted, runs, scan, todo>>

-----------------------------------------------------------------------------
Init ==
    /\ files \in [Files -> Contents]
    /\ coupons \in InitialCoupons
    /\ stage = "idle"
    /\ outcome = "none"
    /\ runs = 0
    /\ interrupted = FALSE
    /\ worker = [f \in Files |-> "done"]
    /\ line = [f \in Files |-> 0]
    /\ filters = [f \in Files |-> {}]
    /\ candidates = [f \in Files |-> {}]
    /\ todo = {}

\* The run returns: its locals are gone.
Return(result) ==
    /\ stage' = "idle"
    /\ outcome' = result
    /\ interrupted' = FALSE
    /\ worker' = [f \in Files |-> "done"]
    /\ line' = [f \in Files |-> 0]
    /\ filters' = [f \in Files |-> {}]
    /\ candidates' = [f \in Files |-> {}]
    /\ todo' = {}

\* One goroutine per file starts to stream it from its first line.
Spawn ==
    /\ worker' = [f \in Files |-> "running"]
    /\ line' = [f \in Files |-> 0]

\* The tool is run.
Start ==
    /\ stage = "idle"
    /\ runs < MaxRuns
    /\ runs' = runs + 1
    /\ stage' = "stat"
    /\ outcome' = "none"
    /\ UNCHANGED <<files, coupons, interrupted, scan, todo>>

\* Before anything is read, every file must be there.
StatFiles ==
    /\ stage = "stat"
    /\ \/ Return("failed")
       \/ /\ stage' = "pass1"
          /\ Spawn
          /\ UNCHANGED <<outcome, interrupted, filters, candidates, todo>>
    /\ UNCHANGED <<files, coupons, runs>>

-----------------------------------------------------------------------------
(* Streaming a file. *)

\* The context of a pass.
Cancelled == interrupted \/ \E f \in Files : worker[f] = "failed"

\* The goroutine of f reads its next line.
ReadLine(f) ==
    /\ worker[f] = "running"
    /\ line[f] < Len(files[f])
    /\ ~Cancelled
    /\ line' = [line EXCEPT ![f] = @ + 1]

NextCode(f) == files[f][line[f] + 1]

\* Mutant: the length of a code is not tested.
AddToFilterAny(f) ==
    /\ stage = "pass1"
    /\ ReadLine(f)
    /\ filters' = [filters EXCEPT ![f] = @ \cup {NextCode(f)}]
    /\ UNCHANGED <<files, coupons, stage, outcome, interrupted, runs, worker, candidates, todo>>

AddToFilter(f) ==
    /\ stage = "pass1"
    /\ ReadLine(f)
    /\ filters' = [filters EXCEPT ![f] = @ \cup ({NextCode(f)} \cap Eligible)]
    /\ UNCHANGED <<files, coupons, stage, outcome, interrupted, runs, worker, candidates, todo>>

\* The filter of another file holds the code.
InAnother(f, code) == \E g \in Files \ {f} : code \in filters[g]

\* Whether the code becomes a candidate when no filter holds it is chance: a
\* filter may answer "maybe".
TestInFilters(f) ==
    /\ stage = "pass2"
    /\ ReadLine(f)
    /\ \/ /\ NextCode(f) \in Eligible
          /\ candidates' = [candidates EXCEPT ![f] = @ \cup {NextCode(f)}]
       \/ /\ ~(NextCode(f) \in Eligible /\ InAnother(f, NextCode(f)))
          /\ UNCHANGED candidates
    /\ UNCHANGED <<files, coupons, stage, outcome, interrupted, runs, worker, filters, todo>>

\* After the last line the context is not tested any more.
EndOfFile(f) ==
    /\ stage \in {"pass1", "pass2"}
    /\ worker[f] = "running"
    /\ line[f] = Len(files[f])
    /\ worker' = [worker EXCEPT ![f] = "done"]
    /\ UNCHANGED <<files, coupons, stage, outcome, interrupted, runs, line, filters, candidates, todo>>

\* A file cannot be opened, decompressed or scanned, or the context is cancelled.
StreamFails(f) ==
    /\ stage \in {"pass1", "pass2"}
    /\ worker[f] = "running"
    /\ worker' = [worker EXCEPT ![f] = "failed"]
    /\ UNCHANGED <<files, coupons, stage, outcome, interrupted, runs, line, filters, candidates, todo>>

-----------------------------------------------------------------------------
(* Between the passes. *)

\* Mutant: the pass is joined when one goroutine is done.
JoinedEarly == \E f \in Files : worker[f] = "done"

\* g.Wait returns no error.
Joined == \A f \in Files : worker[f] = "done"

\* Mutant: an error is returned once every goroutine has one.
PassFailsUnanimously ==
    /\ stage \in {"pass1", "pass2"}
    /\ \A f \in Files : worker[f] = "failed"
    /\ Return("failed")
    /\ UNCHANGED <<files, coupons, runs>>

\* g.Wait returns the first error.
PassFails ==
    /\ stage \in {"pass1", "pass2"}
    /\ \A f \in Files : worker[f] # "running"
    /\ \E f \in Files : worker[f] = "failed"
    /\ Return("failed")
    /\ UNCHANGED <<files, coupons, runs>>

EndPass1 ==
    /\ stage = "pass1"
    /\ Joined
    /\ stage' = "pass2"
    /\ Spawn
    /\ UNCHANGED <<files, coupons, outcome, interrupted, runs, filters, candidates, todo>>

\* Mutant: one bit in the mask is enough.
ValidOneBit == UNION {candidates[f] : f \in Files}

\* The codes with two bits or more in their merged mask.
Valid == {c \in Codes : \E f, g \in Files : f # g /\ c \in candidates[f] /\ c \in candidates[g]}

EndPass2 ==
    /\ stage = "pass2"
    /\ Joined
    /\ stage' = "write"
    /\ todo' = Valid
    /\ UNCHANGED <<files, coupons, outcome, interrupted, runs, scan>>

-----------------------------------------------------------------------------
(* Writing, in the order of a Go map: any. *)

Written(c) == [coupons EXCEPT ![c] = rowFor[c]]

WriteCoupon(c) ==
    /\ stage = "write"
    /\ c \in todo
    /\ ~interrupted
    /\ coupons' = Written(c)
    /\ todo' = todo \ {c}
    /\ UNCHANGED <<files, stage, outcome, interrupted, runs, scan>>

\* The connection or a statement fails; a statement may have been executed.
WriteFails(c) ==
    /\ stage = "write"
    /\ c \in todo
    /\ coupons' \in {coupons, Written(c)}
    /\ Return("failed")
    /\ UNCHANGED <<files, runs>>

Finish ==
    /\ stage = "write"
    /\ todo = {}
    /\ Return("ok")
    /\ UNCHANGED <<files, coupons, runs>>

-----------------------------------------------------------------------------
Interrupt ==
    /\ stage # "idle"
    /\ ~interrupted
    /\ interrupted' = TRUE
    /\ UNCHANGED <<files, coupons, stage, outcome, runs, scan, todo>>

\* The process is killed, perhaps during an upsert.
Kill ==
    /\ stage # "idle"
    /\ \/ UNCHANGED coupons
       \/ stage = "write" /\ \E c \in todo : coupons' = Written(c)
    /\ Return("failed")
    /\ UNCHANGED <<files, runs>>

Stream(f) == AddToFilter(f) \/ TestInFilters(f) \/ EndOfFile(f) \/ StreamFails(f)

Work ==
    \/ StatFiles
    \/ \E f \in Files : Stream(f)
    \/ PassFails
    \/ EndPass1
    \/ EndPass2
    \/ \E c \in Codes : WriteCoupon(c) \/ WriteFails(c)
    \/ Finish

Next == Start \/ Work \/ Interrupt \/ Kill

Spec == Init /\ [][Next]_vars

\* Every read and every statement returns; goroutines are scheduled.
FairSpec == Spec /\ WF_vars(Work)

-----------------------------------------------------------------------------
(* Properties. *)

\* What the variables range over: no code outside the files is ever held.
TypeOK ==
    /\ files \in [Files -> Contents]
    /\ coupons \in [Codes -> Rows]
    /\ stage \in {"idle", "stat", "pass1", "pass2", "write"}
    /\ outcome \in {"none", "ok", "failed"}
    /\ interrupted \in BOOLEAN
    /\ runs \in 0..MaxRuns
    /\ worker \in [Files -> {"running", "done", "failed"}]
    /\ line \in [Files -> Nat]
    /\ filters \in [Files -> SUBSET Eligible]
    /\ candidates \in [Files -> SUBSET Eligible]
    /\ todo \subseteq Eligible

\* The codes of a legal length in a file.
CodesOf(f) == ToSet(files[f]) \cap Eligible

\* The codes in two files or more.
Shared == {c \in Codes : \E f, g \in Files : f # g /\ c \in CodesOf(f) /\ c \in CodesOf(g)}

\* What is written is exactly the shared codes, whatever the bloom filters
\* answered: a false positive makes a candidate in one file, and a code that is
\* in one file never gets a second bit (main.go:191-220).
ScanIsExact == stage = "write" => /\ todo \subseteq Shared
                                  /\ \A c \in Shared \ todo : coupons[c] = rowFor[c]

\* The state of a run as its user sees it.
status == IF stage = "idle" THEN outcome ELSE "running"

Import == INSTANCE CouponImport WITH shared <- Shared

\* The tool keeps the promise of CouponImport: rows are written to shared codes
\* only, and a run that reports success has written every one of them, after
\* any number of failed, interrupted and killed runs (main.go:93-141, 309-335).
KeepsPromise == Import!Spec

\* Every run ends, also when one of the files cannot be read: no goroutine of a
\* pass waits for another (main.go:147-154, 194-201).
EveryRunEnds == stage # "idle" ~> stage = "idle"
=============================================================================
