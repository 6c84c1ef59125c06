---------------------------- MODULE CouponImport ----------------------------
(***************************************************************************)
(* What cmd/coupon-ingest promises, whatever it does to get there: a run   *)
(* gives coupon rows to shared codes only, a run that reports success has  *)
(* given one to every shared code, and a run that fails may have stopped   *)
(* anywhere in between.  CouponIngest implements this.                     *)
(***************************************************************************)
CONSTANTS
    Codes,      \* the lines the files may hold
    Rows,       \* what the coupons table may hold for a code
    rowFor      \* the row a run writes for a code: a function from Codes to Rows

VARIABLES
    shared,     \* the codes to import
    coupons,    \* the coupons table: code -> row
    status      \* of the last run

vars == <<shared, coupons, status>>

Init ==
    /\ shared \in SUBSET Codes
    /\ coupons \in [Codes -> Rows]
    /\ status = "none"

Begin ==
    /\ status # "running"
    /\ status' = "running"
    /\ UNCHANGED <<shared, coupons>>

\* Some shared codes are written, and the run may end.
Advance(S, s) ==
    /\ status = "running"
    /\ coupons' = [c \in Codes |-> IF c \in S THEN rowFor[c] ELSE coupons[c]]
    /\ status' = s
    /\ s = "ok" => \A c \in shared : coupons'[c] = rowFor[c]
    /\ UNCHANGED shared

Next ==
    \/ Begin
    \/ \E S \in SUBSET shared, s \in {"running", "ok", "failed"} : Advance(S, s)

Spec == Init /\ [][Next]_vars
=============================================================================
