--------------------------- MODULE MCCouponIngest ---------------------------
(***************************************************************************)
(* CouponIngest with three files of up to two lines, over two codes of a   *)
(* legal length and one that is too short.                                 *)
(***************************************************************************)
EXTENDS CouponIngest, TLC

CONSTANTS FIFTYOFF, PLAIN, SHORT, HalfOff, TenOff, NoRow

MCContents == {<<PLAIN, FIFTYOFF>>, <<SHORT, PLAIN>>, <<>>}

MCCodeRules == FIFTYOFF :> HalfOff

\* Nothing ingested yet, or seeded with rows of their own.
MCInitialCoupons == {[c \in Codes |-> NoRow], [c \in Codes |-> IF c = PLAIN THEN NoRow ELSE TenOff]}
=============================================================================
