----------------------------- MODULE MCCheckout -----------------------------
(***************************************************************************)
(* Small instances of Checkout for TLC.  Strings stand for codes and       *)
(* product ids, and amounts are a few cents, so that a percentage rounds   *)
(* and a total can pass MaxAmount.                                         *)
(***************************************************************************)
EXTENDS Checkout

CONSTANTS k1, k2, p1, p2, HAPPY, happy, SALE

Symmetry == Permutations(Attempts)

Item(p, n) == [product |-> p, quantity |-> n]

Say(key, items, code) == [key |-> key, items |-> items, coupon |-> code]

OneSpelling == {HAPPY}
TwoSpellings == {HAPPY, happy}
TwoCodes == {HAPPY, happy, SALE}

UpperOf(spellings) == [s \in spellings |-> IF s = happy THEN HAPPY ELSE s]
UpperOne == UpperOf(OneSpelling)
UpperTwo == UpperOf(TwoSpellings)
UpperThree == UpperOf(TwoCodes)

-----------------------------------------------------------------------------
(* Coupon rows. *)

UpTo(n) == [type |-> "percentage", value |-> 5000, minItems |-> 0, maxDiscount |-> 0,
               from |-> Null, until |-> Null, maxUses |-> n, uses |-> 0, active |-> TRUE]

LimitOne == [c \in {HAPPY} |-> UpTo(1)]
LimitOneAndAbsent == [c \in {HAPPY, SALE} |-> IF c = HAPPY THEN UpTo(1) ELSE NoRow]

\* A limit, a window and a percentage above 100, which is applied as it is.
Windowed == [UpTo(2) EXCEPT !.from = 1, !.until = 1, !.value = 15000]

\* Two rows with a window whose codes differ in case only: the primary key
\* allows them.  One is inactive until a tool writes the row again.
CaseVariants == [c \in {HAPPY, happy} |-> [Windowed EXCEPT !.active = (c = HAPPY)]]

NoTemplates == {}
OneTemplate == {[type |-> "fixed", value |-> 3, minItems |-> 2]}
TwoTemplates == OneTemplate \cup {[type |-> "free_lowest", value |-> 0, minItems |-> 0]}

-----------------------------------------------------------------------------
(* Requests. *)

JustHappy == {Say(k1, <<Item(p1, 1)>>, HAPPY)}

HappyAndSale == JustHappy \cup {Say(k1, <<Item(p1, 2)>>, SALE)}

HappySpellings == JustHappy \cup {Say(k1, <<Item(p1, 1)>>, happy)}

Malformed ==
    {Say(k2, <<Item(p1, 1)>>, HAPPY),
     Say(k1, <<>>, HAPPY),
     Say(k1, <<Item(p1, 1), Item(p2, 0)>>, NoCoupon),
     Say(k1, <<Item(p2, 1)>>, happy)}

\* Large enough for MaxAmount with two items and no coupon.
TwoItems == Say(k1, <<Item(p1, 1), Item(p2, 1)>>, NoCoupon)

AllKinds == Malformed \cup JustHappy \cup {TwoItems}
=============================================================================
