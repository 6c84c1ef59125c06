---------------------------- MODULE OrderLedger ----------------------------
(***************************************************************************)
(* What placing an order promises of the books, whatever it does to get    *)
(* there: an order is entered once and stays as it is; under a code of the *)
(* coupons table it spends a use that was counted before; uses are only    *)
(* added, and the terms of a code stand; and a client is told at most      *)
(* once, never of an order that is not there, and never a refusal of one   *)
(* that is or will be.  Checkout implements this.                          *)
(***************************************************************************)
EXTENDS Naturals

CONSTANTS
    Attempts,   \* the requests of the clients
    Codes,      \* the codes the coupons table may hold
    Initial,    \* its entries at the start
    Fresh       \* the entry of a new code

VARIABLES
    orders,     \* the orders entered: attempt -> order
    coupons,    \* the codes listed -> terms, uses counted and uses spent
    told        \* what the client of an attempt was told

vars == <<orders, coupons, told>>

Init ==
    /\ orders = <<>>
    /\ coupons = Initial
    /\ told = [a \in Attempts |-> "nothing"]

Spend(code) ==
    /\ code \in DOMAIN coupons
    /\ coupons[code].spent < coupons[code].uses
    /\ coupons' = [coupons EXCEPT ![code].spent = @ + 1]

\* An order of any content is entered; its client may hear of it.
Enter(a) ==
    /\ a \notin DOMAIN orders
    /\ told[a] # "refused"
    /\ DOMAIN orders' = DOMAIN orders \cup {a}
    /\ orders' = [b \in DOMAIN orders' |-> IF b = a THEN orders'[a] ELSE orders[b]]
    /\ \/ orders'[a].coupon \in Codes /\ Spend(orders'[a].coupon)
       \/ orders'[a].coupon \notin Codes /\ UNCHANGED coupons
    /\ \/ told' = told
       \/ told[a] = "nothing" /\ told' = [told EXCEPT ![a] = "accepted"]

Tell(a, answer) ==
    /\ told[a] = "nothing"
    /\ a \notin DOMAIN orders
    /\ told' = [told EXCEPT ![a] = answer]
    /\ UNCHANGED <<orders, coupons>>

Count(code) ==
    /\ code \in DOMAIN coupons
    /\ coupons' = [coupons EXCEPT ![code].uses = @ + 1]
    /\ UNCHANGED <<orders, told>>

List(code) ==
    /\ code \notin DOMAIN coupons
    /\ coupons' = [c \in DOMAIN coupons \cup {code} |-> IF c = code THEN Fresh ELSE coupons[c]]
    /\ UNCHANGED <<orders, told>>

Next ==
    \/ \E a \in Attempts : Enter(a)
    \/ \E a \in Attempts, answer \in {"refused", "unsure"} : Tell(a, answer)
    \/ \E code \in Codes : Count(code) \/ List(code)

Spec == Init /\ [][Next]_vars
=============================================================================
