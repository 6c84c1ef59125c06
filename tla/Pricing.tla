------------------------------- MODULE Pricing -------------------------------
(***************************************************************************)
(* The arithmetic of an order: the discount a coupon rule grants           *)
(* (internal/domain/coupon/discount.go) and the amounts the order service  *)
(* computes from it (internal/domain/order/service.go).                    *)
(*                                                                         *)
(* Amounts are integers of cents: prices, fixed values and caps are        *)
(* NUMERIC(10,2) columns, and shopspring/decimal adds, multiplies and      *)
(* divides by 100 exactly.  The value of a percentage rule is a number of  *)
(* hundredths of a percent for the same reason.                            *)
(*                                                                         *)
(* A cart is a sequence of lines [price, quantity]; a rule is a record     *)
(* with (at least) the fields type, value, minItems and maxDiscount.       *)
(***************************************************************************)
EXTENDS Integers, Sequences, FiniteSetsExt, SequencesExt

CONSTANT
    IntLimit    \* a Go int holds -IntLimit .. IntLimit - 1

ASSUME IntLimitAssumption == IntLimit \in Nat \ {0}

DiscountTypes == {"percentage", "fixed", "free_lowest"}

Line == [price : Int, quantity : Int]

-----------------------------------------------------------------------------
\* Signed wrap-around of a sum of Go ints.
WrapInt(n) == ((n + IntLimit) % (2 * IntLimit)) - IntLimit

\* The sum of the quantities, in a Go int.
totalQuantity(lines) ==
    FoldSeq(LAMBDA line, sum : WrapInt(sum + line.quantity), 0, lines)

\* The sum of price * quantity, in decimals: no wrap-around.
calcSubtotal(lines) ==
    SumFunction([i \in DOMAIN lines |-> lines[i].price * lines[i].quantity])

\* The lowest price of one unit, zero for an empty cart.
findLowestUnitPrice(lines) ==
    IF lines = <<>> THEN 0 ELSE Min({line.price : line \in ToSet(lines)})

floorAtZero(amount) == IF amount < 0 THEN 0 ELSE amount

-----------------------------------------------------------------------------
\* Mutant: the fraction of a cent is cut off.
applyPercentageTruncated(rule, subtotal) == floorAtZero(subtotal * rule.value) \div 10000

\* value% of the subtotal, rounded to a cent, half a cent away from zero.
applyPercentage(rule, subtotal) ==
    (floorAtZero(subtotal * rule.value) + 5000) \div 10000

\* Mutant: the flat amount is not cut off at the subtotal.
applyFixedUncapped(rule, subtotal) == floorAtZero(rule.value)

applyFixed(rule, subtotal) == floorAtZero(Min({rule.value, subtotal}))

applyFreeLowest(lines) == floorAtZero(findLowestUnitPrice(lines))

\* Mutant: off by one.
MinItemsMetOffByOne(rule, lines) ==
    rule.minItems > 0 => totalQuantity(lines) + 1 >= rule.minItems

\* Apply refuses a cart with fewer units than the rule asks for.
MinItemsMet(rule, lines) ==
    rule.minItems > 0 => totalQuantity(lines) >= rule.minItems

\* The amount Apply returns when it does not refuse the cart.
Apply(rule, lines) ==
    LET amount == CASE rule.type = "percentage" -> applyPercentage(rule, calcSubtotal(lines))
                    [] rule.type = "fixed" -> applyFixed(rule, calcSubtotal(lines))
                    [] rule.type = "free_lowest" -> applyFreeLowest(lines)
    IN  IF rule.maxDiscount > 0 THEN Min({amount, rule.maxDiscount}) ELSE amount

\* Mutant: the total is not floored at zero.
TotalUnfloored(lines, discount) == calcSubtotal(lines) - discount

\* What the customer pays: the subtotal less the discount, never below zero.
Total(lines, discount) == floorAtZero(calcSubtotal(lines) - discount)
=============================================================================
