------------------------------ MODULE MCPricing ------------------------------
(***************************************************************************)
(* Every cart of at most MaxLines lines under every rule of a small set:   *)
(* a behaviour chooses a rule and then adds lines to an empty cart.        *)
(***************************************************************************)
EXTENDS Pricing

CONSTANTS
    MaxLines,       \* bound on the lines of a cart
    UnitPrices,     \* prices, in cents
    Quantities,     \* quantities of a line, at least 1
    Percentages,    \* values of percentage rules, in hundredths of a percent
    FixedValues,    \* values of fixed rules, in cents
    MinItems,       \* values of min_items, 0 for none
    Caps            \* values of max_discount, 0 for none

\* Orders ask for one unit at least (openapi.yaml:179); the amounts of the seeds
\* are not negative, though the columns would hold others (001_schema.sql:4-23).
ASSUME PricingAssumption ==
    /\ MaxLines \in Nat
    /\ UnitPrices \subseteq Nat
    /\ Quantities \subseteq Nat \ {0}
    /\ Percentages \subseteq Nat
    /\ FixedValues \subseteq Nat
    /\ MinItems \subseteq Int
    /\ Caps \subseteq Nat

VARIABLES rule, cart

vars == <<rule, cart>>

Rules ==
    LET Of(type, values) == [type : {type}, value : values,
                             minItems : MinItems, maxDiscount : Caps]
    IN  Of("percentage", Percentages) \cup Of("fixed", FixedValues)
            \cup Of("free_lowest", {0})

Init == rule \in Rules /\ cart = <<>>

AddLine(price, quantity) ==
    /\ Len(cart) < MaxLines
    /\ cart' = Append(cart, [price |-> price, quantity |-> quantity])
    /\ UNCHANGED rule

Next == \E price \in UnitPrices, quantity \in Quantities : AddLine(price, quantity)

Spec == Init /\ [][Next]_vars

-----------------------------------------------------------------------------
subtotal == calcSubtotal(cart)

discount == Apply(rule, cart)

\* The amounts within half a cent of value percent of the subtotal, a half cent
\* going up.
Nearest ==
    {d \in 0..(subtotal * (rule.value \div 10000 + 1) + 1) :
        /\ 2 * (d * 10000 - subtotal * rule.value) <= 10000
        /\ 2 * (d * 10000 - subtotal * rule.value) > -10000}

\* The flat amount cut off at the subtotal.
Flat == {d \in {rule.value, subtotal} : d <= rule.value /\ d <= subtotal}

\* The price of one unit of a cheapest line.
OneUnit ==
    {cart[i].price : i \in {k \in DOMAIN cart :
                              \A j \in DOMAIN cart : cart[k].price <= cart[j].price}}

Formula == CASE rule.type = "percentage" -> Nearest
             [] rule.type = "fixed" -> Flat
             [] rule.type = "free_lowest" -> OneUnit

\* The discount is the one the documented formula names: the share of the
\* subtotal nearest to value percent, the flat amount, or the price of one unit
\* of a cheapest line; and never more than a positive cap (discount.go Apply and
\* its three strategies).
DiscountMatchesFormula ==
    cart # <<>> =>
        \E amount \in Formula :
            discount = IF rule.maxDiscount > 0 /\ amount > rule.maxDiscount
                       THEN rule.maxDiscount ELSE amount

\* Unless a percentage above 100 is configured, nothing is lost between the two
\* amounts an order stores: what is paid and what is taken off make up the
\* subtotal (service.go:133-138 with discount.go).
AmountsMakeUpSubtotal ==
    (rule.type = "percentage" => rule.value <= 10000)
        => Total(cart, discount) + discount = subtotal

\* Putting one more line into a cart the rule already accepts never makes the
\* order cheaper, whatever the strategy, the rounding and the cap do.
MoreNeverCostsLess ==
    [][MinItemsMet(rule, cart) /\ MinItemsMet(rule, cart') =>
          Total(cart', Apply(rule, cart')) >= Total(cart, discount)]_vars

\* The sum of quantities may wrap around in a Go int, but a cart is never
\* accepted that has fewer units than min_items (discount.go:18-21, 86-92).
MinItemsNeverOvergranted ==
    rule.minItems > 0 /\ MinItemsMet(rule, cart) =>
        SumFunction([i \in DOMAIN cart |-> cart[i].quantity]) >= rule.minItems
=============================================================================
