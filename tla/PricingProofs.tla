---------------------------- MODULE PricingProofs ----------------------------
(***************************************************************************)
(* What TLAPS proves of the arithmetic of an order, for carts of any       *)
(* length and any prices, quantities and rules that are not negative.      *)
(***************************************************************************)
EXTENDS MCPricing, FoldLemmas

\* The lines the program prices.
Priced == [price : Nat, quantity : Nat \ {0}]

\* The type of the two variables.
Priceable ==
    /\ rule \in [type : DiscountTypes, value : Nat, minItems : Int, maxDiscount : Nat]
    /\ cart \in Seq(Priced)

-----------------------------------------------------------------------------
(* Sums over the lines of a cart. *)

\* What each line costs.
Costs(lines) == [i \in DOMAIN lines |-> lines[i].price * lines[i].quantity]

\* How many units each line asks for.
Units(lines) == [i \in DOMAIN lines |-> lines[i].quantity]

\* The products and the quantities of the lines are natural numbers.
LEMMA LinesType ==
    ASSUME NEW lines \in Seq(Priced)
    PROVE  /\ IsFiniteSet(DOMAIN lines)
           /\ \A i \in DOMAIN lines : lines[i].price \in Nat /\ lines[i].quantity \in Nat \ {0}
           /\ \A i \in DOMAIN lines : Costs(lines)[i] \in Nat /\ Units(lines)[i] \in Nat /\ Units(lines)[i] > 0
<1>1. \A i \in DOMAIN lines : lines[i] \in Priced
  OBVIOUS
<1>2. IsFiniteSet(DOMAIN lines)
  <2>1. DOMAIN lines = 1..Len(lines) /\ Len(lines) \in Nat
    OBVIOUS
  <2> QED
    BY <2>1, FS_Interval
<1>3. \A i \in DOMAIN lines : Costs(lines)[i] \in Nat
  <2>1. \A m, n \in Nat : m * n \in Nat
    OBVIOUS
  <2> QED
    BY <1>1, <2>1 DEF Costs, Priced
<1>4. \A i \in DOMAIN lines : Units(lines)[i] \in Nat /\ Units(lines)[i] > 0
  BY <1>1 DEF Units, Priced
<1>5. \A i \in DOMAIN lines : lines[i].price \in Nat /\ lines[i].quantity \in Nat \ {0}
  BY <1>1 DEF Priced
<1> QED
  BY <1>2, <1>3, <1>4, <1>5

\* The subtotal of a cart is not negative, and each line adds its cost.
LEMMA SubtotalFacts ==
    ASSUME NEW lines \in Seq(Priced), NEW line \in Priced
    PROVE  /\ calcSubtotal(lines) \in Nat
           /\ calcSubtotal(Append(lines, line)) = calcSubtotal(lines) + line.price * line.quantity
<1> DEFINE more == Append(lines, line)
           n == Len(lines)
<1>1. calcSubtotal(lines) = SumFunctionOnSet(Costs(lines), 1..n)
      /\ calcSubtotal(more) = SumFunctionOnSet(Costs(more), 1..(n + 1))
  <2>1. DOMAIN lines = 1..n /\ DOMAIN more = 1..(n + 1)
    OBVIOUS
  <2> QED
    BY <2>1 DEF calcSubtotal, SumFunction, Costs
<1>2. IsFiniteSet(1..n) /\ \A i \in 1..n : Costs(lines)[i] \in Nat
  BY LinesType
<1>3. IsFiniteSet(1..(n + 1)) /\ \A i \in 1..(n + 1) : Costs(more)[i] \in Nat
  <2>1. more \in Seq(Priced) /\ DOMAIN more = 1..(n + 1)
    OBVIOUS
  <2> QED
    BY <2>1, LinesType
<1>4. n + 1 \in 1..(n + 1) /\ (1..(n + 1)) \ {n + 1} = 1..n
  OBVIOUS
<1>5. Costs(more)[n + 1] = line.price * line.quantity /\ \A i \in 1..n : Costs(more)[i] = Costs(lines)[i]
  BY DEF Costs
<1> DEFINE S == 1..n
           T == 1..(n + 1)
           w == Costs(lines)
           v == Costs(more)
<1> HIDE DEF more, n
<1>6. SumFunctionOnSet(v, T) = v[n + 1] + SumFunctionOnSet(v, S)
  <2>1. IsFiniteSet(T) /\ (\A i \in T : v[i] \in Int) /\ n + 1 \in T /\ T \ {n + 1} = S
    BY <1>3, <1>4
  <2> HIDE DEF S, T, v
  <2>2. \A x \in T : SumFunctionOnSet(v, T) = v[x] + SumFunctionOnSet(v, T \ {x})
    BY <2>1, SumFacts
  <2> QED
    BY <2>1, <2>2
<1>7. SumFunctionOnSet(v, S) = SumFunctionOnSet(w, S)
  <2>1. IsFiniteSet(S) /\ \A i \in S : w[i] \in Int /\ v[i] = w[i]
    BY <1>2, <1>5
  <2> HIDE DEF S, w, v
  <2> QED
    BY <2>1, SumSame
<1>8. SumFunctionOnSet(Costs(lines), 1..n) \in Nat
  BY <1>2, SumNat
<1>9. line.price * line.quantity \in Nat
  <2>1. \A a, b \in Nat : a * b \in Nat
    OBVIOUS
  <2> QED
    BY <2>1 DEF Priced
<1> QED
  BY <1>1, <1>5, <1>6, <1>7, <1>8, <1>9 DEF more

\* A Go int holds what WrapInt makes of a sum; a sum that is not below the least
\* int is never made larger.
LEMMA WrapFacts ==
    ASSUME NEW n \in Int
    PROVE  /\ WrapInt(n) \in (-IntLimit)..(IntLimit - 1)
           /\ n >= -IntLimit => WrapInt(n) <= n
<1>1. IntLimit \in Nat /\ IntLimit > 0 /\ 2 * IntLimit > 0
  BY IntLimitAssumption
<1>2. \A a \in Int : \A m \in Nat : m > 0 => a % m \in 0..(m - 1)
  OBVIOUS
<1>3. \A a \in Nat : \A m \in Nat : m > 0 => a % m <= a
  OBVIOUS
<1>4. (n + IntLimit) % (2 * IntLimit) \in 0..(2 * IntLimit - 1)
  BY <1>1, <1>2
<1>5. n >= -IntLimit => (n + IntLimit) % (2 * IntLimit) <= n + IntLimit
  BY <1>1, <1>3
<1> QED
  BY <1>1, <1>4, <1>5 DEF WrapInt

\* One round of totalQuantity.
Wrapping(lines) == [i \in DOMAIN lines |-> [v \in (-IntLimit)..(IntLimit - 1) |-> WrapInt(v + lines[i].quantity)]]

\* The number of units computed in Go ints never exceeds the true one.
LEMMA UnitsBound ==
    ASSUME NEW lines \in Seq(Priced)
    PROVE  /\ totalQuantity(lines) \in Int
           /\ SumFunction(Units(lines)) \in Nat
           /\ totalQuantity(lines) <= SumFunction(Units(lines))
<1> DEFINE S == DOMAIN lines
           B == (-IntLimit)..(IntLimit - 1)
           q == Units(lines)
           It(f) == f = [s \in SUBSET S |->
                          IF s = {} THEN 0
                          ELSE WrapInt(f[s \ {CHOOSE x \in s : TRUE}] + lines[CHOOSE x \in s : TRUE].quantity)]
           h == CHOOSE f : It(f)
<1>1. totalQuantity(lines) = h[S]
  BY DEF totalQuantity, FoldSeq, FoldFunction, FoldFunctionOnSet, MapThenFoldSet
<1>2. IsFiniteSet(S) /\ \A i \in S : q[i] \in Nat /\ lines[i].quantity = q[i]
  <2>1. \A i \in DOMAIN lines : lines[i].quantity = Units(lines)[i]
    BY DEF Units
  <2> QED
    BY <2>1, LinesType
<1>3. Foldable(S, B, 0, AnyOf(S), Wrapping(lines))
  <2>1. 0 \in B
    BY IntLimitAssumption
  <2>2. \A i \in S : \A v \in B : WrapInt(v + lines[i].quantity) \in B
    <3> SUFFICES ASSUME NEW i \in S, NEW v \in B PROVE WrapInt(v + lines[i].quantity) \in B
      OBVIOUS
    <3>1. v + lines[i].quantity \in Int
      BY <1>2, IntLimitAssumption
    <3> QED
      BY <3>1, WrapFacts
  <2>3. Wrapping(lines) \in [S -> [B -> B]]
    BY <2>2 DEF Wrapping
  <2> HIDE DEF S, B
  <2> QED
    BY <1>2, <2>1, <2>3, AnyOfIn DEF Foldable
<1>4. PICK f : IsFold(f, S, B, 0, AnyOf(S), Wrapping(lines))
  <2> HIDE DEF S, B
  <2> QED
    BY <1>3, FoldExists
<1>5. f \in [SUBSET S -> B] /\ It(f)
  <2>0. \A s \in SUBSET S : s # {} => (CHOOSE x \in s : TRUE) \in s
    OBVIOUS
  <2>1. f \in [SUBSET S -> B] /\ Unfolds(f, S, 0, AnyOf(S), Wrapping(lines))
    BY <1>4 DEF IsFold
  <2>2. \A s \in SUBSET S : s # {} =>
            f[s] = WrapInt(f[s \ {CHOOSE x \in s : TRUE}] + lines[CHOOSE x \in s : TRUE].quantity)
    BY <2>0, <2>1 DEF Unfolds, AnyOf, Wrapping
  <2>3. f[{}] = 0
    BY <2>1 DEF Unfolds
  <2>4. f = [s \in SUBSET S |-> f[s]]
    BY <2>1
  <2> QED
    BY <2>1, <2>2, <2>3, <2>4
<1>6. It(h)
  BY <1>5
<1>7. \A s \in SUBSET S : h[s] = f[s]
  <2>1. h[{}] = 0 /\ \A s \in SUBSET S : s # {} =>
            h[s] = WrapInt(h[s \ {AnyOf(S)[s]}] + lines[AnyOf(S)[s]].quantity)
    BY <1>6 DEF AnyOf
  <2> HIDE DEF h
  <2>2. Resembles(h, S, B, 0, AnyOf(S), Wrapping(lines))
    <3>1. \A s \in SUBSET S : s # {} => AnyOf(S)[s] \in S
      <4> HIDE DEF S
      <4> QED
        BY AnyOfIn
    <3> QED
      BY <2>1, <3>1 DEF Resembles, Wrapping
  <2> HIDE DEF S, B
  <2> QED
    BY <1>4, <2>2, FoldIs
<1> HIDE DEF h
<1> DEFINE F == {s \in SUBSET S : f[s] <= SumFunctionOnSet(q, s) /\ SumFunctionOnSet(q, s) \in Nat}
<1>8. {} \in F
  <2>1. SumFunctionOnSet(q, {}) = 0
    <3>1. \A x \in {} : q[x] \in Int
      OBVIOUS
    <3> QED
      BY <3>1, SumFacts, FS_EmptySet
  <2>2. f[{}] = 0
    BY <1>5
  <2> QED
    BY <2>1, <2>2
<1>9. ASSUME NEW s \in SUBSET S, s # {}, \A x \in s : s \ {x} \in F PROVE s \in F
  <2> DEFINE x == CHOOSE y \in s : TRUE
             r == s \ {x}
  <2>1. x \in s
    BY <1>9
  <2>2. f[s] = WrapInt(f[r] + q[x]) /\ f[r] \in B /\ q[x] \in Nat
    BY <1>2, <1>5, <1>9, <2>1
  <2>3. SumFunctionOnSet(q, s) = q[x] + SumFunctionOnSet(q, r)
    <3>1. IsFiniteSet(s) /\ \A y \in s : q[y] \in Int
      <4> HIDE DEF S, q
      <4> QED
        BY <1>2, <1>9, FS_Subset
    <3> HIDE DEF x, q
    <3> QED
      BY <2>1, <3>1, SumFacts
  <2>4. f[r] <= SumFunctionOnSet(q, r) /\ SumFunctionOnSet(q, r) \in Nat
    BY <1>9, <2>1
  <2> HIDE DEF x, r, q
  <2>5. f[r] + q[x] \in Int /\ f[r] + q[x] >= -IntLimit /\ f[r] \in Int
    BY <2>2, IntLimitAssumption
  <2>6. f[s] <= f[r] + q[x] /\ f[s] \in Int
    BY <2>2, <2>5, WrapFacts, IntLimitAssumption
  <2> QED
    BY SMTT(30), <1>9, <2>2, <2>3, <2>4, <2>5, <2>6
<1>10. SUBSET S \subseteq F
  <2> HIDE DEF F, S
  <2> QED
    BY <1>2, <1>8, <1>9, FinSet
<1>11. SumFunction(Units(lines)) = SumFunctionOnSet(q, S)
  BY DEF SumFunction, Units
<1>12. S \in F /\ f[S] \in Int
  <2>1. f \in [SUBSET S -> B] /\ B \subseteq Int
    BY <1>5, IntLimitAssumption
  <2> HIDE DEF B
  <2>2. f[S] \in Int
    BY <2>1
  <2> QED
    BY <1>10, <2>2
<1> QED
  BY <1>1, <1>7, <1>11, <1>12

-----------------------------------------------------------------------------
(* The discount. *)

\* The smaller of two integers.
LEMMA MinTwo ==
    ASSUME NEW a \in Int, NEW b \in Int
    PROVE  Min({a, b}) = IF a <= b THEN a ELSE b
BY DEF Min

\* What a strategy grants before the cap.
Granted(r, lines) ==
    CASE r.type = "percentage" -> applyPercentage(r, calcSubtotal(lines))
      [] r.type = "fixed" -> applyFixed(r, calcSubtotal(lines))
      [] r.type = "free_lowest" -> applyFreeLowest(lines)

\* The rules the program prices with.
RuleType == [type : DiscountTypes, value : Nat, minItems : Int, maxDiscount : Nat]

\* The share of the subtotal s in whole cents, rounded to the nearest.
Rounds(r, s) ==
    /\ s * r.value \in Nat
    /\ applyPercentage(r, s) \in Nat
    /\ applyPercentage(r, s) * 10000 <= s * r.value + 5000
    /\ s * r.value + 5000 < applyPercentage(r, s) * 10000 + 10000

\* applyPercentage rounds.
LEMMA PercentageFacts ==
    ASSUME NEW r \in RuleType, NEW s \in Nat
    PROVE  Rounds(r, s)
<1>1. s * r.value \in Nat
  <2>1. \A m, n \in Nat : m * n \in Nat
    OBVIOUS
  <2> QED
    BY <2>1 DEF RuleType
<1>2. applyPercentage(r, s) = (s * r.value + 5000) \div 10000
  BY <1>1 DEF applyPercentage, floorAtZero
<1>3. \A n \in Nat : n \div 10000 \in Nat /\ (n \div 10000) * 10000 <= n /\ n < (n \div 10000) * 10000 + 10000
  OBVIOUS
<1>4. s * r.value + 5000 \in Nat
  BY <1>1
<1> QED
  BY <1>1, <1>2, <1>3, <1>4 DEF Rounds

\* The lowest price of a cart that is not empty is that of a line, and no line
\* has a lower one.
LEMMA LowestFacts ==
    ASSUME NEW lines \in Seq(Priced), lines # <<>>
    PROVE  /\ applyFreeLowest(lines) \in Nat
           /\ \E i \in DOMAIN lines : applyFreeLowest(lines) = lines[i].price
           /\ \A i \in DOMAIN lines : applyFreeLowest(lines) <= lines[i].price
<1> DEFINE P == {line.price : line \in ToSet(lines)}
<1>1. \A i \in DOMAIN lines : lines[i].price \in Nat
  BY LinesType
<1>2. P = {lines[i].price : i \in DOMAIN lines}
  BY DEF ToSet
<1>3. P \subseteq Int /\ P # {}
  <2> HIDE DEF P
  <2>1. 1 \in DOMAIN lines
    OBVIOUS
  <2>2. lines[1].price \in P
    BY <1>2, <2>1
  <2> QED
    BY <1>1, <1>2, <2>2
<1>4. IsFiniteSet(P)
  <2>1. IsFiniteSet(DOMAIN lines)
    BY LinesType
  <2> DEFINE f == [i \in DOMAIN lines |-> lines[i].price]
  <2>2. f \in Surjection(DOMAIN lines, P)
    BY <1>2 DEF Surjection
  <2> QED
    BY <2>1, <2>2, FS_Surjection
<1> HIDE DEF P
<1>5. PICK m \in P : \A x \in P : m <= x
  BY <1>3, <1>4, FiniteMin
<1>6. Min(P) \in P /\ \A x \in P : Min(P) <= x
  BY <1>5 DEF Min
<1>7. applyFreeLowest(lines) = Min(P)
  <2>1. Min(P) \in Nat
    BY <1>1, <1>2, <1>6
  <2> QED
    BY <2>1 DEF applyFreeLowest, findLowestUnitPrice, floorAtZero, P
<1> QED
  BY <1>1, <1>2, <1>6, <1>7

\* What a line costs, and so a unit of it, is part of the subtotal.
LEMMA LineCost ==
    ASSUME NEW lines \in Seq(Priced), NEW i \in DOMAIN lines
    PROVE  lines[i].price <= calcSubtotal(lines)
<1> DEFINE S == DOMAIN lines
           w == Costs(lines)
<1>1. IsFiniteSet(S) /\ \A k \in S : w[k] \in Nat
  BY LinesType
<1>2. lines[i].price <= w[i]
  <2>1. lines[i].price \in Nat /\ lines[i].quantity \in Nat \ {0}
    BY LinesType
  <2>2. \A p \in Nat : \A n \in Nat \ {0} : p <= p * n
    <3> SUFFICES ASSUME NEW p \in Nat, NEW n \in Nat \ {0} PROVE p <= p * n
      OBVIOUS
    <3>1. p * n = p + p * (n - 1) /\ p * (n - 1) \in Nat
      <4>1. PICK m \in Nat : n = m + 1
        OBVIOUS
      <4>2. p * n = p + p * m /\ p * m \in Nat /\ n - 1 = m
        BY <4>1
      <4> QED
        BY <4>2
    <3> QED
      BY <3>1
  <2> QED
    BY <2>1, <2>2 DEF Costs
<1>3. calcSubtotal(lines) = SumFunctionOnSet(w, S)
  BY DEF calcSubtotal, SumFunction, Costs
<1>4. i \in S /\ w[i] \in Nat /\ S \ {i} \in SUBSET S
  BY <1>1
<1> HIDE DEF S, w
<1>5. SumFunctionOnSet(w, S) = w[i] + SumFunctionOnSet(w, S \ {i})
  <2>1. \A k \in S : w[k] \in Int
    BY <1>1
  <2> QED
    BY <1>1, <1>4, <2>1, SumFacts
<1>6. SumFunctionOnSet(w, S \ {i}) \in Nat
  BY <1>1, <1>4, SumNat
<1>7. lines[i].price \in Nat
  BY LinesType
<1> QED
  BY <1>2, <1>3, <1>4, <1>5, <1>6, <1>7

\* What a strategy grants is not negative and, unless a percentage above 100 is
\* configured, no more than the subtotal; a cap only lowers it.
LEMMA GrantedFacts ==
    ASSUME NEW r \in RuleType, NEW lines \in Seq(Priced)
    PROVE  /\ Granted(r, lines) \in Nat
           /\ (r.type = "percentage" => r.value <= 10000) => Granted(r, lines) <= calcSubtotal(lines)
           /\ Apply(r, lines) = IF r.maxDiscount > 0 /\ r.maxDiscount < Granted(r, lines)
                                THEN r.maxDiscount ELSE Granted(r, lines)
<1> DEFINE s == calcSubtotal(lines)
           G == Granted(r, lines)
           Good == G \in Nat /\ ((r.type = "percentage" => r.value <= 10000) => G <= s)
<1>1. s \in Nat
  <2>1. PICK line \in Priced : TRUE
    <3>1. [price |-> 0, quantity |-> 1] \in Priced
      BY DEF Priced
    <3> QED
      BY <3>1
  <2> QED
    BY SubtotalFacts
<1>2. r.type \in DiscountTypes /\ r.value \in Nat /\ r.maxDiscount \in Nat
  BY DEF RuleType
<1>3. ASSUME r.type = "percentage" PROVE Good
  <2>1. G = applyPercentage(r, s)
    BY <1>3 DEF Granted
  <2>2. r.value <= 10000 => s * r.value <= s * 10000
    <3> SUFFICES ASSUME r.value <= 10000 PROVE s * r.value <= s * 10000
      OBVIOUS
    <3>1. PICK d \in Nat : r.value + d = 10000
      <4>1. 10000 - r.value \in Nat /\ r.value + (10000 - r.value) = 10000
        BY <1>2
      <4> QED
        BY <4>1
    <3>2. s * 10000 = s * r.value + s * d /\ s * d \in Nat /\ s * r.value \in Nat
      <4>1. \A x, a, b \in Nat : x * (a + b) = x * a + x * b /\ x * a \in Nat /\ x * b \in Nat
        OBVIOUS
      <4> QED
        BY SMTT(30), <1>1, <1>2, <3>1, <4>1
    <3> QED
      BY <3>2
  <2>3. Rounds(r, s)
    <3> HIDE DEF s
    <3> QED
      BY <1>1, PercentageFacts
  <2>4. G \in Nat /\ G * 10000 <= s * r.value + 5000 /\ s * r.value \in Nat
    <3> HIDE DEF s, G
    <3> QED
      BY <2>1, <2>3 DEF Rounds
  <2> HIDE DEF s, G
  <2>5. r.value <= 10000 => G <= s
    BY <1>1, <2>2, <2>4
  <2> QED
    BY <1>3, <2>4, <2>5
<1>4. ASSUME r.type = "fixed" PROVE Good
  <2>1. G = applyFixed(r, s)
    BY <1>4 DEF Granted
  <2>2. Min({r.value, s}) = IF r.value <= s THEN r.value ELSE s
    BY <1>1, <1>2, MinTwo
  <2>3. G = IF r.value <= s THEN r.value ELSE s
    <3> HIDE DEF s, G
    <3> QED
      BY <1>1, <1>2, <2>1, <2>2 DEF applyFixed, floorAtZero
  <2> HIDE DEF s, G
  <2> QED
    BY <1>1, <1>2, <2>3
<1>5. ASSUME r.type = "free_lowest" PROVE Good
  <2>1. G = applyFreeLowest(lines)
    BY <1>5 DEF Granted
  <2>2. CASE lines = <<>>
    <3>1. G = 0
      BY <2>1, <2>2 DEF applyFreeLowest, findLowestUnitPrice, floorAtZero
    <3> HIDE DEF s, G
    <3> QED
      BY <1>1, <3>1
  <2>3. CASE lines # <<>>
    <3>1. G \in Nat
      BY <2>1, <2>3, LowestFacts
    <3>2. PICK i \in DOMAIN lines : G = lines[i].price
      BY <2>1, <2>3, LowestFacts
    <3>3. lines[i].price <= s
      BY LineCost
    <3> HIDE DEF s, G
    <3> QED
      BY <3>1, <3>2, <3>3
  <2> QED
    BY <2>2, <2>3
<1>6. Good
  <2> HIDE DEF Good
  <2> QED
    BY <1>2, <1>3, <1>4, <1>5 DEF DiscountTypes
<1>7. Apply(r, lines) = IF r.maxDiscount > 0 THEN Min({G, r.maxDiscount}) ELSE G
  BY DEF Apply, Granted
<1>8. Min({G, r.maxDiscount}) = IF G <= r.maxDiscount THEN G ELSE r.maxDiscount
  <2> HIDE DEF G
  <2> QED
    BY <1>2, <1>6, MinTwo
<1>9. Apply(r, lines) = IF r.maxDiscount > 0 /\ r.maxDiscount < G THEN r.maxDiscount ELSE G
  <2> HIDE DEF G
  <2> QED
    BY <1>2, <1>6, <1>7, <1>8
<1> QED
  BY <1>6, <1>9

-----------------------------------------------------------------------------
(* The theorems. *)

\* Every rule and every cart of MCPricing has the types the lemmas are about.
LEMMA InitPriceable == Init => Priceable
<1> SUFFICES ASSUME Init PROVE Priceable
  OBVIOUS
<1>1. rule \in RuleType
  <2> DEFINE Of(type, values) == [type : {type}, value : values, minItems : MinItems, maxDiscount : Caps]
  <2>1. rule \in Of("percentage", Percentages) \/ rule \in Of("fixed", FixedValues)
        \/ rule \in Of("free_lowest", {0})
    BY DEF Init, Rules
  <2>2. \A t \in DiscountTypes : \A V \in SUBSET Nat : Of(t, V) \subseteq RuleType
    BY PricingAssumption DEF RuleType
  <2>3. /\ "percentage" \in DiscountTypes /\ "fixed" \in DiscountTypes /\ "free_lowest" \in DiscountTypes
        /\ Percentages \in SUBSET Nat /\ FixedValues \in SUBSET Nat /\ {0} \in SUBSET Nat
    BY PricingAssumption DEF DiscountTypes
  <2> HIDE DEF Of
  <2> QED
    BY <2>1, <2>2, <2>3
<1>2. cart \in Seq(Priced)
  BY DEF Init
<1> QED
  BY <1>1, <1>2 DEF Priceable, RuleType

\* A line that is added is a priced line.
LEMMA StepPriceable == Priceable /\ [Next]_vars => Priceable'
<1> SUFFICES ASSUME Priceable, [Next]_vars PROVE Priceable'
  OBVIOUS
<1>1. CASE UNCHANGED vars
  BY <1>1 DEF vars, Priceable
<1>2. ASSUME NEW p \in UnitPrices, NEW q \in Quantities, AddLine(p, q) PROVE Priceable'
  <2>1. [price |-> p, quantity |-> q] \in Priced
    BY PricingAssumption DEF Priced
  <2> QED
    BY <1>2, <2>1 DEF AddLine, Priceable
<1> QED
  BY <1>1, <1>2 DEF Next

\* Whatever is put in the cart, prices and quantities stay natural numbers, the
\* quantity at least one, and the rule is one of the four strategies.
THEOREM PricedTypes == Spec => []Priceable
  BY InitPriceable, StepPriceable, PTL DEF Spec

\* What the cart of a priceable state costs and what is taken off.
LEMMA Amounts ==
    ASSUME Priceable
    PROVE  /\ subtotal \in Nat
           /\ Granted(rule, cart) \in Nat
           /\ rule.value \in Nat /\ rule.maxDiscount \in Nat /\ rule.minItems \in Int
           /\ (rule.type = "percentage" => rule.value <= 10000) => Granted(rule, cart) <= subtotal
           /\ discount = IF rule.maxDiscount > 0 /\ rule.maxDiscount < Granted(rule, cart)
                         THEN rule.maxDiscount ELSE Granted(rule, cart)
<1>1. rule \in RuleType /\ cart \in Seq(Priced)
  BY DEF Priceable, RuleType
<1>2. calcSubtotal(cart) \in Nat
  <2>1. [price |-> 0, quantity |-> 1] \in Priced
    BY DEF Priced
  <2> QED
    BY <1>1, <2>1, SubtotalFacts
<1> QED
  BY <1>1, <1>2, GrantedFacts DEF RuleType, subtotal, discount

\* The two amounts an order stores make up the subtotal, unless a percentage
\* above 100 is configured: the discount never exceeds it, in any strategy
\* (service.go:133-138, discount.go).
THEOREM AmountsMakeUp == Spec => []AmountsMakeUpSubtotal
<1>1. Priceable => AmountsMakeUpSubtotal
  <2> SUFFICES ASSUME Priceable, rule.type = "percentage" => rule.value <= 10000
               PROVE  Total(cart, discount) + discount = subtotal
    BY DEF AmountsMakeUpSubtotal
  <2>1. subtotal \in Nat /\ discount \in Nat /\ discount <= subtotal
    BY Amounts
  <2>2. Total(cart, discount) = floorAtZero(subtotal - discount)
    BY DEF Total, subtotal
  <2> QED
    BY <2>1, <2>2 DEF floorAtZero
<1> QED
  BY <1>1, PricedTypes, PTL

\* No wrap-around of the Go int that counts the units lets a cart pass that has
\* fewer of them than the rule asks for (discount.go:18-21, 86-92).
THEOREM MinItemsHold == Spec => []MinItemsNeverOvergranted
<1>1. Priceable => MinItemsNeverOvergranted
  <2> SUFFICES ASSUME Priceable, rule.minItems > 0, totalQuantity(cart) >= rule.minItems
               PROVE  SumFunction(Units(cart)) >= rule.minItems
    BY DEF MinItemsNeverOvergranted, MinItemsMet, Units
  <2>1. cart \in Seq(Priced) /\ rule.minItems \in Int
    BY DEF Priceable
  <2>2. /\ totalQuantity(cart) \in Int
        /\ SumFunction(Units(cart)) \in Nat
        /\ totalQuantity(cart) <= SumFunction(Units(cart))
    BY <2>1, UnitsBound
  <2> QED
    BY <2>1, <2>2
<1> QED
  BY <1>1, PricedTypes, PTL

\* The discount is the one the documented formula names, for every rule, cart
\* and cap (discount.go:25-72).
THEOREM DiscountIsTheFormula == Spec => []DiscountMatchesFormula
<1>1. Priceable => DiscountMatchesFormula
  <2> SUFFICES ASSUME Priceable, cart # <<>> PROVE DiscountMatchesFormula
    BY DEF DiscountMatchesFormula
  <2> DEFINE G == Granted(rule, cart)
  <2>0. /\ subtotal \in Nat /\ G \in Nat /\ rule.value \in Nat /\ rule.maxDiscount \in Nat
        /\ discount = IF rule.maxDiscount > 0 /\ rule.maxDiscount < G THEN rule.maxDiscount ELSE G
    BY Amounts
  <2>1. rule \in RuleType /\ cart \in Seq(Priced) /\ rule.type \in DiscountTypes
    BY DEF Priceable, RuleType
  <2>2. ASSUME rule.type = "percentage" PROVE G \in Nearest
    <3>1. G = applyPercentage(rule, subtotal)
      BY <2>2 DEF Granted, subtotal
    <3>2. Rounds(rule, subtotal)
      BY <2>0, <2>1, PercentageFacts
    <3> DEFINE p == subtotal * rule.value
               w == rule.value \div 10000
    <3>3. p \in Nat /\ G * 10000 <= p + 5000 /\ p + 5000 < G * 10000 + 10000
      BY <3>1, <3>2 DEF Rounds
    <3>4. w \in Nat /\ subtotal * (w + 1) \in Nat /\ p <= subtotal * (w + 1) * 10000
      <4>1. \A n \in Nat : n \div 10000 \in Nat /\ n <= (n \div 10000) * 10000 + 10000
        OBVIOUS
      <4>2. w \in Nat /\ rule.value <= w * 10000 + 10000
        BY <2>0, <4>1
      <4>3. \A x, a, b \in Nat : x * a \in Nat /\ x * (a + b) = x * a + x * b
        OBVIOUS
      <4>4. PICK d \in Nat : rule.value + d = (w + 1) * 10000
        <5>1. (w + 1) * 10000 - rule.value \in Nat
              /\ rule.value + ((w + 1) * 10000 - rule.value) = (w + 1) * 10000
          <6> HIDE DEF w
          <6> QED
            BY <2>0, <4>2
        <5> QED
          BY <5>1
      <4>5. \A x, a, n \in Nat : x * (a * n) = x * a * n
        OBVIOUS
      <4> HIDE DEF w
      <4>6. subtotal * (w + 1) * 10000 = p + subtotal * d /\ subtotal * d \in Nat
        <5>1. subtotal * (w + 1) * 10000 = subtotal * ((w + 1) * 10000)
          BY <2>0, <4>2, <4>5
        <5>2. subtotal * ((w + 1) * 10000) = subtotal * (rule.value + d)
          BY <4>4
        <5>3. subtotal * (rule.value + d) = p + subtotal * d /\ subtotal * d \in Nat
          BY <2>0, <4>3
        <5> HIDE DEF p
        <5> QED
          BY <5>1, <5>2, <5>3
      <4>7. subtotal * (w + 1) \in Nat
        BY <2>0, <4>2, <4>3
      <4> QED
        BY <3>3, <4>2, <4>6, <4>7
    <3> DEFINE u == subtotal * (w + 1)
    <3>5. u \in Nat /\ p <= u * 10000
      BY <3>4
    <3> HIDE DEF p, u, G
    <3>6. G \in 0..(u + 1) /\ 2 * (G * 10000 - p) <= 10000 /\ 2 * (G * 10000 - p) > -10000
      BY <2>0, <3>3, <3>5
    <3> QED
      BY <3>6 DEF p, u, w, Nearest
  <2>3. ASSUME rule.type = "fixed" PROVE G \in Flat
    <3>1. G = applyFixed(rule, subtotal)
      BY <2>3 DEF Granted, subtotal
    <3>2. Min({rule.value, subtotal}) = IF rule.value <= subtotal THEN rule.value ELSE subtotal
      BY <2>0, MinTwo
    <3> HIDE DEF G
    <3>3. G = IF rule.value <= subtotal THEN rule.value ELSE subtotal
      BY <2>0, <3>1, <3>2 DEF applyFixed, floorAtZero
    <3> QED
      BY <2>0, <3>3 DEF Flat
  <2>4. ASSUME rule.type = "free_lowest" PROVE G \in OneUnit
    <3>1. G = applyFreeLowest(cart)
      BY <2>4 DEF Granted
    <3> HIDE DEF G
    <3> QED
      BY <2>1, <3>1, LowestFacts DEF OneUnit
  <2>5. G \in Formula
    <3> HIDE DEF G
    <3> QED
      BY <2>1, <2>2, <2>3, <2>4 DEF DiscountTypes, Formula
  <2> HIDE DEF G
  <2> QED
    BY <2>0, <2>5 DEF DiscountMatchesFormula
<1> QED
  BY <1>1, PricedTypes, PTL

\* One more line raises what a strategy grants by no more than the line costs,
\* or the cart without it was free already but for the cap.
LEMMA OneMoreLine ==
    ASSUME NEW r \in RuleType, NEW lines \in Seq(Priced), NEW line \in Priced
    PROVE  \/ Granted(r, Append(lines, line)) <= Granted(r, lines) + line.price * line.quantity
           \/ Granted(r, lines) >= calcSubtotal(lines)
<1> DEFINE more == Append(lines, line)
           s == calcSubtotal(lines)
           x == line.price * line.quantity
           G == Granted(r, lines)
           H == Granted(r, more)
           Good == H <= G + x \/ G >= s
<1>1. s \in Nat /\ x \in Nat /\ calcSubtotal(more) = s + x
  <2>1. \A a, b \in Nat : a * b \in Nat
    OBVIOUS
  <2>2. line.price \in Nat /\ line.quantity \in Nat
    BY DEF Priced
  <2> QED
    BY <2>1, <2>2, SubtotalFacts
<1>2. more \in Seq(Priced)
  OBVIOUS
<1>3. r.type \in DiscountTypes /\ r.value \in Nat
  BY DEF RuleType
<1>4. G \in Nat /\ H \in Nat
  <2> HIDE DEF more
  <2> QED
    BY <1>2, GrantedFacts
<1>5. ASSUME r.type = "percentage" PROVE Good
  <2>1. G = applyPercentage(r, s) /\ H = applyPercentage(r, s + x)
    BY <1>1, <1>5 DEF Granted
  <2>2. Rounds(r, s) /\ Rounds(r, s + x)
    <3>1. s + x \in Nat
      BY <1>1
    <3> HIDE DEF s, x
    <3> QED
      BY <1>1, <3>1, PercentageFacts
  <2> DEFINE a == s * r.value
             b == x * r.value
             c == (s + x) * r.value
  <2> HIDE DEF s, x, G, H
  <2>3. a \in Nat /\ c \in Nat /\ a + 5000 < G * 10000 + 10000 /\ H * 10000 <= c + 5000
    BY <2>1, <2>2 DEF Rounds
  <2>4. c = a + b /\ b \in Nat
    <3>1. \A m, n, v \in Nat : (m + n) * v = m * v + n * v /\ n * v \in Nat
      OBVIOUS
    <3> QED
      BY <1>1, <1>3, <3>1
  <2>5. CASE r.value <= 10000
    <3>1. PICK d \in Nat : r.value + d = 10000
      <4>1. 10000 - r.value \in Nat /\ r.value + (10000 - r.value) = 10000
        BY <1>3, <2>5
      <4> QED
        BY <4>1
    <3>2. x * 10000 = b + x * d /\ x * d \in Nat
      <4>1. \A m, n, v \in Nat : m * (n + v) = m * n + m * v /\ m * v \in Nat
        OBVIOUS
      <4>2. x * (r.value + d) = x * r.value + x * d /\ x * d \in Nat
        BY <1>1, <1>3, <4>1
      <4> QED
        BY <3>1, <4>2
    <3>3. b <= x * 10000
      BY <2>4, <3>2
    <3> HIDE DEF a, b, c
    <3>4. H <= G + x \/ G >= s
      <4>1. H * 10000 < G * 10000 + 10000 + x * 10000
        BY <1>1, <1>4, <2>3, <2>4, <3>3
      <4> QED
        BY <1>1, <1>4, <4>1
    <3> QED
      BY <3>4
  <2>6. CASE r.value > 10000
    <3>1. PICK d \in Nat : r.value = 10000 + d
      <4>1. r.value - 10000 \in Nat /\ r.value = 10000 + (r.value - 10000)
        BY <1>3, <2>6
      <4> QED
        BY <4>1
    <3>2. a = s * 10000 + s * d /\ s * d \in Nat
      <4>1. \A m, n, v \in Nat : m * (n + v) = m * n + m * v /\ m * v \in Nat
        OBVIOUS
      <4> QED
        BY <1>1, <1>3, <3>1, <4>1
    <3>3. s * 10000 <= a
      BY <1>1, <3>2
    <3> HIDE DEF a, b, c
    <3>4. G >= s
      BY <1>1, <1>4, <2>3, <3>3
    <3> QED
      BY <3>4
  <2> QED
    BY <1>3, <2>5, <2>6
<1>6. ASSUME r.type = "fixed" PROVE Good
  <2>1. G = applyFixed(r, s) /\ H = applyFixed(r, s + x)
    BY <1>1, <1>6 DEF Granted
  <2> HIDE DEF s, x, G, H
  <2>2. s + x \in Nat
    BY <1>1
  <2>3. \A n \in Nat : Min({r.value, n}) = IF r.value <= n THEN r.value ELSE n
    BY <1>3, MinTwo
  <2>4. \A n \in Nat : applyFixed(r, n) = IF r.value <= n THEN r.value ELSE n
    BY <1>3, <2>3 DEF applyFixed, floorAtZero
  <2>5. G = (IF r.value <= s THEN r.value ELSE s) /\ H = (IF r.value <= s + x THEN r.value ELSE s + x)
    BY <1>1, <2>1, <2>2, <2>4
  <2> QED
    BY <1>1, <1>3, <2>5
<1>7. ASSUME r.type = "free_lowest" PROVE Good
  <2>1. G = applyFreeLowest(lines) /\ H = applyFreeLowest(more)
    BY <1>7 DEF Granted
  <2>2. CASE lines = <<>>
    <3>1. s = 0
      <4>1. DOMAIN lines = {} /\ \A i \in {} : Costs(lines)[i] \in Int
        BY <2>2
      <4>2. SumFunctionOnSet(Costs(lines), {}) = 0
        BY <4>1, SumFacts, FS_EmptySet
      <4>3. s = SumFunctionOnSet(Costs(lines), DOMAIN lines)
        BY DEF calcSubtotal, SumFunction, Costs
      <4> QED
        BY <4>1, <4>2, <4>3
    <3> HIDE DEF s, G
    <3> QED
      BY <1>4, <3>1
  <2>3. CASE lines # <<>>
    <3>1. PICK i \in DOMAIN lines : G = lines[i].price
      BY <2>1, <2>3, LowestFacts
    <3>2. more # <<>> /\ i \in DOMAIN more /\ more[i] = lines[i]
      BY <2>3
    <3>3. applyFreeLowest(more) <= more[i].price
      <4> HIDE DEF more
      <4> QED
        BY <1>2, <3>2, LowestFacts
    <3>4. H <= G
      BY <2>1, <3>1, <3>2, <3>3
    <3> HIDE DEF H, G, x
    <3> QED
      BY <1>1, <1>4, <3>4
  <2> QED
    BY <2>2, <2>3
<1> HIDE DEF Good
<1>8. Good
  BY <1>3, <1>5, <1>6, <1>7 DEF DiscountTypes
<1> QED
  BY <1>8 DEF Good

\* Putting one more line into a cart never makes the order cheaper, whatever the
\* rule, the rounding and the cap (discount.go, service.go:133-138).
THEOREM MoreCostsMore == Spec => MoreNeverCostsLess
<1>1. Priceable /\ [Next]_vars =>
        [MinItemsMet(rule, cart) /\ MinItemsMet(rule, cart') =>
            Total(cart', Apply(rule, cart')) >= Total(cart, discount)]_vars
  <2> SUFFICES ASSUME Priceable, NEW p \in UnitPrices, NEW q \in Quantities, AddLine(p, q)
               PROVE  Total(cart', Apply(rule, cart')) >= Total(cart, discount)
    BY DEF Next
  <2> DEFINE line == [price |-> p, quantity |-> q]
             more == Append(cart, line)
             s == calcSubtotal(cart)
             x == line.price * line.quantity
             G == Granted(rule, cart)
             H == Granted(rule, more)
             c == rule.maxDiscount
  <2>1. cart' = more /\ line \in Priced /\ rule \in RuleType /\ cart \in Seq(Priced) /\ c \in Nat
    BY PricingAssumption DEF AddLine, Priceable, RuleType, Priced
  <2>2. more \in Seq(Priced)
    BY <2>1
  <2> HIDE DEF line
  <2>3. s \in Nat /\ calcSubtotal(more) = s + x /\ calcSubtotal(more) \in Nat
    BY <2>1, <2>2, SubtotalFacts
  <2>4. x \in Nat
    <3>1. \A a, b \in Nat : a * b \in Nat
      OBVIOUS
    <3> QED
      BY <2>1, <3>1 DEF Priced
  <2>5. H <= G + x \/ G >= s
    BY <2>1, OneMoreLine
  <2>6. /\ G \in Nat /\ H \in Nat
        /\ Apply(rule, cart) = IF c > 0 /\ c < G THEN c ELSE G
        /\ Apply(rule, more) = IF c > 0 /\ c < H THEN c ELSE H
    <3> HIDE DEF more
    <3> QED
      BY <2>1, <2>2, GrantedFacts
  <2>7. /\ Total(cart', Apply(rule, cart')) = floorAtZero(s + x - Apply(rule, more))
        /\ Total(cart, discount) = floorAtZero(s - Apply(rule, cart))
    <3>1. Total(cart', Apply(rule, cart')) = Total(more, Apply(rule, more))
      BY <2>1
    <3>2. Total(cart, discount) = Total(cart, Apply(rule, cart))
      BY DEF discount
    <3>3. Total(cart, Apply(rule, cart)) = floorAtZero(s - Apply(rule, cart))
      BY DEF Total
    <3> HIDE DEF more
    <3>4. Total(more, Apply(rule, more)) = floorAtZero(s + x - Apply(rule, more))
      <4>1. Total(more, Apply(rule, more)) = floorAtZero(calcSubtotal(more) - Apply(rule, more))
        BY DEF Total
      <4> HIDE DEF s, x
      <4>2. calcSubtotal(more) - Apply(rule, more) = s + x - Apply(rule, more)
        <5>1. Apply(rule, more) \in Int
          BY <2>1, <2>6
        <5> QED
          BY <2>3, <2>4, <5>1
      <4> QED
        BY <4>1, <4>2
    <3> HIDE DEF s, x
    <3> QED
      BY <3>1, <3>2, <3>3, <3>4
  <2> HIDE DEF s, x, G, H, c, more
  <2> QED
    BY <2>1, <2>3, <2>4, <2>5, <2>6, <2>7 DEF floorAtZero
<1> QED
  BY <1>1, PricedTypes, PTL DEF Spec, MoreNeverCostsLess
=============================================================================
