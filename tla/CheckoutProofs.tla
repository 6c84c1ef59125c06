--------------------------- MODULE CheckoutProofs ---------------------------
(***************************************************************************)
(* What TLAPS proves of Checkout, for every value of its constants: the    *)
(* types, how far a usage limit can be overrun, what the answers and the   *)
(* tables tell of the orders and the redemptions, the amounts of an order, *)
(* and the refinement of OrderLedger: each step is one entry in the books, *)
(* or none.                                                                *)
(***************************************************************************)
EXTENDS Checkout, FoldLemmas, SequenceTheorems

-----------------------------------------------------------------------------
(* The types. *)

LEMMA InitType == Init => TypeOK
<1> SUFFICES ASSUME Init PROVE TypeOK
  OBVIOUS
<1>1. orders = [a \in DOMAIN orders |-> orders[a]] /\ DOMAIN orders = {}
  BY DEF Init
<1>2. lines \in [Attempts -> Seq(Line)]
  BY DEF Init
<1> QED
  BY <1>1, <1>2, CheckoutAssumption DEF Init, TypeOK, Labels, Statuses

\* What Answer does to the locals and the reply of an attempt.
LEMMA AnswerType ==
  ASSUME TypeOK, NEW a \in Attempts, NEW status \in Statuses, Answer(a, status)
  PROVE  /\ pc' \in [Attempts -> Labels]
         /\ lines' \in [Attempts -> Seq(Line)]
         /\ rule' \in [Attempts -> Row \cup {NoRule}]
         /\ reply' \in [Attempts -> Statuses]
<1>1. <<>> \in Seq(Line)
  OBVIOUS
<1> QED
  BY <1>1 DEF TypeOK, Answer, Goto, Labels

LEMMA GotoType ==
  ASSUME TypeOK, NEW a \in Attempts, NEW label \in Labels, Goto(a, label)
  PROVE  pc' \in [Attempts -> Labels]
BY DEF TypeOK, Goto

\* The service prices the lines with prices it found.
LEMMA LinesType ==
  ASSUME TypeOK, NEW a \in Attempts, req[a] \in Requests, Refusal(req[a]) = 0
  PROVE  [i \in DOMAIN req[a].items |->
             [price |-> products[req[a].items[i].product],
              quantity |-> req[a].items[i].quantity]] \in Seq(Line)
<1> DEFINE items == req[a].items
           priced(i) == [price |-> products[items[i].product], quantity |-> items[i].quantity]
<1>1. items \in Seq([product : Products, quantity : Int])
  BY CheckoutAssumption DEF Request
<1>2. \A item \in ToSet(items) : products[item.product] # NoPrice
  BY DEF Refusal
<1>3. \A i \in DOMAIN items : items[i] \in ToSet(items)
  BY DEF ToSet
<1> HIDE DEF items
<1>4. DOMAIN items = 1..Len(items) /\ Len(items) \in Nat
  BY <1>1
<1>5. \A i \in DOMAIN items : items[i] \in [product : Products, quantity : Int]
  BY <1>1, <1>4, ElementOfSeq
<1>6. \A i \in DOMAIN items : products[items[i].product] \in Int
  BY <1>2, <1>3, <1>5, CheckoutAssumption DEF TypeOK
<1>7. \A i \in DOMAIN items : priced(i) \in Line
  BY <1>5, <1>6 DEF Line
<1> HIDE DEF priced
<1>8. [i \in DOMAIN items |-> priced(i)] \in Seq(Line)
  BY <1>4, <1>7
<1> QED
  BY <1>8 DEF items, priced

\* What the two statements that write a coupon row make of it.
LEMMA CountedRowType ==
  ASSUME NEW row \in Row
  PROVE  [row EXCEPT !.uses = row.uses + 1] \in Row
BY DEF Row

LEMMA RewrittenRowType ==
  ASSUME NEW row \in Row, NEW t \in Templates
  PROVE  [row EXCEPT !.type = t.type, !.value = t.value,
                     !.minItems = t.minItems, !.active = TRUE] \in Row
BY CheckoutAssumption DEF Row, Template

LEMMA IncrementedType ==
  ASSUME TypeOK, NEW code
  PROVE  Incremented(code) \in [StoredCodes -> Row \cup {NoRow}]
<1>1. CASE code \in StoredCodes /\ coupons[code] # NoRow
  <2>1. coupons[code] \in Row
    BY <1>1 DEF TypeOK
  <2>2. [coupons[code] EXCEPT !.uses = coupons[code].uses + 1] \in Row
    BY <2>1, CountedRowType
  <2>3. Incremented(code) =
          [coupons EXCEPT ![code] = [coupons[code] EXCEPT !.uses = coupons[code].uses + 1]]
    BY <1>1 DEF Incremented
  <2> QED
    BY <1>1, <2>2, <2>3 DEF TypeOK
<1>2. CASE ~(code \in StoredCodes /\ coupons[code] # NoRow)
  BY <1>2 DEF TypeOK, Incremented
<1> QED
  BY <1>1, <1>2

LEMMA UpsertedType ==
  ASSUME TypeOK, NEW code \in StoredCodes, NEW t \in Templates
  PROVE  Upserted(code, t) \in [StoredCodes -> Row \cup {NoRow}]
<1>1. [type |-> t.type, value |-> t.value, minItems |-> t.minItems,
       maxDiscount |-> 0, from |-> Null, until |-> Null,
       maxUses |-> 0, uses |-> 0, active |-> TRUE] \in Row
  BY CheckoutAssumption DEF Template, Row
<1>2. coupons[code] # NoRow =>
         [coupons[code] EXCEPT !.type = t.type, !.value = t.value,
                               !.minItems = t.minItems, !.active = TRUE] \in Row
  BY RewrittenRowType DEF TypeOK
<1> QED
  BY <1>1, <1>2 DEF TypeOK, Upserted

LEMMA InsertedType ==
  ASSUME TypeOK, NEW a \in Attempts, NEW row, orders' = Inserted(a, row)
  PROVE  /\ orders' = [x \in DOMAIN orders' |-> orders'[x]]
         /\ DOMAIN orders' = DOMAIN orders \cup {a}
         /\ DOMAIN orders' \subseteq Attempts
         /\ orders'[a] = row
         /\ \A b \in DOMAIN orders \ {a} : orders'[b] = orders[b]
BY DEF Inserted, TypeOK

-----------------------------------------------------------------------------
\* A handler serves one of the requests there are.
Sent == \A a \in Attempts : pc[a] # "unsent" => req[a] \in Requests

LEMMA StepSent == TypeOK /\ Sent /\ [Next]_vars => Sent'
<1> SUFFICES ASSUME TypeOK, Sent, [Next]_vars, NEW b \in Attempts, pc'[b] # "unsent"
             PROVE  req'[b] \in Requests
  BY DEF Sent
<1>1. ASSUME NEW a \in Attempts, NEW r \in Requests, Receive(a, r)
      PROVE  req'[b] \in Requests
  BY <1>1 DEF Receive, Goto, Sent, TypeOK
<1>2. ASSUME NEW a \in Attempts, Handle(a)
      PROVE  pc[b] # "unsent" /\ req' = req
  BY <1>2 DEF Handle, Authenticate, FetchProducts, FindByCode, CheckRule,
              IncrementUses, CreateOrder, Answer, Goto, TypeOK
<1>3. CASE UNCHANGED <<pc, req>>
  BY <1>3 DEF Sent
<1>4. CASE Crash
  BY <1>4 DEF Crash, InFlight, Serving, Sent
<1> QED
  BY <1>1, <1>2, <1>3, <1>4
  DEF Next, Sent, vars, ApplyStray, DropStray, UpsertProduct, UpsertCoupon, Tick

-----------------------------------------------------------------------------
\* Every step keeps the types.
LEMMA StepType == TypeOK /\ Sent /\ [Next]_vars => TypeOK'
<1> SUFFICES ASSUME TypeOK, Sent, [Next]_vars PROVE TypeOK'
  OBVIOUS
<1>1. ASSUME NEW a \in Attempts, NEW r \in Requests, Receive(a, r)
      PROVE  TypeOK'
  BY <1>1, GotoType DEF Receive, TypeOK, tables, Labels, Serving, Goto
<1>2. ASSUME NEW a \in Attempts, Authenticate(a)
      PROVE  TypeOK'
  <2>1. CASE Answer(a, 401) \/ Answer(a, 400)
    BY <1>2, <2>1, AnswerType DEF Authenticate, TypeOK, tables, Statuses
  <2>2. CASE Goto(a, "fetch") /\ UNCHANGED <<lines, rule, reply>>
    BY <1>2, <2>2, GotoType DEF Authenticate, TypeOK, tables, Labels, Serving
  <2> QED
    BY <1>2, <2>1, <2>2 DEF Authenticate
<1>3. ASSUME NEW a \in Attempts, FetchProducts(a)
      PROVE  TypeOK'
  <2>1. ASSUME NEW status \in Statuses, Answer(a, status)
        PROVE  TypeOK'
    BY <1>3, <2>1, AnswerType DEF FetchProducts, TypeOK, tables
  <2>2. Refusal(req[a]) \in Statuses
    BY DEF Refusal, Statuses
  <2>3. CASE /\ Refusal(req[a]) = 0
             /\ lines' = [lines EXCEPT ![a] =
                   [i \in DOMAIN req[a].items |->
                       [price |-> products[req[a].items[i].product],
                        quantity |-> req[a].items[i].quantity]]]
             /\ Goto(a, IF req[a].coupon = NoCoupon THEN "create" ELSE "find")
             /\ UNCHANGED <<rule, reply>>
    <3>1. req[a] \in Requests
      BY <1>3 DEF FetchProducts, Sent
    <3>2. lines' \in [Attempts -> Seq(Line)]
      BY <1>3, <2>3, <3>1, LinesType DEF FetchProducts, TypeOK
    <3> QED
      BY <1>3, <2>3, <3>2, GotoType DEF FetchProducts, TypeOK, tables, Labels, Serving
  <2> QED
    BY <1>3, <2>1, <2>2, <2>3 DEF FetchProducts, Statuses
<1>4. ASSUME NEW a \in Attempts, FindByCode(a)
      PROVE  TypeOK'
  <2>1. ASSUME NEW status \in Statuses, Answer(a, status)
        PROVE  TypeOK'
    BY <1>4, <2>1, AnswerType DEF FindByCode, TypeOK, tables
  <2>2. ASSUME NEW c \in MatchingCodes(req[a].coupon), rule' = [rule EXCEPT ![a] = coupons[c]],
               Goto(a, "check"), UNCHANGED <<lines, reply>>
        PROVE  TypeOK'
    <3>1. coupons[c] \in Row
      BY DEF MatchingCodes, TypeOK
    <3> QED
      BY <1>4, <2>2, <3>1, GotoType DEF FindByCode, TypeOK, tables, Labels, Serving
  <2> QED
    BY <1>4, <2>1, <2>2 DEF FindByCode, Statuses
<1>5. ASSUME NEW a \in Attempts, CheckRule(a)
      PROVE  TypeOK'
  <2>1. CASE Answer(a, 422)
    BY <1>5, <2>1, AnswerType DEF CheckRule, TypeOK, tables, Statuses
  <2>2. CASE Goto(a, "increment") /\ UNCHANGED <<lines, rule, reply>>
    BY <1>5, <2>2, GotoType DEF CheckRule, TypeOK, tables, Labels, Serving
  <2> QED
    BY <1>5, <2>1, <2>2 DEF CheckRule
<1>6. ASSUME NEW a \in Attempts, IncrementUses(a)
      PROVE  TypeOK'
  <2>1. CASE Answer(a, 500) /\ LeaveBehind({a}) /\ UNCHANGED coupons
    BY <1>6, <2>1, AnswerType DEF IncrementUses, LeaveBehind, Unfinished, Statement, TypeOK, Statuses
  <2>2. CASE /\ coupons' = Incremented(req[a].coupon)
             /\ Goto(a, "create")
             /\ UNCHANGED <<stray, lines, rule, reply>>
    BY <1>6, <2>2, GotoType, IncrementedType DEF IncrementUses, TypeOK, Labels, Serving
  <2> QED
    BY <1>6, <2>1, <2>2 DEF IncrementUses
<1>7. ASSUME NEW a \in Attempts, CreateOrder(a)
      PROVE  TypeOK'
  <2>1. CASE Answer(a, 500) /\ LeaveBehind({a}) /\ UNCHANGED orders
    BY <1>7, <2>1, AnswerType DEF CreateOrder, LeaveBehind, Unfinished, Statement, TypeOK, Statuses
  <2>2. CASE orders' = Inserted(a, OrderRow(a)) /\ Answer(a, 200) /\ UNCHANGED stray
    <3>1. orders' = [x \in DOMAIN orders' |-> orders'[x]] /\ DOMAIN orders' \subseteq Attempts
      BY <2>2, InsertedType
    <3> QED
      BY <1>7, <2>2, <3>1, AnswerType DEF CreateOrder, TypeOK, Statuses
  <2> QED
    BY <1>7, <2>1, <2>2 DEF CreateOrder
<1>8. CASE Crash
  <2>1. lines' \in [Attempts -> Seq(Line)] /\ rule' \in [Attempts -> Row \cup {NoRule}]
    BY <1>8 DEF Crash
  <2>2. pc' \in [Attempts -> Labels]
    BY <1>8 DEF Crash, TypeOK, Labels
  <2>3. \A s \in stray' : s.by \in Attempts /\ s.op \in {"increment", "create"}
    BY <1>8 DEF Crash, LeaveBehind, Unfinished, Statement, InFlight, TypeOK
  <2> QED
    BY <1>8, <2>1, <2>2, <2>3 DEF Crash, TypeOK, tables
<1>9. ASSUME NEW s \in stray, ApplyStray(s)
      PROVE  TypeOK'
  <2>1. CASE coupons' = Incremented(s.row.coupon) /\ UNCHANGED orders
    BY <1>9, <2>1, IncrementedType DEF ApplyStray, TypeOK
  <2>2. CASE orders' = Inserted(s.by, s.row) /\ UNCHANGED coupons
    <3>1. orders' = [x \in DOMAIN orders' |-> orders'[x]] /\ DOMAIN orders' \subseteq Attempts
      <4>1. s.by \in Attempts
        BY DEF TypeOK
      <4> QED
        BY <2>2, <4>1, InsertedType
    <3> QED
      BY <1>9, <2>2, <3>1 DEF ApplyStray, TypeOK
  <2> QED
    BY <1>9, <2>1, <2>2 DEF ApplyStray
<1>10. ASSUME NEW s \in stray, DropStray(s)
       PROVE  TypeOK'
  BY <1>10 DEF DropStray, TypeOK, tables
<1>11. ASSUME NEW p \in Products, NEW price \in Prices, UpsertProduct(p, price)
       PROVE  TypeOK'
  BY <1>11 DEF UpsertProduct, TypeOK
<1>12. ASSUME NEW code \in StoredCodes, NEW t \in Templates, UpsertCoupon(code, t)
       PROVE  TypeOK'
  BY <1>12, UpsertedType DEF UpsertCoupon, TypeOK
<1>13. CASE Tick
  BY <1>13, CheckoutAssumption DEF Tick, TypeOK, tables
<1>14. CASE UNCHANGED vars
  BY <1>14 DEF vars, TypeOK
<1> QED
  BY <1>1, <1>2, <1>3, <1>4, <1>5, <1>6, <1>7, <1>8, <1>9, <1>10, <1>11, <1>12, <1>13, <1>14
  DEF Next, Handle

\* The tables and the locals of every handler keep the types their declarations
\* and the generated decoder promise, in every behaviour.
THEOREM TypeCorrect == Spec => []TypeOK
<1>1. Init => TypeOK /\ Sent
  BY InitType DEF Init, Sent
<1>2. TypeOK /\ Sent /\ [Next]_vars => TypeOK' /\ Sent'
  BY StepType, StepSent
<1> QED
  BY <1>1, <1>2, PTL DEF Spec

-----------------------------------------------------------------------------
(* How far a limit can be overrun. *)

\* The bounds that the guards of Receive and LeaveBehind set are kept.
WithinBounds ==
    /\ IsFiniteSet(InFlight)
    /\ Cardinality(InFlight) <= MaxInFlight
    /\ IsFiniteSet(stray)
    /\ Cardinality(stray) <= MaxStray

\* Statements are left behind only by attempts that are over, one by each, and
\* they carry the coupon code of the request.
StrayOK ==
    /\ \A s \in stray : /\ pc[s.by] \in {"answered", "lost"}
                        /\ s.row.coupon = req[s.by].coupon
    /\ \A s, t \in stray : s.by = t.by => s = t

\* Only a rule with uses left, as it was read, gets past the check.
PastCheck == \A a \in Attempts : pc[a] = "increment" => UsesLeft(rule[a])

\* A limited coupon keeps its row and its limit.
LimitKept ==
    \A c \in StoredCodes :
        Limited(c) => coupons[c] # NoRow /\ coupons[c].maxUses = InitialCoupons[c].maxUses

\* Once the counter has reached the limit it grows only by the claims there are,
\* and no claim is added to them.
ClaimsBound ==
    NoCaseVariants =>
        \A c \in StoredCodes :
            Limited(c) => coupons[c].uses + Cardinality(Claims(c))
                            < coupons[c].maxUses + MaxInFlight + MaxStray

-----------------------------------------------------------------------------
LEMMA AddOne ==
  ASSUME NEW S, IsFiniteSet(S), NEW x
  PROVE  /\ IsFiniteSet(S \cup {x})
         /\ Cardinality(S) \in Nat
         /\ Cardinality(S \cup {x}) \in Nat
         /\ Cardinality(S \cup {x}) <= Cardinality(S) + 1
<1>1. Cardinality(S) \in Nat
  BY FS_CardinalityType
<1>2. CASE x \in S
  BY <1>1, <1>2, FS_AddElement
<1>3. CASE x \notin S
  BY <1>1, <1>3, FS_AddElement
<1> QED
  BY <1>2, <1>3

LEMMA UnfinishedFinite ==
  ASSUME NEW A, IsFiniteSet(A)
  PROVE  IsFiniteSet(Unfinished(A))
<1> DEFINE B == {b \in A : \/ pc[b] = "increment"
                           \/ pc[b] = "create" /\ Fits(OrderRow(b))}
           f == [b \in B |-> Statement(b)]
<1>1. IsFiniteSet(B)
  BY FS_Subset
<1>2. f \in Surjection(B, Unfinished(A))
  BY DEF Surjection, Unfinished
<1> QED
  BY <1>1, <1>2, FS_Surjection

LEMMA LeftBehindFinite ==
  ASSUME NEW A, IsFiniteSet(A), IsFiniteSet(stray), LeaveBehind(A)
  PROVE  IsFiniteSet(stray') /\ Cardinality(stray') <= MaxStray
<1>1. PICK S \in SUBSET Unfinished(A) : /\ Cardinality(stray \cup S) <= MaxStray
                                        /\ stray' = stray \cup S
  BY DEF LeaveBehind
<1>2. IsFiniteSet(S)
  BY UnfinishedFinite, FS_Subset
<1> QED
  BY <1>1, <1>2, FS_Union

LEMMA StepBounds == TypeOK /\ WithinBounds /\ [Next]_vars => WithinBounds'
<1> SUFFICES ASSUME TypeOK, WithinBounds, [Next]_vars PROVE WithinBounds'
  OBVIOUS
<1> DEFINE Serves == IsFiniteSet(InFlight') /\ Cardinality(InFlight') <= MaxInFlight
           Strays == IsFiniteSet(stray') /\ Cardinality(stray') <= MaxStray
<1>1. CASE InFlight' \subseteq InFlight
  <2>1. Serves
    BY <1>1, FS_Subset, FS_CardinalityType, CheckoutAssumption DEF WithinBounds
  <2>2. CASE stray' \subseteq stray
    BY <2>1, <2>2, FS_Subset, FS_CardinalityType, CheckoutAssumption DEF WithinBounds
  <2>3. ASSUME NEW A \in SUBSET Attempts, IsFiniteSet(A), LeaveBehind(A)
        PROVE  WithinBounds'
    BY <2>1, <2>3, LeftBehindFinite DEF WithinBounds
  <2>4. ASSUME NEW a \in Attempts, Handle(a)
        PROVE  WithinBounds'
    BY <2>2, <2>3, <2>4, FS_Singleton
    DEF Handle, Authenticate, FetchProducts, FindByCode, CheckRule, IncrementUses, CreateOrder
  <2>5. CASE Crash
    BY <2>3, <2>5 DEF Crash, WithinBounds, InFlight
  <2> QED
    BY <2>2, <2>4, <2>5 DEF Next, vars, Receive, ApplyStray, DropStray, UpsertProduct, UpsertCoupon, Tick
<1>2. ASSUME NEW a \in Attempts, NEW r \in Requests, Receive(a, r)
      PROVE  WithinBounds'
  <2>1. InFlight' = InFlight \cup {a}
    BY <1>2 DEF Receive, Goto, InFlight, Serving, TypeOK
  <2>2. Cardinality(InFlight) < MaxInFlight /\ stray' = stray
    BY <1>2 DEF Receive
  <2>3. Serves
    <3>1. IsFiniteSet(InFlight)
      BY DEF WithinBounds
    <3>2. /\ IsFiniteSet(InFlight \cup {a})
          /\ Cardinality(InFlight) \in Nat
          /\ Cardinality(InFlight \cup {a}) \in Nat
          /\ Cardinality(InFlight \cup {a}) <= Cardinality(InFlight) + 1
      BY <3>1, AddOne
    <3>3. Cardinality(InFlight \cup {a}) <= MaxInFlight
      BY <2>2, <3>2, CheckoutAssumption
    <3> QED
      BY <2>1, <3>2, <3>3
  <2> QED
    BY <2>2, <2>3 DEF WithinBounds
<1>3. ASSUME NEW a \in Attempts, Handle(a)
      PROVE  InFlight' \subseteq InFlight
  BY <1>3 DEF Handle, Authenticate, FetchProducts, FindByCode, CheckRule, IncrementUses,
              CreateOrder, Answer, Goto, InFlight, Serving, TypeOK
<1>4. CASE Crash
  BY <1>1, <1>4 DEF Crash, InFlight, Serving, TypeOK
<1>5. CASE UNCHANGED pc
  BY <1>1, <1>5 DEF InFlight
<1> QED
  BY <1>1, <1>2, <1>3, <1>4, <1>5
  DEF Next, vars, ApplyStray, DropStray, UpsertProduct, UpsertCoupon, Tick

-----------------------------------------------------------------------------
LEMMA StepStray == TypeOK /\ StrayOK /\ [Next]_vars => StrayOK'
<1> SUFFICES ASSUME TypeOK, StrayOK, [Next]_vars PROVE StrayOK'
  OBVIOUS
\* What is left behind by handlers that end in the same step.
<1>1. ASSUME NEW A \in SUBSET InFlight, LeaveBehind(A), req' = req,
             \A b \in Attempts : pc'[b] = pc[b] \/ b \in InFlight,
             \A b \in A : pc'[b] \in {"answered", "lost"}
      PROVE  StrayOK'
  <2>1. PICK S \in SUBSET Unfinished(A) : stray' = stray \cup S
    BY <1>1 DEF LeaveBehind
  <2>2. \A s \in stray : s.by \notin InFlight /\ pc'[s.by] = pc[s.by]
    BY <1>1 DEF StrayOK, InFlight, Serving, TypeOK
  <2>3. \A s \in S : /\ s.by \in A
                     /\ s = Statement(s.by)
                     /\ s.row.coupon = req[s.by].coupon
    <3> SUFFICES ASSUME NEW s \in S
                 PROVE  s.by \in A /\ s = Statement(s.by) /\ s.row.coupon = req[s.by].coupon
      OBVIOUS
    <3>1. PICK b \in A : s = Statement(b)
      BY DEF Unfinished
    <3>2. s.by = b /\ s.row = OrderRow(b)
      BY <3>1 DEF Statement
    <3>3. OrderRow(b).coupon = req[b].coupon
      BY DEF OrderRow
    <3> QED
      BY <3>1, <3>2, <3>3
  <2>4. \A s, t \in stray' : s.by = t.by => s = t
    BY <1>1, <2>1, <2>2, <2>3 DEF StrayOK
  <2>5. \A s \in stray' : /\ pc'[s.by] \in {"answered", "lost"}
                          /\ s.row.coupon = req'[s.by].coupon
    BY <1>1, <2>1, <2>2, <2>3 DEF StrayOK
  <2> QED
    BY <2>4, <2>5 DEF StrayOK
<1>2. ASSUME stray' \subseteq stray,
             \A s \in stray : pc'[s.by] = pc[s.by] /\ req'[s.by] = req[s.by]
      PROVE  StrayOK'
  BY <1>2 DEF StrayOK
<1>3. ASSUME NEW a \in Attempts, NEW r \in Requests, Receive(a, r)
      PROVE  StrayOK'
  <2>1. \A s \in stray : s.by \in Attempts \ {a}
    BY <1>3 DEF Receive, StrayOK, TypeOK
  <2> QED
    BY <1>2, <1>3, <2>1 DEF Receive, Goto, TypeOK
<1>4. ASSUME NEW a \in Attempts, Handle(a)
      PROVE  StrayOK'
  <2>1. a \in InFlight /\ req' = req /\ \A b \in Attempts \ {a} : pc'[b] = pc[b]
    BY <1>4 DEF Handle, Authenticate, FetchProducts, FindByCode, CheckRule, IncrementUses,
                CreateOrder, Answer, Goto, InFlight, Serving, TypeOK
  <2>2. \A s \in stray : s.by \in Attempts \ {a}
    BY <2>1 DEF StrayOK, InFlight, Serving, TypeOK
  <2>3. CASE UNCHANGED stray
    BY <1>2, <2>1, <2>2, <2>3
  <2>4. CASE LeaveBehind({a}) /\ Answer(a, 500)
    BY <1>1, <2>1, <2>4 DEF Answer, Goto, TypeOK
  <2> QED
    BY <1>4, <2>3, <2>4 DEF Handle, Authenticate, FetchProducts, FindByCode, CheckRule,
                            IncrementUses, CreateOrder
<1>5. CASE Crash
  <2>1. \A b \in Attempts : pc'[b] = IF b \in InFlight THEN "lost" ELSE pc[b]
    BY <1>5 DEF Crash
  <2> QED
    BY <1>1, <1>5, <2>1 DEF Crash, InFlight
<1>6. CASE UNCHANGED <<pc, req>> /\ stray' \subseteq stray
  BY <1>2, <1>6
<1> QED
  BY <1>3, <1>4, <1>5, <1>6
  DEF Next, vars, ApplyStray, DropStray, UpsertProduct, UpsertCoupon, Tick

LEMMA StepPastCheck == TypeOK /\ PastCheck /\ [Next]_vars => PastCheck'
<1> SUFFICES ASSUME TypeOK, PastCheck, [Next]_vars,
                    NEW b \in Attempts, pc'[b] = "increment"
             PROVE  UsesLeft(rule'[b])
  BY DEF PastCheck, UsesLeft
<1>1. ASSUME NEW a \in Attempts, Handle(a)
      PROVE  UsesLeft(rule'[b])
  <2>1. CASE b = a
    <3>1. CheckRule(a) /\ rule' = rule /\ UsesLeft(rule[a])
      BY <1>1, <2>1 DEF Handle, Authenticate, FetchProducts, FindByCode, CheckRule,
                        IncrementUses, CreateOrder, Answer, Goto, TypeOK
    <3> QED
      BY <2>1, <3>1
  <2>2. CASE b # a
    BY <1>1, <2>2 DEF Handle, Authenticate, FetchProducts, FindByCode, CheckRule,
                      IncrementUses, CreateOrder, Answer, Goto, PastCheck, TypeOK
  <2> QED
    BY <2>1, <2>2
<1>2. CASE \E a \in Attempts, r \in Requests : Receive(a, r)
  BY <1>2 DEF Receive, Goto, PastCheck, TypeOK
<1>3. CASE Crash
  BY <1>3 DEF Crash, InFlight, Serving
<1>4. CASE UNCHANGED <<pc, rule>>
  BY <1>4 DEF PastCheck
<1> QED
  BY <1>1, <1>2, <1>3, <1>4
  DEF Next, vars, ApplyStray, DropStray, UpsertProduct, UpsertCoupon, Tick

-----------------------------------------------------------------------------
\* A write of the coupons table loses no row, makes none inactive, and changes
\* neither the limit nor the window; only the increment of a code changes its counter, by one.
Same(row, kept) ==
    /\ row # NoRow /\ (kept.active => row.active)
    /\ row.maxUses = kept.maxUses
    /\ row.from = kept.from
    /\ row.until = kept.until

LEMMA IncrementKeeps ==
  ASSUME TypeOK, NEW c \in StoredCodes, coupons[c] # NoRow, NEW code,
         coupons' = Incremented(code)
  PROVE  /\ Same(coupons'[c], coupons[c])
         /\ coupons'[c].uses = IF c = code THEN coupons[c].uses + 1 ELSE coupons[c].uses
<1>1. coupons[c] \in Row
  BY DEF TypeOK
<1>2. CASE c = code
  <2>1. coupons'[c] = [coupons[c] EXCEPT !.uses = coupons[c].uses + 1]
    BY <1>2 DEF Incremented, TypeOK
  <2>2. coupons'[c] \in Row
    BY <1>1, <2>1, CountedRowType
  <2> QED
    BY <1>1, <1>2, <2>1, <2>2, CheckoutAssumption DEF Same, Row
<1>3. CASE c # code
  BY <1>1, <1>3 DEF Incremented, TypeOK, Same
<1> QED
  BY <1>2, <1>3

LEMMA UpsertKeeps ==
  ASSUME TypeOK, NEW c \in StoredCodes, coupons[c] # NoRow,
         NEW code \in StoredCodes, NEW t \in Templates, coupons' = Upserted(code, t)
  PROVE  Same(coupons'[c], coupons[c]) /\ coupons'[c].uses = coupons[c].uses
<1>1. coupons[c] \in Row
  BY DEF TypeOK
<1>2. CASE c = code
  <2>1. coupons'[c] = [coupons[c] EXCEPT !.type = t.type, !.value = t.value,
                                         !.minItems = t.minItems, !.active = TRUE]
    BY <1>2 DEF Upserted, TypeOK
  <2>2. coupons'[c] \in Row
    BY <1>1, <2>1, RewrittenRowType
  <2> QED
    BY <1>1, <2>1, <2>2, CheckoutAssumption DEF Same, Row
<1>3. CASE c # code
  BY <1>1, <1>3 DEF Upserted, TypeOK, Same
<1> QED
  BY <1>2, <1>3

\* What a step can do to a coupon that has a row.
LEMMA StepKeeps ==
  ASSUME TypeOK, [Next]_vars, NEW c \in StoredCodes, coupons[c] # NoRow
  PROVE  Same(coupons'[c], coupons[c]) /\ coupons'[c].uses >= coupons[c].uses
<1>1. coupons[c] \in Row /\ coupons[c].uses \in Nat
  BY DEF TypeOK, Row
<1>2. CASE coupons' = coupons
  BY <1>1, <1>2 DEF Same
<1>3. ASSUME NEW code, coupons' = Incremented(code)
      PROVE  Same(coupons'[c], coupons[c]) /\ coupons'[c].uses >= coupons[c].uses
  BY <1>1, <1>3, IncrementKeeps
<1>4. ASSUME NEW code \in StoredCodes, NEW t \in Templates, coupons' = Upserted(code, t)
      PROVE  Same(coupons'[c], coupons[c]) /\ coupons'[c].uses >= coupons[c].uses
  BY <1>1, <1>4, UpsertKeeps
<1>5. ASSUME NEW a \in Attempts, Handle(a)
      PROVE  coupons' = coupons \/ coupons' = Incremented(req[a].coupon)
  BY <1>5 DEF Handle, Authenticate, FetchProducts, FindByCode, CheckRule, IncrementUses,
              CreateOrder, tables
<1>6. ASSUME NEW s \in stray, ApplyStray(s) \/ DropStray(s)
      PROVE  coupons' = coupons \/ coupons' = Incremented(s.row.coupon)
  BY <1>6 DEF ApplyStray, DropStray, tables
<1>7. ASSUME NEW code \in StoredCodes, NEW t \in Templates, UpsertCoupon(code, t)
      PROVE  coupons' = Upserted(code, t)
  BY <1>7 DEF UpsertCoupon
<1> QED
  BY <1>2, <1>3, <1>4, <1>5, <1>6, <1>7
  DEF Next, vars, tables, Receive, Crash, UpsertProduct, Tick

LEMMA StepLimitKept == TypeOK /\ LimitKept /\ [Next]_vars => LimitKept'
BY StepKeeps DEF LimitKept, Same, Limited

-----------------------------------------------------------------------------
LEMMA Shrunk ==
  ASSUME NEW S, IsFiniteSet(S), NEW T, T \subseteq S
  PROVE  /\ IsFiniteSet(T)
         /\ Cardinality(S) \in Nat /\ Cardinality(T) \in Nat
         /\ Cardinality(T) <= Cardinality(S)
BY FS_Subset, FS_CardinalityType

LEMMA ShrunkByOne ==
  ASSUME NEW S, IsFiniteSet(S), NEW T, T \subseteq S, NEW x \in S, x \notin T
  PROVE  Cardinality(T) + 1 <= Cardinality(S)
<1>1. IsFiniteSet(S \ {x}) /\ Cardinality(S \ {x}) = Cardinality(S) - 1
  BY FS_RemoveElement
<1>2. T \subseteq S \ {x}
  OBVIOUS
<1>3. Cardinality(S) \in Nat /\ Cardinality(T) \in Nat
  BY Shrunk
<1>4. Cardinality(T) <= Cardinality(S \ {x})
  BY <1>1, <1>2, Shrunk
<1> QED
  BY <1>1, <1>3, <1>4

LEMMA UnionBound ==
  ASSUME NEW F, IsFiniteSet(F), NEW A, A \subseteq F,
         NEW T, IsFiniteSet(T), NEW U, U \subseteq T
  PROVE  /\ IsFiniteSet(A \cup {s.by : s \in U})
         /\ Cardinality(A \cup {s.by : s \in U}) \in Nat
         /\ Cardinality(A \cup {s.by : s \in U}) <= Cardinality(F) + Cardinality(T)
<1> DEFINE G == {s.by : s \in U}
           f == [s \in U |-> s.by]
<1>1. f \in Surjection(U, G)
  BY DEF Surjection
<1>2. /\ IsFiniteSet(U) /\ Cardinality(U) \in Nat /\ Cardinality(T) \in Nat
      /\ Cardinality(U) <= Cardinality(T)
  BY Shrunk
<1>3. /\ IsFiniteSet(A) /\ Cardinality(A) \in Nat /\ Cardinality(F) \in Nat
      /\ Cardinality(A) <= Cardinality(F)
  BY Shrunk
<1>4. IsFiniteSet(G) /\ Cardinality(G) <= Cardinality(U)
  BY <1>1, <1>2, FS_Surjection
<1> HIDE DEF G
<1>5. /\ IsFiniteSet(A \cup G)
      /\ Cardinality(A \cup G) = Cardinality(A) + Cardinality(G) - Cardinality(A \cap G)
  BY <1>3, <1>4, FS_Union
<1>6. IsFiniteSet(A \cap G)
  BY <1>3, FS_Intersection
<1>7. Cardinality(G) \in Nat /\ Cardinality(A \cap G) \in Nat /\ Cardinality(A \cup G) \in Nat
  BY <1>4, <1>5, <1>6, FS_CardinalityType
<1>8. Cardinality(A \cup G) <= Cardinality(F) + Cardinality(T)
  BY <1>2, <1>3, <1>4, <1>5, <1>7
<1> QED
  BY <1>5, <1>7, <1>8 DEF G

-----------------------------------------------------------------------------
LEMMA ClaimsFinite ==
  WithinBounds =>
      \A code : /\ IsFiniteSet(Claims(code))
                /\ Cardinality(Claims(code)) \in Nat
                /\ Cardinality(Claims(code)) <= MaxInFlight + MaxStray
<1> SUFFICES ASSUME WithinBounds, NEW c
             PROVE  /\ IsFiniteSet(Claims(c))
                    /\ Cardinality(Claims(c)) \in Nat
                    /\ Cardinality(Claims(c)) <= MaxInFlight + MaxStray
  OBVIOUS
<1> DEFINE A == {a \in Attempts : /\ pc[a] \in {"check", "increment"}
                                  /\ req[a].coupon = c
                                  /\ UsesLeft(rule[a])}
           U == {t \in stray : t.op = "increment" /\ t.row.coupon = c}
<1>1. A \subseteq InFlight /\ U \subseteq stray
  BY DEF InFlight, Serving
<1>2. Claims(c) = A \cup {s.by : s \in U}
  BY DEF Claims
<1>3. IsFiniteSet(InFlight) /\ IsFiniteSet(stray)
  BY DEF WithinBounds
<1> HIDE DEF A, U
<1>4. /\ IsFiniteSet(A \cup {s.by : s \in U})
      /\ Cardinality(A \cup {s.by : s \in U}) \in Nat
      /\ Cardinality(A \cup {s.by : s \in U}) <= Cardinality(InFlight) + Cardinality(stray)
  BY <1>1, <1>3, UnionBound
<1>5. Cardinality(InFlight) \in Nat /\ Cardinality(stray) \in Nat
  BY <1>3, FS_CardinalityType
<1> QED
  BY <1>2, <1>4, <1>5, CheckoutAssumption DEF WithinBounds

LEMMA ClaimsFiniteNext ==
  WithinBounds' =>
      (\A code : /\ IsFiniteSet(Claims(code))
                 /\ Cardinality(Claims(code)) \in Nat
                 /\ Cardinality(Claims(code)) <= MaxInFlight + MaxStray)'
BY ClaimsFinite, PTL

\* A handler that is past the lookup keeps its claim, turns it into a statement
\* left behind or gives it up; the others' claims are theirs.
LEMMA ClaimsOfAnswered ==
  ASSUME TypeOK, NEW a \in Attempts, NEW status, Answer(a, status), req' = req, NEW c,
         stray' = stray \/ LeaveBehind({a}),
         pc[a] = "increment" => UsesLeft(rule[a])
  PROVE  Claims(c)' \subseteq Claims(c)
<1> SUFFICES ASSUME NEW x \in Claims(c)' PROVE x \in Claims(c)
  OBVIOUS
<1>1. CASE /\ x \in Attempts
           /\ pc'[x] \in {"check", "increment"}
           /\ req'[x].coupon = c
           /\ UsesLeft(rule'[x])
  BY <1>1 DEF Answer, Goto, Claims, TypeOK
<1>2. CASE \E s \in stray' : s.op = "increment" /\ s.row.coupon = c /\ x = s.by
  <2>1. PICK s \in stray' : s.op = "increment" /\ s.row.coupon = c /\ x = s.by
    BY <1>2
  <2>2. CASE s \in stray
    BY <2>1, <2>2 DEF Claims
  <2>3. CASE s \in Unfinished({a})
    <3>1. s = Statement(a)
      BY <2>3 DEF Unfinished
    <3>2. s.by = a /\ s.op = pc[a] /\ s.row.coupon = req[a].coupon
      BY <3>1 DEF Statement, OrderRow
    <3> QED
      BY <2>1, <3>2 DEF Claims
  <2> QED
    BY <2>1, <2>2, <2>3 DEF LeaveBehind
<1> QED
  BY <1>1, <1>2 DEF Claims

LEMMA StepClaims ==
  TypeOK /\ StrayOK /\ PastCheck /\ LimitKept /\ WithinBounds /\ WithinBounds'
    /\ ClaimsBound /\ [Next]_vars => ClaimsBound'
<1> SUFFICES ASSUME TypeOK, StrayOK, PastCheck, LimitKept, WithinBounds, WithinBounds',
                    ClaimsBound, [Next]_vars,
                    NoCaseVariants, NEW c \in StoredCodes, Limited(c)
             PROVE  coupons'[c].uses + Cardinality(Claims(c)')
                        < coupons'[c].maxUses + MaxInFlight + MaxStray
  BY DEF ClaimsBound, NoCaseVariants, Limited
<1> DEFINE Goal == coupons'[c].uses + Cardinality(Claims(c)')
                        < coupons'[c].maxUses + MaxInFlight + MaxStray
<1>1. coupons[c] # NoRow /\ coupons[c] \in Row /\ coupons[c].maxUses > 0
  BY DEF LimitKept, Limited, TypeOK
<1>2. coupons[c].uses \in Nat /\ coupons[c].maxUses \in Int
  BY <1>1 DEF Row
<1>3. coupons'[c].maxUses = coupons[c].maxUses
  BY <1>1, StepKeeps DEF Same
<1>4. /\ IsFiniteSet(Claims(c)) /\ Cardinality(Claims(c)) \in Nat
      /\ Cardinality(Claims(c)) <= MaxInFlight + MaxStray
  BY ClaimsFinite
<1>5. /\ IsFiniteSet(Claims(c)') /\ Cardinality(Claims(c)') \in Nat
      /\ Cardinality(Claims(c)') <= MaxInFlight + MaxStray
  BY ClaimsFiniteNext
<1>6. coupons[c].uses + Cardinality(Claims(c)) < coupons[c].maxUses + MaxInFlight + MaxStray
  BY DEF ClaimsBound
<1>7. ASSUME coupons'[c].uses = coupons[c].uses, Claims(c)' \subseteq Claims(c)
      PROVE  Goal
  <2>1. Cardinality(Claims(c)') <= Cardinality(Claims(c))
    BY <1>4, <1>7, Shrunk
  <2> QED
    BY <1>2, <1>3, <1>4, <1>5, <1>6, <1>7, <2>1, CheckoutAssumption
<1>8. ASSUME coupons'[c].uses <= coupons[c].uses + 1, coupons'[c].uses \in Nat,
             Claims(c)' \subseteq Claims(c),
             NEW x \in Claims(c), x \notin Claims(c)'
      PROVE  Goal
  <2>1. Cardinality(Claims(c)') + 1 <= Cardinality(Claims(c))
    BY <1>4, <1>8, ShrunkByOne
  <2> QED
    BY <1>2, <1>3, <1>4, <1>5, <1>6, <1>8, <2>1, CheckoutAssumption
<1>9. ASSUME coupons'[c].uses = coupons[c].uses, coupons[c].uses < coupons[c].maxUses
      PROVE  Goal
  BY <1>2, <1>3, <1>5, <1>9, CheckoutAssumption
<1>10. ASSUME NEW a \in Attempts, NEW r \in Requests, Receive(a, r)
       PROVE  Goal
  <2>1. Claims(c)' \subseteq Claims(c)
    BY <1>10 DEF Receive, Goto, Claims, TypeOK
  <2> QED
    BY <1>7, <1>10, <2>1 DEF Receive, tables
<1>11. ASSUME NEW a \in Attempts, NEW status, Answer(a, status), UNCHANGED <<coupons, req>>,
              stray' = stray \/ LeaveBehind({a})
       PROVE  Goal
  BY <1>7, <1>11, ClaimsOfAnswered DEF PastCheck
<1>12. ASSUME NEW a \in Attempts, Authenticate(a) \/ FetchProducts(a)
       PROVE  Goal
  <2>1. CASE Answer(a, 401) \/ Answer(a, 400) \/ Answer(a, 500) \/ Answer(a, Refusal(req[a]))
    BY ZenonT(30), <1>11, <1>12, <2>1 DEF Authenticate, FetchProducts, tables
  <2>2. CASE Goto(a, "fetch") \/ Goto(a, "create") \/ Goto(a, "find")
    <3>1. Claims(c)' \subseteq Claims(c)
      BY <1>12, <2>2 DEF Authenticate, FetchProducts, Goto, Answer, Claims, TypeOK
    <3> QED
      BY <1>7, <1>12, <3>1 DEF Authenticate, FetchProducts, tables
  <2> QED
    BY <1>12, <2>1, <2>2 DEF Authenticate, FetchProducts
<1>13. ASSUME NEW a \in Attempts, FindByCode(a)
       PROVE  Goal
  <2>1. CASE Answer(a, 500) \/ Answer(a, 422)
    BY <1>11, <1>13, <2>1 DEF FindByCode, tables
  <2>2. ASSUME NEW d \in MatchingCodes(req[a].coupon), rule' = [rule EXCEPT ![a] = coupons[d]],
               Goto(a, "check")
        PROVE  Goal
    <3>1. coupons' = coupons /\ stray' = stray /\ req' = req
      BY <1>13 DEF FindByCode, tables
    <3>2. CASE coupons[c].uses < coupons[c].maxUses
      BY <1>9, <3>1, <3>2
    <3>3. CASE ~(coupons[c].uses < coupons[c].maxUses)
      <4>1. req[a].coupon = c => d = c
        BY DEF MatchingCodes, NoCaseVariants
      <4>2. req[a].coupon = c => ~UsesLeft(rule'[a])
        BY <1>1, <2>2, <3>3, <4>1 DEF UsesLeft, TypeOK
      <4>3. Claims(c)' \subseteq Claims(c)
        BY <2>2, <3>1, <4>2 DEF Claims, Goto, TypeOK
      <4> QED
        BY <1>7, <3>1, <4>3
    <3> QED
      BY <3>2, <3>3
  <2> QED
    BY <1>13, <2>1, <2>2 DEF FindByCode
<1>14. ASSUME NEW a \in Attempts, CheckRule(a)
       PROVE  Goal
  <2>1. CASE Answer(a, 422)
    BY <1>11, <1>14, <2>1 DEF CheckRule, tables
  <2>2. CASE Goto(a, "increment") /\ UNCHANGED <<lines, rule, reply>>
    <3>1. Claims(c)' \subseteq Claims(c)
      BY <1>14, <2>2 DEF CheckRule, Claims, Goto, TypeOK
    <3> QED
      BY <1>7, <1>14, <3>1 DEF CheckRule, tables
  <2> QED
    BY <1>14, <2>1, <2>2 DEF CheckRule
<1>15. ASSUME NEW a \in Attempts, IncrementUses(a)
       PROVE  Goal
  <2>1. CASE Answer(a, 500) /\ LeaveBehind({a}) /\ UNCHANGED coupons
    BY <1>11, <1>15, <2>1 DEF IncrementUses
  <2>2. CASE /\ coupons' = Incremented(req[a].coupon)
             /\ Goto(a, "create")
             /\ UNCHANGED <<stray, lines, rule, reply>>
    <3>1. Claims(c)' \subseteq Claims(c)
      BY <1>15, <2>2 DEF IncrementUses, Claims, Goto, TypeOK
    <3>2. CASE req[a].coupon # c
      BY <1>1, <1>7, <2>2, <3>1, <3>2, IncrementKeeps
    <3>3. CASE req[a].coupon = c
      <4>1. a \in Claims(c)
        BY <1>15, <3>3 DEF IncrementUses, Claims, PastCheck
      <4>2. a \notin Claims(c)'
        BY <1>15, <2>2 DEF IncrementUses, Claims, StrayOK, Goto, TypeOK
      <4>3. coupons'[c].uses = coupons[c].uses + 1
        BY <1>1, <2>2, <3>3, IncrementKeeps
      <4> QED
        BY <1>2, <1>8, <3>1, <4>1, <4>2, <4>3
    <3> QED
      BY <3>2, <3>3
  <2> QED
    BY <1>15, <2>1, <2>2 DEF IncrementUses
<1>16. ASSUME NEW a \in Attempts, CreateOrder(a)
       PROVE  Goal
  BY SMTT(30), <1>11, <1>16 DEF CreateOrder
<1>17. CASE Crash
  <2>1. ASSUME NEW x \in Claims(c)' PROVE x \in Claims(c)
    <3>1. pc'[x] \notin {"check", "increment"} \/ x \notin Attempts
      BY <1>17 DEF Crash, InFlight, Serving
    <3>2. PICK s \in stray' : s.op = "increment" /\ s.row.coupon = c /\ x = s.by
      BY <2>1, <3>1 DEF Claims
    <3>3. CASE s \in stray
      BY <3>2, <3>3 DEF Claims
    <3>4. CASE s \in Unfinished(InFlight)
      <4>1. PICK b \in InFlight : s = Statement(b)
        BY <3>4 DEF Unfinished
      <4>2. s.by = b /\ s.op = pc[b] /\ s.row.coupon = req[b].coupon
        BY <4>1 DEF Statement, OrderRow
      <4> QED
        BY <3>2, <4>2 DEF Claims, InFlight, PastCheck
    <3> QED
      BY <1>17, <3>2, <3>3, <3>4 DEF Crash, LeaveBehind
  <2> QED
    BY <1>7, <1>17, <2>1 DEF Crash, tables
<1>18. ASSUME NEW s \in stray, ApplyStray(s)
       PROVE  Goal
  <2>1. Claims(c)' \subseteq Claims(c)
    BY <1>18 DEF ApplyStray, Claims
  <2>2. CASE UNCHANGED coupons
    BY <1>7, <2>1, <2>2
  <2>3. CASE s.op = "increment" /\ coupons' = Incremented(s.row.coupon)
    <3>1. CASE s.row.coupon # c
      BY <1>1, <1>7, <2>1, <2>3, <3>1, IncrementKeeps
    <3>2. CASE s.row.coupon = c
      <4>1. s.by \in Claims(c)
        BY <2>3, <3>2 DEF Claims
      <4>2. s.by \notin Claims(c)'
        BY <1>18 DEF ApplyStray, Claims, StrayOK, TypeOK
      <4>3. coupons'[c].uses = coupons[c].uses + 1
        BY <1>1, <2>3, <3>2, IncrementKeeps
      <4> QED
        BY <1>2, <1>8, <2>1, <4>1, <4>2, <4>3
    <3> QED
      BY <3>1, <3>2
  <2> QED
    BY <1>18, <2>2, <2>3 DEF ApplyStray
<1>19. ASSUME NEW s \in stray, DropStray(s)
       PROVE  Goal
  <2>1. Claims(c)' \subseteq Claims(c)
    BY <1>19 DEF DropStray, Claims
  <2> QED
    BY <1>7, <1>19, <2>1 DEF DropStray, tables
<1>20. ASSUME NEW code \in StoredCodes, NEW t \in Templates, UpsertCoupon(code, t)
       PROVE  Goal
  <2>1. Claims(c)' \subseteq Claims(c)
    BY <1>20 DEF UpsertCoupon, Claims
  <2> QED
    BY <1>1, <1>7, <1>20, <2>1, UpsertKeeps DEF UpsertCoupon
<1>21. CASE UNCHANGED <<coupons, stray, pc, req, rule>>
  <2>1. Claims(c)' \subseteq Claims(c)
    BY <1>21 DEF Claims
  <2> QED
    BY <1>7, <1>21, <2>1
<1> QED
  BY <1>10, <1>12, <1>13, <1>14, <1>15, <1>16, <1>17, <1>18, <1>19, <1>20, <1>21
  DEF Next, Handle, vars, UpsertProduct, Tick, tables

\* However the requests interleave, whatever fails, is left behind or is
\* re-seeded, a coupon is redeemed fewer than MaxInFlight + MaxStray times over
\* its limit: the requests that read the counter before it was reached.
THEOREM Redemptions == Spec => []RedemptionBound
<1> DEFINE Inv == TypeOK /\ Sent /\ WithinBounds /\ StrayOK /\ PastCheck /\ LimitKept /\ ClaimsBound
<1>1. Init => Inv
  <2> SUFFICES ASSUME Init PROVE Inv
    OBVIOUS
  <2>1. TypeOK /\ Sent
    BY InitType DEF Init, Sent
  <2>2. InFlight = {} /\ stray = {}
    BY DEF Init, InFlight, Serving
  <2>3. WithinBounds
    BY <2>2, FS_EmptySet, CheckoutAssumption DEF WithinBounds
  <2>4. StrayOK /\ PastCheck
    BY DEF Init, StrayOK, PastCheck
  <2>5. LimitKept
    BY DEF Init, LimitKept, Limited
  <2>6. ASSUME NEW c \in StoredCodes, Limited(c)
        PROVE  coupons[c].uses + Cardinality(Claims(c))
                  < coupons[c].maxUses + MaxInFlight + MaxStray
    <3>1. Claims(c) = {}
      BY DEF Init, Claims
    <3>2. coupons[c].uses <= coupons[c].maxUses /\ coupons[c] \in Row
      BY <2>6, CheckoutAssumption DEF Init, Limited
    <3> QED
      BY <3>1, <3>2, FS_EmptySet, CheckoutAssumption DEF Row
  <2> QED
    BY <2>1, <2>3, <2>4, <2>5, <2>6 DEF ClaimsBound
<1>2. Inv /\ [Next]_vars => Inv'
  BY StepType, StepSent, StepBounds, StepStray, StepPastCheck, StepLimitKept, StepClaims
<1>3. Inv => RedemptionBound
  <2> SUFFICES ASSUME Inv, NoCaseVariants, NEW c \in StoredCodes, Limited(c)
               PROVE  coupons[c].uses < coupons[c].maxUses + MaxInFlight + MaxStray
    BY DEF RedemptionBound
  <2>1. coupons[c] \in Row
    BY DEF LimitKept, TypeOK
  <2>2. Cardinality(Claims(c)) \in Nat
    BY ClaimsFinite
  <2>3. coupons[c].uses + Cardinality(Claims(c)) < coupons[c].maxUses + MaxInFlight + MaxStray
    BY DEF ClaimsBound
  <2> QED
    BY <2>1, <2>2, <2>3, CheckoutAssumption DEF Row
<1> QED
  BY <1>1, <1>2, <1>3, PTL DEF Spec

-----------------------------------------------------------------------------
(* What a step of a handler can do outside the coupons table.              *)

\* It goes on, it gives up without having stored an order, or it stores one.
GoesOn(a) == /\ \E label \in Serving : Goto(a, label)
             /\ UNCHANGED <<orders, stray, reply>>

GivesUp(a) == /\ \E status \in Statuses \ {200} :
                    /\ Answer(a, status)
                    /\ UNCHANGED stray \/ (status = 500 /\ LeaveBehind({a}))
              /\ UNCHANGED orders

Stores(a) == /\ pc[a] = "create"
             /\ Answer(a, 200)
             /\ orders' = Inserted(a, OrderRow(a))
             /\ UNCHANGED <<stray, coupons>>

LEMMA HandleCases ==
  ASSUME NEW a \in Attempts, Handle(a)
  PROVE  /\ pc[a] \in Serving
         /\ UNCHANGED <<req, clock>>
         /\ GoesOn(a) \/ GivesUp(a) \/ Stores(a)
<1>1. CASE Authenticate(a)
  BY <1>1 DEF Authenticate, GoesOn, GivesUp, Serving, Statuses, tables
<1>2. CASE FetchProducts(a)
  BY <1>2 DEF FetchProducts, Refusal, GoesOn, GivesUp, Serving, Statuses, tables
<1>3. CASE FindByCode(a)
  BY <1>3 DEF FindByCode, GoesOn, GivesUp, Serving, Statuses, tables
<1>4. CASE CheckRule(a)
  BY <1>4 DEF CheckRule, GoesOn, GivesUp, Serving, Statuses, tables
<1>5. CASE IncrementUses(a)
  BY <1>5 DEF IncrementUses, GoesOn, GivesUp, Serving, Statuses, tables
<1>6. CASE CreateOrder(a)
  BY <1>6 DEF CreateOrder, GivesUp, Stores, Serving, Statuses, tables
<1> QED
  BY <1>1, <1>2, <1>3, <1>4, <1>5, <1>6 DEF Handle

\* A statement left behind is that of an attempt of A, or was there before.
LEMMA LeftBehind ==
  ASSUME NEW A, LeaveBehind(A), NEW s \in stray'
  PROVE  \/ s \in stray
         \/ /\ s.by \in A
            /\ s.op = pc[s.by]
            /\ s.row.coupon = req[s.by].coupon
<1>1. CASE s \in Unfinished(A)
  <2>1. PICK b \in A : s = Statement(b)
    BY <1>1 DEF Unfinished
  <2> QED
    BY <2>1 DEF Statement, OrderRow
<1> QED
  BY <1>1 DEF LeaveBehind

-----------------------------------------------------------------------------
(* Answers.                                                                *)

\* An order, stored or left to be stored, is that of an attempt that was
\* answered 200 or 500 or not at all; whoever was answered 200 has one.
Told ==
    /\ \A s \in stray : pc[s.by] = "lost" \/ reply[s.by] = 500
    /\ \A s \in stray : s.op = "create" => s.by \notin DOMAIN orders
    /\ \A a \in DOMAIN orders : \/ pc[a] = "lost"
                                \/ pc[a] = "answered" /\ reply[a] \in {200, 500}
    /\ \A a \in Attempts : pc[a] # "answered" => reply[a] = 0
    /\ \A a \in Attempts : reply[a] = 200 => a \in DOMAIN orders

LEMMA HandleTold ==
  ASSUME TypeOK, StrayOK, Told, NEW a \in Attempts, Handle(a)
  PROVE  Told'
<1>1. /\ pc[a] \in Serving
      /\ pc[a] \notin {"answered", "lost"}
      /\ reply[a] = 0
      /\ a \notin DOMAIN orders
      /\ \A b \in DOMAIN orders : b \in Attempts \ {a}
      /\ \A s \in stray : s.by \in Attempts \ {a}
  BY HandleCases DEF Serving, Told, StrayOK, TypeOK
<1>2. CASE GoesOn(a)
  BY <1>1, <1>2 DEF GoesOn, Goto, Serving, Told, TypeOK
<1>3. CASE GivesUp(a)
  <2>1. PICK status \in Statuses \ {200} :
                /\ Answer(a, status)
                /\ UNCHANGED stray \/ (status = 500 /\ LeaveBehind({a}))
    BY <1>3 DEF GivesUp
  <2>2. /\ orders' = orders
        /\ pc'[a] = "answered" /\ reply'[a] = status
        /\ \A b \in Attempts \ {a} : pc'[b] = pc[b] /\ reply'[b] = reply[b]
    BY <1>3, <2>1 DEF GivesUp, Answer, Goto, TypeOK
  <2>3. \A s \in stray' : s \in stray \/ (s.by = a /\ status = 500)
    BY <2>1, LeftBehind
  <2>4. \A s \in stray' : pc'[s.by] = "lost" \/ reply'[s.by] = 500
    BY <1>1, <2>2, <2>3 DEF Told
  <2>5. \A s \in stray' : s.op = "create" => s.by \notin DOMAIN orders'
    BY <1>1, <2>2, <2>3 DEF Told
  <2>6. \A b \in DOMAIN orders' : \/ pc'[b] = "lost"
                                  \/ pc'[b] = "answered" /\ reply'[b] \in {200, 500}
    BY <1>1, <2>2 DEF Told
  <2>7. \A b \in Attempts : pc'[b] # "answered" => reply'[b] = 0
    BY <2>2 DEF Told
  <2>8. \A b \in Attempts : reply'[b] = 200 => b \in DOMAIN orders'
    BY <2>1, <2>2 DEF Told
  <2> QED
    BY <2>4, <2>5, <2>6, <2>7, <2>8 DEF Told
<1>4. CASE Stores(a)
  <2>1. /\ stray' = stray
        /\ DOMAIN orders' = DOMAIN orders \cup {a}
        /\ pc'[a] = "answered" /\ reply'[a] = 200
        /\ \A b \in Attempts \ {a} : pc'[b] = pc[b] /\ reply'[b] = reply[b]
    BY <1>4 DEF Stores, Answer, Goto, Inserted, TypeOK
  <2>2. \A s \in stray' : s.op = "create" => s.by \notin DOMAIN orders'
    BY <1>1, <2>1 DEF Told
  <2>3. \A b \in DOMAIN orders' : \/ pc'[b] = "lost"
                                  \/ pc'[b] = "answered" /\ reply'[b] \in {200, 500}
    BY <1>1, <2>1 DEF Told, TypeOK
  <2> QED
    BY <1>1, <2>1, <2>2, <2>3 DEF Told
<1> QED
  BY <1>2, <1>3, <1>4, HandleCases

LEMMA CrashTold ==
  ASSUME TypeOK, StrayOK, Told, Crash
  PROVE  Told'
<1>1. /\ orders' = orders /\ reply' = reply
      /\ \A b \in Attempts : pc'[b] = IF b \in InFlight THEN "lost" ELSE pc[b]
  BY DEF Crash, tables
<1>2. \A b \in InFlight : b \in Attempts /\ reply[b] = 0 /\ b \notin DOMAIN orders
  BY DEF InFlight, Serving, Told
<1>3. \A s \in stray' : s \in stray \/ s.by \in InFlight
  BY LeftBehind DEF Crash
<1>4. \A s \in stray : s.by \in Attempts \ InFlight
  BY DEF StrayOK, InFlight, Serving, TypeOK
<1>5. \A s \in stray' : pc'[s.by] = "lost" \/ reply'[s.by] = 500
  BY <1>1, <1>2, <1>3, <1>4 DEF Told
<1>6. \A s \in stray' : s.op = "create" => s.by \notin DOMAIN orders'
  BY <1>1, <1>2, <1>3 DEF Told
<1>7. \A b \in DOMAIN orders' : \/ pc'[b] = "lost"
                                \/ pc'[b] = "answered" /\ reply'[b] \in {200, 500}
  BY <1>1, <1>2 DEF Told, TypeOK
<1>8. \A b \in Attempts : pc'[b] # "answered" => reply'[b] = 0
  BY <1>1, <1>2 DEF Told
<1> QED
  BY <1>1, <1>5, <1>6, <1>7, <1>8 DEF Told

LEMMA ApplyTold ==
  ASSUME TypeOK, StrayOK, Told, NEW s \in stray, ApplyStray(s)
  PROVE  Told'
<1>1. stray' = stray \ {s} /\ pc' = pc /\ reply' = reply
  BY DEF ApplyStray
<1>2. CASE orders' = orders
  BY <1>1, <1>2 DEF Told
<1>3. CASE s.op = "create" /\ orders' = Inserted(s.by, s.row)
  <2>1. DOMAIN orders' = DOMAIN orders \cup {s.by}
    BY <1>3 DEF Inserted
  <2>2. \A t \in stray' : t.by # s.by
    BY <1>1 DEF StrayOK
  <2>3. pc[s.by] = "lost" \/ (pc[s.by] = "answered" /\ reply[s.by] = 500)
    BY DEF Told, StrayOK
  <2>4. \A t \in stray' : t.op = "create" => t.by \notin DOMAIN orders'
    BY <1>1, <2>1, <2>2 DEF Told
  <2> QED
    BY <1>1, <2>1, <2>3, <2>4 DEF Told
<1> QED
  BY <1>2, <1>3 DEF ApplyStray

LEMMA StepTold == TypeOK /\ StrayOK /\ Told /\ [Next]_vars => Told'
<1> SUFFICES ASSUME TypeOK, StrayOK, Told, [Next]_vars PROVE Told'
  OBVIOUS
<1>1. ASSUME NEW a \in Attempts, NEW r \in Requests, Receive(a, r)
      PROVE  Told'
  <2>1. /\ orders' = orders /\ stray' = stray /\ reply' = reply
        /\ pc'[a] = "authenticate" /\ pc[a] = "unsent"
        /\ \A b \in Attempts \ {a} : pc'[b] = pc[b]
    BY <1>1 DEF Receive, Goto, tables, TypeOK
  <2>2. \A s \in stray : s.by \in Attempts \ {a}
    BY <2>1 DEF StrayOK, TypeOK
  <2>3. DOMAIN orders \subseteq Attempts /\ a \notin DOMAIN orders
    BY SMTT(30), <2>1 DEF Told, TypeOK
  <2>4. \A b \in DOMAIN orders : b \in Attempts \ {a}
    BY <2>3
  <2> QED
    BY <2>1, <2>2, <2>4 DEF Told
<1>2. ASSUME NEW s \in stray, DropStray(s)
      PROVE  Told'
  BY <1>2 DEF DropStray, tables, Told
<1>3. CASE UNCHANGED <<orders, stray, pc, reply>>
  BY <1>3 DEF Told
<1> QED
  BY <1>1, <1>2, <1>3, HandleTold, CrashTold, ApplyTold
  DEF Next, vars, tables, UpsertProduct, UpsertCoupon, Tick

-----------------------------------------------------------------------------
\* The attempts, their statements left behind and what they were told.
Outcomes == TypeOK /\ Sent /\ StrayOK /\ Told

LEMMA InitOutcomes == Init => Outcomes
BY InitType DEF Init, Outcomes, Sent, StrayOK, Told

LEMMA StepOutcomes == Outcomes /\ [Next]_vars => Outcomes'
BY StepType, StepSent, StepStray, StepTold DEF Outcomes

\* The invariant that the results below rest on.
THEOREM OutcomesKept == Spec => []Outcomes
BY InitOutcomes, StepOutcomes, PTL DEF Spec

\* In every behaviour 200 is sent only for an order that is stored, and 400, 401
\* and 422 only where none is stored or ever will be, whatever fails, is left
\* behind or crashes.
THEOREM Truthful == Spec => []AnswerTellsOutcome
<1>1. Outcomes => AnswerTellsOutcome
  <2> SUFFICES ASSUME Outcomes, NEW a \in Attempts
               PROVE  /\ reply[a] = 200 => a \in DOMAIN orders
                      /\ reply[a] \in {400, 401, 422} =>
                            a \notin DOMAIN orders /\ \A s \in stray : s.by # a
    BY DEF AnswerTellsOutcome
  <2> QED
    BY DEF Outcomes, Told
<1> QED
  BY <1>1, OutcomesKept, PTL

-----------------------------------------------------------------------------
(* History and windows.                                                    *)

\* An attempt whose rule is about to be tested read it in an active row of its
\* code, which is still there and active, with the same window.
RuleKnown ==
    \A a \in Attempts : pc[a] = "check" =>
        /\ rule[a] \in Row
        /\ \E c \in StoredCodes : /\ Upper[c] = Upper[req[a].coupon]
                                 /\ coupons[c] # NoRow /\ coupons[c].active
                                 /\ coupons[c].from = rule[a].from
                                 /\ coupons[c].until = rule[a].until

LEMMA StepRuleKnown == TypeOK /\ RuleKnown /\ [Next]_vars => RuleKnown'
<1> SUFFICES ASSUME TypeOK, RuleKnown, [Next]_vars, NEW b \in Attempts, pc'[b] = "check"
             PROVE  /\ rule'[b] \in Row
                    /\ \E c \in StoredCodes : /\ Upper[c] = Upper[req'[b].coupon]
                                             /\ coupons'[c] # NoRow /\ coupons'[c].active
                                             /\ coupons'[c].from = rule'[b].from
                                             /\ coupons'[c].until = rule'[b].until
  BY DEF RuleKnown
<1>1. ASSUME pc[b] = "check", rule'[b] = rule[b], req'[b] = req[b]
      PROVE  /\ rule'[b] \in Row
             /\ \E c \in StoredCodes : /\ Upper[c] = Upper[req'[b].coupon]
                                      /\ coupons'[c] # NoRow /\ coupons'[c].active
                                      /\ coupons'[c].from = rule'[b].from
                                      /\ coupons'[c].until = rule'[b].until
  <2>1. rule[b] \in Row
    BY <1>1 DEF RuleKnown
  <2>2. PICK c \in StoredCodes : /\ Upper[c] = Upper[req[b].coupon]
                                /\ coupons[c] # NoRow /\ coupons[c].active
                                /\ coupons[c].from = rule[b].from
                                /\ coupons[c].until = rule[b].until
    BY <1>1 DEF RuleKnown
  <2>3. Same(coupons'[c], coupons[c])
    BY <2>2, StepKeeps
  <2> QED
    BY <1>1, <2>1, <2>2, <2>3 DEF Same
<1>2. ASSUME NEW a \in Attempts, Handle(a)
      PROVE  /\ rule'[b] \in Row
             /\ \E c \in StoredCodes : /\ Upper[c] = Upper[req'[b].coupon]
                                      /\ coupons'[c] # NoRow /\ coupons'[c].active
                                      /\ coupons'[c].from = rule'[b].from
                                      /\ coupons'[c].until = rule'[b].until
  <2>1. CASE b = a
    <3>1. FindByCode(a)
      BY <1>2, <2>1 DEF Handle, Authenticate, FetchProducts, CheckRule, IncrementUses,
                        CreateOrder, Answer, Goto, TypeOK
    <3>2. PICK c \in MatchingCodes(req[a].coupon) : rule' = [rule EXCEPT ![a] = coupons[c]]
      BY <2>1, <3>1 DEF FindByCode, Answer, Goto, TypeOK
    <3>3. rule'[b] = coupons[c] /\ coupons' = coupons /\ req' = req
      BY <2>1, <3>1, <3>2 DEF FindByCode, tables, TypeOK
    <3>4. c \in StoredCodes /\ Upper[c] = Upper[req[a].coupon] /\ coupons[c] # NoRow /\ coupons[c].active
      BY DEF MatchingCodes
    <3>5. coupons[c] \in Row
      BY <3>4 DEF TypeOK
    <3> QED
      BY <2>1, <3>3, <3>4, <3>5
  <2>2. CASE b # a
    <3>1. pc'[b] = pc[b] /\ rule'[b] = rule[b] /\ req' = req
      BY <1>2, <2>2 DEF Handle, Authenticate, FetchProducts, FindByCode, CheckRule,
                        IncrementUses, CreateOrder, Answer, Goto, TypeOK
    <3> QED
      BY <1>1, <3>1
  <2> QED
    BY <2>1, <2>2
<1>3. CASE \E a \in Attempts, r \in Requests : Receive(a, r)
  <2>1. PICK a \in Attempts, r \in Requests : Receive(a, r)
    BY <1>3
  <2>2. b # a /\ pc'[b] = pc[b] /\ rule'[b] = rule[b] /\ req'[b] = req[b]
    BY <2>1 DEF Receive, Goto, TypeOK
  <2> QED
    BY <1>1, <2>2
<1>4. CASE Crash
  BY <1>4 DEF Crash, InFlight, Serving
<1>5. CASE UNCHANGED <<pc, req, rule>>
  BY <1>1, <1>5
<1> QED
  BY <1>2, <1>3, <1>4, <1>5
  DEF Next, vars, ApplyStray, DropStray, UpsertProduct, UpsertCoupon, Tick

\* A stored order is stored once and never written again.
LEMMA StepOrders ==
  ASSUME TypeOK, StrayOK, Told, [Next]_vars, NEW b \in DOMAIN orders
  PROVE  b \in DOMAIN orders' /\ orders'[b] = orders[b]
<1>1. pc[b] \notin Serving
  BY DEF Told, Serving
<1>3. ASSUME NEW a \in Attempts, Handle(a)
      PROVE  b \in DOMAIN orders' /\ orders'[b] = orders[b]
  <2>1. a # b
    BY <1>1, <1>3, HandleCases
  <2>2. orders' = orders \/ orders' = Inserted(a, OrderRow(a))
    BY <1>3, HandleCases DEF GoesOn, GivesUp, Stores
  <2> QED
    BY <2>1, <2>2 DEF Inserted
<1>4. ASSUME NEW s \in stray, ApplyStray(s)
      PROVE  b \in DOMAIN orders' /\ orders'[b] = orders[b]
  <2>1. orders' = orders \/ (s.by # b /\ orders' = Inserted(s.by, s.row))
    BY <1>4 DEF ApplyStray, Told
  <2> QED
    BY <2>1 DEF Inserted
<1>5. CASE orders' = orders
  BY <1>5
<1> QED
  BY <1>3, <1>4, <1>5
  DEF Next, vars, tables, Receive, Crash, DropStray, UpsertProduct, UpsertCoupon, Tick

\* A redemption is let through only inside the window that the table holds at
\* that moment, though the rule that was tested is a copy read earlier.
THEOREM Windows == Spec => WindowHonoured
<1> DEFINE Held(a) == \E c \in StoredCodes :
                          /\ Upper[c] = Upper[req[a].coupon]
                          /\ coupons[c] # NoRow /\ coupons[c].active
                          /\ coupons[c].from \in Int => coupons[c].from <= clock
                          /\ coupons[c].until \in Int => clock <= coupons[c].until
           Inv == TypeOK /\ Sent /\ RuleKnown
<1>1. Init => Inv
  BY InitType DEF Init, Sent, RuleKnown
<1>2. Inv /\ [Next]_vars => Inv'
  BY StepType, StepSent, StepRuleKnown
<1>3. ASSUME Inv, [Next]_vars, NEW a \in Attempts, pc[a] # "increment", pc'[a] = "increment"
      PROVE  Held(a)
  <2>1. CheckRule(a) /\ InWindow(rule[a], clock)
    <3>1. ASSUME NEW b \in Attempts, Handle(b)
          PROVE  CheckRule(a) /\ InWindow(rule[a], clock)
      BY <1>3, <3>1 DEF Handle, Authenticate, FetchProducts, FindByCode, CheckRule,
                        IncrementUses, CreateOrder, Answer, Goto, TypeOK
    <3>2. ASSUME NEW b \in Attempts, NEW r \in Requests, Receive(b, r)
          PROVE  FALSE
      BY <1>3, <3>2 DEF Receive, Goto, TypeOK
    <3>3. ~Crash
      BY <1>3 DEF Crash, TypeOK
    <3>4. pc' # pc
      BY <1>3
    <3> QED
      BY <1>3, <3>1, <3>2, <3>3, <3>4
      DEF Next, vars, ApplyStray, DropStray, UpsertProduct, UpsertCoupon, Tick
  <2>2. pc[a] = "check"
    BY <2>1 DEF CheckRule
  <2>3. PICK c \in StoredCodes : /\ Upper[c] = Upper[req[a].coupon]
                                /\ coupons[c] # NoRow /\ coupons[c].active
                                /\ coupons[c].from = rule[a].from
                                /\ coupons[c].until = rule[a].until
    BY <1>3, <2>2 DEF RuleKnown
  <2>4. /\ rule[a].from \in Int => rule[a].from <= clock
        /\ rule[a].until \in Int => clock <= rule[a].until
    BY <1>3, <2>1, CheckoutAssumption DEF InWindow, TypeOK
  <2> QED
    BY <2>3, <2>4
<1>4. Inv /\ [Next]_vars =>
        [\A a \in Attempts : pc[a] # "increment" /\ pc'[a] = "increment" =>
            \E c \in StoredCodes : /\ Upper[c] = Upper[req[a].coupon]
                                   /\ coupons[c] # NoRow /\ coupons[c].active
                                   /\ coupons[c].from \in Int => coupons[c].from <= clock
                                   /\ coupons[c].until \in Int => clock <= coupons[c].until]_vars
  BY <1>3
<1> QED
  BY <1>1, <1>2, <1>4, PTL DEF Spec, WindowHonoured

-----------------------------------------------------------------------------
(* The counter covers the stored orders.                                   *)

\* The attempts whose order under code is stored, or may yet be.
Backing(code) ==
    {a \in Attempts : pc[a] = "create" /\ req[a].coupon = code}
      \cup {a \in DOMAIN orders : orders[a].coupon = code}
      \cup {s.by : s \in {t \in stray : t.op = "create" /\ t.row.coupon = code}}

\* An attempt that has found its coupon found the row of its code; each order of
\* the code, stored or on its way, was counted.
Covered ==
    NoCaseVariants =>
        \A c \in StoredCodes :
            /\ \A a \in Attempts :
                  pc[a] \in {"check", "increment"} /\ req[a].coupon = c => coupons[c] # NoRow
            /\ coupons[c] = NoRow => Backing(c) = {}
            /\ coupons[c] # NoRow => /\ IsFiniteSet(Backing(c))
                                    /\ Cardinality(Backing(c)) <= coupons[c].uses

\* No step but the increment of a code lets an attempt store an order under it.
LEMMA HandleBacking ==
  ASSUME TypeOK, Sent, NEW a \in Attempts, Handle(a), NEW c \in StoredCodes
  PROVE  \/ Backing(c)' \subseteq Backing(c)
         \/ /\ IncrementUses(a)
            /\ req[a].coupon = c
            /\ coupons' = Incremented(c)
            /\ Backing(c)' \subseteq Backing(c) \cup {a}
<1>0. req' = req /\ c # NoCoupon
  BY HandleCases, CheckoutAssumption
<1>1. ASSUME \A b \in Attempts : pc'[b] = "create" /\ req'[b].coupon = c => pc[b] = "create",
             UNCHANGED orders, UNCHANGED stray \/ LeaveBehind({a})
      PROVE  Backing(c)' \subseteq Backing(c)
  <2> SUFFICES ASSUME NEW x \in Backing(c)' PROVE x \in Backing(c)
    OBVIOUS
  <2>1. CASE x \in Attempts /\ pc'[x] = "create" /\ req'[x].coupon = c
    BY <1>0, <1>1, <2>1 DEF Backing
  <2>2. CASE x \in DOMAIN orders' /\ orders'[x].coupon = c
    BY <1>1, <2>2 DEF Backing
  <2>3. CASE \E s \in stray' : s.op = "create" /\ s.row.coupon = c /\ x = s.by
    <3>1. PICK s \in stray' : s.op = "create" /\ s.row.coupon = c /\ x = s.by
      BY <2>3
    <3>2. s \in stray \/ (s.by = a /\ s.op = pc[a] /\ s.row.coupon = req[a].coupon)
      BY <1>1, LeftBehind
    <3> QED
      BY <3>1, <3>2 DEF Backing
  <2> QED
    BY <2>1, <2>2, <2>3 DEF Backing
<1>2. CASE GivesUp(a)
  <2>1. \A b \in Attempts : pc'[b] = "create" => pc[b] = "create"
    BY <1>2 DEF GivesUp, Answer, Goto, TypeOK
  <2> QED
    BY <1>1, <1>2, <2>1 DEF GivesUp
<1>3. CASE Stores(a)
  <2> SUFFICES ASSUME NEW x \in Backing(c)' PROVE x \in Backing(c)
    OBVIOUS
  <2>1. CASE x \in Attempts /\ pc'[x] = "create" /\ req'[x].coupon = c
    <3>1. pc[x] = "create"
      BY <1>3, <2>1 DEF Stores, Answer, Goto, TypeOK
    <3> QED
      BY <1>0, <2>1, <3>1 DEF Backing
  <2>2. CASE x \in DOMAIN orders' /\ orders'[x].coupon = c
    <3>1. CASE x = a
      <4>1. orders'[a].coupon = req[a].coupon /\ pc[a] = "create"
        BY <1>3 DEF Stores, Inserted, OrderRow
      <4> QED
        BY <2>2, <3>1, <4>1 DEF Backing
    <3>2. CASE x # a
      BY <1>3, <2>2, <3>2 DEF Stores, Inserted, Backing
    <3> QED
      BY <3>1, <3>2
  <2>3. CASE \E s \in stray' : s.op = "create" /\ s.row.coupon = c /\ x = s.by
    BY <1>3, <2>3 DEF Stores, Backing
  <2> QED
    BY <2>1, <2>2, <2>3 DEF Backing
<1>4. CASE GoesOn(a)
  <2>1. UNCHANGED <<orders, stray>> /\ \A b \in Attempts \ {a} : pc'[b] = pc[b]
    BY <1>4 DEF GoesOn, Goto, TypeOK
  <2>2. CASE pc'[a] = "create" /\ req[a].coupon = c
    <3>1. IncrementUses(a) /\ coupons' = Incremented(c)
      BY <1>0, <1>4, <2>2 DEF GoesOn, Handle, Authenticate, FetchProducts, FindByCode, CheckRule,
                              IncrementUses, CreateOrder, Answer, Goto, TypeOK
    <3>2. Backing(c)' \subseteq Backing(c) \cup {a}
      BY <1>0, <2>1 DEF Backing
    <3> QED
      BY <2>2, <3>1, <3>2
  <2>3. CASE ~(pc'[a] = "create" /\ req[a].coupon = c)
    BY <1>0, <1>1, <2>1, <2>3
  <2> QED
    BY <2>2, <2>3
<1> QED
  BY <1>2, <1>3, <1>4, HandleCases

LEMMA OtherBacking ==
  ASSUME TypeOK, NEW c \in StoredCodes,
         \/ \E a \in Attempts, r \in Requests : Receive(a, r)
         \/ Crash
         \/ \E s \in stray : ApplyStray(s) \/ DropStray(s)
         \/ UNCHANGED <<orders, stray, pc, req>>
  PROVE  Backing(c)' \subseteq Backing(c)
<1>1. ASSUME NEW a \in Attempts, NEW r \in Requests, Receive(a, r)
      PROVE  Backing(c)' \subseteq Backing(c)
  <2>1. /\ UNCHANGED <<orders, stray>>
        /\ pc'[a] # "create"
        /\ \A b \in Attempts \ {a} : pc'[b] = pc[b] /\ req'[b] = req[b]
    BY <1>1 DEF Receive, Goto, tables, TypeOK
  <2> QED
    BY <2>1 DEF Backing
<1>2. CASE Crash
  <2> SUFFICES ASSUME NEW x \in Backing(c)' PROVE x \in Backing(c)
    OBVIOUS
  <2>1. orders' = orders /\ req' = req /\ \A b \in Attempts : pc'[b] # "create"
    BY <1>2 DEF Crash, tables, InFlight, Serving
  <2>2. CASE \E s \in stray' : s.op = "create" /\ s.row.coupon = c /\ x = s.by
    <3>1. PICK s \in stray' : s.op = "create" /\ s.row.coupon = c /\ x = s.by
      BY <2>2
    <3>2. s \in stray \/ (s.by \in InFlight /\ s.op = pc[s.by] /\ s.row.coupon = req[s.by].coupon)
      BY <1>2, LeftBehind DEF Crash
    <3> QED
      BY <3>1, <3>2 DEF Backing, InFlight
  <2> QED
    BY <2>1, <2>2 DEF Backing
<1>3. ASSUME NEW s \in stray, ApplyStray(s)
      PROVE  Backing(c)' \subseteq Backing(c)
  <2>1. UNCHANGED <<pc, req>> /\ stray' \subseteq stray
    BY <1>3 DEF ApplyStray
  <2>2. CASE UNCHANGED orders
    BY <2>1, <2>2 DEF Backing
  <2>3. CASE s.op = "create" /\ orders' = Inserted(s.by, s.row)
    <3>1. \A x \in DOMAIN orders' :
            orders'[x].coupon = c => (x = s.by /\ s.row.coupon = c)
                                      \/ (x \in DOMAIN orders /\ orders[x].coupon = c)
      BY <2>3 DEF Inserted
    <3> QED
      BY <2>1, <2>3, <3>1 DEF Backing
  <2> QED
    BY <1>3, <2>2, <2>3 DEF ApplyStray
<1>4. ASSUME NEW s \in stray, DropStray(s)
      PROVE  Backing(c)' \subseteq Backing(c)
  BY <1>4 DEF DropStray, tables, Backing
<1>5. CASE UNCHANGED <<orders, stray, pc, req>>
  BY <1>5 DEF Backing
<1> QED
  BY <1>1, <1>2, <1>3, <1>4, <1>5

\* A row that is new starts with no use counted; the row of a code that an
\* attempt has found stays.
LEMMA StepFound ==
  ASSUME TypeOK, Covered, [Next]_vars, NoCaseVariants, NEW c \in StoredCodes,
         NEW b \in Attempts, pc'[b] \in {"check", "increment"}, req'[b].coupon = c
  PROVE  coupons'[c] # NoRow
<1>1. CASE coupons[c] # NoRow
  BY <1>1, StepKeeps DEF Same
<1>2. ASSUME coupons[c] = NoRow, pc[b] \in {"check", "increment"}, req[b].coupon = c
      PROVE  FALSE
  BY <1>2 DEF Covered
<1>3. ASSUME coupons[c] = NoRow, NEW a \in Attempts, Handle(a)
      PROVE  FALSE
  <2>1. CASE b # a \/ CheckRule(a)
    <3>1. pc[b] \in {"check", "increment"} /\ req' = req
      BY <1>3, <2>1 DEF Handle, Authenticate, FetchProducts, FindByCode, CheckRule,
                        IncrementUses, CreateOrder, Answer, Goto, TypeOK
    <3> QED
      BY <1>2, <1>3, <3>1
  <2>2. CASE b = a /\ FindByCode(a)
    <3>1. PICK d \in MatchingCodes(req[a].coupon) : TRUE
      BY <2>2 DEF FindByCode, Answer, Goto, TypeOK
    <3>2. d \in StoredCodes /\ Upper[d] = Upper[req[a].coupon] /\ coupons[d] # NoRow
      BY DEF MatchingCodes
    <3>3. req[a].coupon = c
      BY <2>2 DEF FindByCode
    <3> QED
      BY <1>3, <3>2, <3>3 DEF NoCaseVariants
  <2> QED
    BY <1>3, <2>1, <2>2 DEF Handle, Authenticate, FetchProducts, IncrementUses, CreateOrder,
                            Answer, Goto, TypeOK
<1>4. ASSUME coupons[c] = NoRow, NEW a \in Attempts, NEW r \in Requests, Receive(a, r)
      PROVE  FALSE
  <2>1. pc[b] \in {"check", "increment"} /\ req'[b] = req[b]
    BY <1>4 DEF Receive, Goto, TypeOK
  <2> QED
    BY <1>2, <1>4, <2>1
<1>5. ~Crash
  BY DEF Crash, InFlight, Serving
<1>6. CASE UNCHANGED <<pc, req>>
  BY <1>1, <1>2, <1>6
<1> QED
  BY <1>1, <1>3, <1>4, <1>5, <1>6
  DEF Next, vars, ApplyStray, DropStray, UpsertProduct, UpsertCoupon, Tick

\* Who may yet store an order, and the counter, from one state to the next.
LEMMA StepBacking ==
  ASSUME TypeOK, Sent, [Next]_vars, NEW c \in StoredCodes
  PROVE  \/ Backing(c)' \subseteq Backing(c)
         \/ \E a \in Attempts : /\ pc[a] = "increment"
                                /\ req[a].coupon = c
                                /\ coupons' = Incremented(c)
                                /\ Backing(c)' \subseteq Backing(c) \cup {a}
<1>1. CASE \E a \in Attempts : Handle(a)
  BY ZenonT(30), <1>1, HandleBacking DEF IncrementUses
<1>2. CASE \/ \E a \in Attempts, r \in Requests : Receive(a, r)
           \/ Crash
           \/ \E s \in stray : ApplyStray(s) \/ DropStray(s)
           \/ UNCHANGED <<orders, stray, pc, req>>
  BY <1>2, OtherBacking
<1> QED
  BY <1>1, <1>2 DEF Next, vars, tables, UpsertProduct, UpsertCoupon, Tick

LEMMA StepCovered == TypeOK /\ TypeOK' /\ Sent /\ Covered /\ [Next]_vars => Covered'
<1> SUFFICES ASSUME TypeOK, TypeOK', Sent, Covered, [Next]_vars, NoCaseVariants,
                    NEW c \in StoredCodes
             PROVE  /\ \A a \in Attempts :
                          pc'[a] \in {"check", "increment"} /\ req'[a].coupon = c
                              => coupons'[c] # NoRow
                    /\ coupons'[c] = NoRow => Backing(c)' = {}
                    /\ coupons'[c] # NoRow => /\ IsFiniteSet(Backing(c)')
                                              /\ Cardinality(Backing(c)') <= coupons'[c].uses
  BY DEF Covered, NoCaseVariants
<1>1. \A a \in Attempts : pc'[a] \in {"check", "increment"} /\ req'[a].coupon = c
                              => coupons'[c] # NoRow
  BY StepFound
<1>2. CASE coupons[c] = NoRow
  <2>1. Backing(c)' \subseteq Backing(c)
    BY <1>2, StepBacking DEF Covered
  <2>2. Backing(c)' = {}
    BY <1>2, <2>1 DEF Covered
  <2>3. coupons'[c] # NoRow => coupons'[c].uses \in Nat
    BY DEF TypeOK, Row
  <2> QED
    BY <1>1, <2>2, <2>3, FS_EmptySet
<1>3. CASE coupons[c] # NoRow
  <2>1. /\ IsFiniteSet(Backing(c))
        /\ Cardinality(Backing(c)) \in Nat
        /\ Cardinality(Backing(c)) <= coupons[c].uses
        /\ coupons[c].uses \in Nat
    BY <1>3, FS_CardinalityType DEF Covered, TypeOK, Row
  <2>2. coupons'[c] # NoRow /\ coupons'[c].uses >= coupons[c].uses
    BY <1>3, StepKeeps DEF Same
  <2>3. coupons'[c].uses \in Nat
    BY <2>2 DEF TypeOK, Row
  <2>4. CASE Backing(c)' \subseteq Backing(c)
    <3>1. /\ IsFiniteSet(Backing(c)')
          /\ Cardinality(Backing(c)') \in Nat
          /\ Cardinality(Backing(c)') <= Cardinality(Backing(c))
      BY <2>1, <2>4, Shrunk
    <3> QED
      BY <1>1, <2>1, <2>2, <2>3, <3>1
  <2>5. ASSUME NEW a \in Attempts, coupons' = Incremented(c),
               Backing(c)' \subseteq Backing(c) \cup {a}
        PROVE  /\ IsFiniteSet(Backing(c)')
               /\ Cardinality(Backing(c)') <= coupons'[c].uses
    <3>1. /\ IsFiniteSet(Backing(c) \cup {a})
          /\ Cardinality(Backing(c) \cup {a}) <= Cardinality(Backing(c)) + 1
      BY <2>1, AddOne
    <3>2. /\ IsFiniteSet(Backing(c)')
          /\ Cardinality(Backing(c) \cup {a}) \in Nat
          /\ Cardinality(Backing(c)') \in Nat
          /\ Cardinality(Backing(c)') <= Cardinality(Backing(c) \cup {a})
      BY <2>5, <3>1, Shrunk
    <3>3. coupons'[c].uses = coupons[c].uses + 1
      BY <1>3, <2>5, IncrementKeeps
    <3> QED
      BY <2>1, <3>1, <3>2, <3>3
  <2> QED
    BY <1>1, <2>2, <2>4, <2>5, StepBacking
<1> QED
  BY <1>2, <1>3

LEMMA InitCovered == Init => Covered
<1> SUFFICES ASSUME Init PROVE Covered
  OBVIOUS
<1>1. \A c \in StoredCodes : Backing(c) = {}
  BY DEF Init, Backing
<1>2. \A c \in StoredCodes : coupons[c] # NoRow => coupons[c].uses \in Nat
  BY InitType DEF TypeOK, Row
<1>3. \A a \in Attempts : pc[a] = "unsent"
  BY DEF Init
<1> QED
  BY <1>1, <1>2, <1>3, FS_EmptySet DEF Covered

\* A stored order never exceeds the counter of its code: whatever fails, is left
\* behind, crashes or is re-seeded, the orders under a code are at most its uses.
THEOREM OrdersCounted == Spec => []RedemptionsCounted
<1> DEFINE Inv == TypeOK /\ Sent /\ Covered
<1>1. Init => Inv
  BY InitType, InitCovered DEF Init, Sent
<1>2. Inv /\ [Next]_vars => Inv'
  BY StepType, StepSent, StepCovered
<1>3. Inv => RedemptionsCounted
  <2> SUFFICES ASSUME Inv, NoCaseVariants, NEW c \in StoredCodes, coupons[c] # NoRow
               PROVE  Cardinality({a \in DOMAIN orders : orders[a].coupon = c}) <= coupons[c].uses
    BY DEF RedemptionsCounted
  <2> DEFINE Stored == {a \in DOMAIN orders : orders[a].coupon = c}
  <2>1. Stored \subseteq Backing(c)
    BY DEF Backing
  <2>2. /\ IsFiniteSet(Backing(c))
        /\ Cardinality(Backing(c)) <= coupons[c].uses
        /\ coupons[c].uses \in Nat
    BY DEF Covered, TypeOK, Row
  <2> HIDE DEF Stored
  <2>3. /\ Cardinality(Backing(c)) \in Nat /\ Cardinality(Stored) \in Nat
        /\ Cardinality(Stored) <= Cardinality(Backing(c))
    BY <2>1, <2>2, Shrunk
  <2>4. Cardinality(Stored) <= coupons[c].uses
    BY <2>2, <2>3
  <2> QED
    BY <2>4 DEF Stored
<1> QED
  BY <1>1, <1>2, <1>3, PTL DEF Spec

-----------------------------------------------------------------------------
(* Every use is explained.                                                 *)

\* The attempts that account for a use of code, as UsesExplained has it.
Explained(code) ==
    {a \in Attempts : /\ req[a] # NoRequest
                      /\ req[a].coupon = code
                      /\ \/ pc[a] \in {"create", "lost"}
                         \/ reply[a] \in {200, 500}}

\* The attempts whose increment of code was left behind.
Pending(code) == {s.by : s \in {t \in stray : t.op = "increment" /\ t.row.coupon = code}}

\* There are finitely many attempts to count, and those that account for a use
\* suffice for the uses that may yet be counted as well.
Accounted ==
    /\ IsFiniteSet({a \in Attempts : pc[a] # "unsent"})
    /\ \A c \in StoredCodes :
          /\ Pending(c) \subseteq Explained(c)
          /\ coupons[c] # NoRow =>
                coupons[c].uses + Cardinality(Pending(c))
                    <= InitialUses(c) + Cardinality(Explained(c))

\* A handler before its increment, at it, and from there on.
LEMMA HandleStages ==
  ASSUME TypeOK, NEW a \in Attempts, Handle(a)
  PROVE  /\ \A b \in Attempts \ {a} : pc'[b] = pc[b] /\ reply'[b] = reply[b]
         /\ \/ /\ pc[a] \notin {"create", "increment"}
               /\ UNCHANGED <<coupons, stray>>
            \/ /\ pc[a] = "increment" /\ pc'[a] = "create"
               /\ coupons' = Incremented(req[a].coupon)
               /\ UNCHANGED stray
            \/ /\ pc[a] \in {"create", "increment"}
               /\ UNCHANGED coupons
               /\ reply'[a] \in {200, 500}
               /\ UNCHANGED stray \/ LeaveBehind({a})
<1>1. \A b \in Attempts \ {a} : pc'[b] = pc[b] /\ reply'[b] = reply[b]
  BY DEF Handle, Authenticate, FetchProducts, FindByCode, CheckRule, IncrementUses,
         CreateOrder, Answer, Goto, TypeOK
<1>2. CASE Authenticate(a) \/ FetchProducts(a) \/ FindByCode(a) \/ CheckRule(a)
  BY <1>1, <1>2 DEF Authenticate, FetchProducts, FindByCode, CheckRule, tables
<1>3. CASE IncrementUses(a)
  BY <1>1, <1>3 DEF IncrementUses, Answer, Goto, TypeOK
<1>4. CASE CreateOrder(a)
  BY <1>1, <1>4 DEF CreateOrder, Answer, Goto, TypeOK
<1> QED
  BY <1>2, <1>3, <1>4 DEF Handle

\* What a step can do to the account of one code: nothing but explain more; move
\* attempts N into it, whose increments stay behind; count the use of one that
\* moves in; or count one that was left behind.
Explains(c) == Explained(c) \subseteq Explained(c)'

MovesIn(c, N) ==
    /\ Pending(c)' \subseteq Pending(c) \cup N
    /\ N \cap Explained(c) = {}
    /\ N \subseteq Explained(c)'

Uncounted(c) == coupons[c] # NoRow => coupons'[c].uses = coupons[c].uses

LEMMA HandleAccounts ==
  ASSUME TypeOK, Sent, StrayOK, Told, NEW a \in Attempts, Handle(a), NEW c \in StoredCodes
  PROVE  /\ Explains(c)
         /\ \/ Uncounted(c) /\ MovesIn(c, {})
            \/ Uncounted(c) /\ MovesIn(c, {a})
            \/ /\ coupons' = Incremented(c)
               /\ Pending(c)' \subseteq Pending(c)
               /\ a \notin Explained(c) /\ a \in Explained(c)'
<1>1. /\ req' = req /\ reply[a] = 0 /\ pc[a] # "lost"
      /\ req[a] # NoRequest /\ c # NoCoupon
  BY HandleCases, CheckoutAssumption DEF Sent, Told, Serving
<1>2. \A b \in Attempts \ {a} : pc'[b] = pc[b] /\ reply'[b] = reply[b]
  BY ZenonT(30), HandleStages
<1>3. a \in Explained(c) <=> pc[a] = "create" /\ req[a].coupon = c
  BY <1>1 DEF Explained
<1>4. a \in Explained(c)' <=> /\ req[a].coupon = c
                              /\ pc'[a] \in {"create", "lost"} \/ reply'[a] \in {200, 500}
  BY <1>1 DEF Explained
<1>5. \A b \in Attempts \ {a} : b \in Explained(c)' <=> b \in Explained(c)
  BY <1>1, <1>2 DEF Explained
<1>6. Explained(c) \subseteq Attempts
  BY DEF Explained
<1>7. stray' = stray => Pending(c)' = Pending(c)
  BY DEF Pending
<1>8. CASE pc[a] \notin {"create", "increment"} /\ UNCHANGED <<coupons, stray>>
  <2>1. Explains(c)
    BY <1>3, <1>5, <1>6, <1>8 DEF Explains
  <2> QED
    BY <1>7, <1>8, <2>1 DEF Uncounted, MovesIn
<1>9. CASE /\ pc[a] = "increment" /\ pc'[a] = "create"
           /\ coupons' = Incremented(req[a].coupon)
           /\ UNCHANGED stray
  <2>1. Explains(c)
    BY <1>3, <1>5, <1>6, <1>9 DEF Explains
  <2>2. CASE req[a].coupon = c
    BY <1>3, <1>4, <1>7, <1>9, <2>1, <2>2
  <2>3. CASE req[a].coupon # c
    <3>1. Uncounted(c)
      BY <1>9, <2>3, IncrementKeeps DEF Uncounted
    <3> QED
      BY <1>7, <1>9, <2>1, <3>1 DEF MovesIn
  <2> QED
    BY <2>2, <2>3
<1>10. CASE /\ pc[a] \in {"create", "increment"}
            /\ UNCHANGED coupons
            /\ reply'[a] \in {200, 500}
            /\ UNCHANGED stray \/ LeaveBehind({a})
  <2>1. Explains(c)
    BY <1>3, <1>4, <1>5, <1>6, <1>10 DEF Explains
  <2>2. Uncounted(c)
    BY <1>10 DEF Uncounted
  <2>3. ASSUME NEW x \in Pending(c)', x \notin Pending(c)
        PROVE  x = a /\ pc[a] = "increment" /\ req[a].coupon = c
    <3>1. PICK s \in stray' : s.op = "increment" /\ s.row.coupon = c /\ x = s.by
      BY <2>3 DEF Pending
    <3>2. s \notin stray
      BY <2>3, <3>1 DEF Pending
    <3>3. s.by \in {a} /\ s.op = pc[s.by] /\ s.row.coupon = req[s.by].coupon
      BY <1>10, <3>2, LeftBehind
    <3> QED
      BY <3>1, <3>3
  <2>4. CASE pc[a] = "increment" /\ req[a].coupon = c
    <3>1. MovesIn(c, {a})
      BY <1>3, <1>4, <1>10, <2>3, <2>4 DEF MovesIn
    <3> QED
      BY <2>1, <2>2, <3>1
  <2>5. CASE ~(pc[a] = "increment" /\ req[a].coupon = c)
    <3>1. MovesIn(c, {})
      BY <2>3, <2>5 DEF MovesIn
    <3> QED
      BY <2>1, <2>2, <3>1
  <2> QED
    BY <2>4, <2>5
<1> QED
  BY <1>8, <1>9, <1>10, HandleStages

\* When the process dies, the attempts at their increment move in.
LEMMA CrashAccounts ==
  ASSUME TypeOK, Sent, StrayOK, Told, Crash, NEW c \in StoredCodes
  PROVE  /\ Explains(c)
         /\ Uncounted(c)
         /\ MovesIn(c, {a \in Attempts : pc[a] = "increment" /\ req[a].coupon = c})
<1> DEFINE N == {a \in Attempts : pc[a] = "increment" /\ req[a].coupon = c}
<1>1. /\ UNCHANGED <<coupons, req, reply>>
      /\ \A a \in Attempts : pc'[a] = IF a \in InFlight THEN "lost" ELSE pc[a]
  BY DEF Crash, tables
<1>2. Explains(c)
  BY <1>1 DEF Explains, Explained, InFlight, Serving
<1>3. N \cap Explained(c) = {}
  BY DEF Told, Explained
<1>4. N \subseteq Explained(c)'
  <2>1. \A a \in N : a \in InFlight /\ req[a] \in Requests
    BY DEF InFlight, Serving, Sent
  <2> QED
    BY <1>1, <2>1, CheckoutAssumption DEF Explained
<1>5. ASSUME NEW x \in Pending(c)', x \notin Pending(c)
      PROVE  x \in N
  <2>1. PICK s \in stray' : s.op = "increment" /\ s.row.coupon = c /\ x = s.by
    BY <1>5 DEF Pending
  <2>2. s \notin stray
    BY <1>5, <2>1 DEF Pending
  <2>3. s.by \in InFlight /\ s.op = pc[s.by] /\ s.row.coupon = req[s.by].coupon
    BY <2>2, LeftBehind DEF Crash
  <2> QED
    BY <2>1, <2>3 DEF InFlight
<1>6. MovesIn(c, N)
  BY <1>3, <1>4, <1>5 DEF MovesIn
<1> QED
  BY <1>1, <1>2, <1>6 DEF Uncounted

\* A statement left behind takes effect: its attempt is pending no longer.
LEMMA ApplyAccounts ==
  ASSUME TypeOK, StrayOK, NEW s \in stray, ApplyStray(s), NEW c \in StoredCodes
  PROVE  /\ Explains(c)
         /\ \/ Uncounted(c) /\ MovesIn(c, {})
            \/ /\ coupons' = Incremented(c)
               /\ Pending(c)' \subseteq Pending(c)
               /\ s.by \in Pending(c) \ Pending(c)'
<1>1. stray' = stray \ {s} /\ UNCHANGED <<pc, req, reply>>
  BY DEF ApplyStray
<1>2. Explains(c)
  BY <1>1 DEF Explains, Explained
<1>3. Pending(c)' \subseteq Pending(c)
  BY <1>1 DEF Pending
<1>4. CASE UNCHANGED coupons
  BY <1>2, <1>3, <1>4 DEF Uncounted, MovesIn
<1>5. CASE s.op = "increment" /\ coupons' = Incremented(s.row.coupon)
  <2>1. CASE s.row.coupon = c
    <3>1. s.by \in Pending(c)
      BY <1>5, <2>1 DEF Pending
    <3>2. s.by \notin Pending(c)'
      BY <1>1 DEF Pending, StrayOK
    <3> QED
      BY <1>2, <1>3, <1>5, <2>1, <3>1, <3>2
  <2>2. CASE s.row.coupon # c
    <3>1. Uncounted(c)
      BY <1>5, <2>2, IncrementKeeps DEF Uncounted
    <3> QED
      BY <1>2, <1>3, <3>1 DEF MovesIn
  <2> QED
    BY <2>1, <2>2
<1> QED
  BY <1>4, <1>5 DEF ApplyStray

\* The same number at most is added to P as to E.
LEMMA MoveInCount ==
  ASSUME NEW E, NEW E1, NEW P, NEW N, NEW P1,
         IsFiniteSet(E1), IsFiniteSet(P), IsFiniteSet(N),
         E \subseteq E1, N \subseteq E1, N \cap E = {}, P1 \subseteq P \cup N
  PROVE  /\ Cardinality(E) \in Nat /\ Cardinality(E1) \in Nat
         /\ Cardinality(P) \in Nat /\ Cardinality(P1) \in Nat
         /\ Cardinality(P1) + Cardinality(E) <= Cardinality(P) + Cardinality(E1)
<1>1. /\ IsFiniteSet(E) /\ Cardinality(E) \in Nat /\ Cardinality(E1) \in Nat
      /\ Cardinality(P) \in Nat /\ Cardinality(N) \in Nat
  BY FS_Subset, FS_CardinalityType
<1>2. Cardinality(E \cup N) = Cardinality(E) + Cardinality(N) /\ IsFiniteSet(E \cup N)
  <2>1. /\ IsFiniteSet(E \cup N)
        /\ Cardinality(E \cup N) = Cardinality(E) + Cardinality(N) - Cardinality(E \cap N)
    BY <1>1, FS_Union
  <2>2. Cardinality(E \cap N) = 0
    <3>1. E \cap N = {}
      OBVIOUS
    <3> QED
      BY <3>1, FS_EmptySet
  <2> QED
    BY <1>1, <2>1, <2>2
<1>3. Cardinality(E \cup N) <= Cardinality(E1)
  BY Shrunk
<1>4. /\ IsFiniteSet(P \cup N)
      /\ Cardinality(P \cup N) \in Nat
      /\ Cardinality(P \cup N) <= Cardinality(P) + Cardinality(N)
  <2>1. /\ IsFiniteSet(P \cup N)
        /\ Cardinality(P \cup N) = Cardinality(P) + Cardinality(N) - Cardinality(P \cap N)
    BY FS_Union
  <2>2. Cardinality(P \cap N) \in Nat
    BY FS_Intersection, FS_CardinalityType
  <2>3. Cardinality(P \cup N) \in Nat
    BY <2>1, FS_CardinalityType
  <2> QED
    BY <1>1, <2>1, <2>2, <2>3
<1>5. Cardinality(P1) \in Nat /\ Cardinality(P1) <= Cardinality(P \cup N)
  BY <1>4, Shrunk
<1> QED
  BY <1>1, <1>2, <1>3, <1>4, <1>5

Seen == {a \in Attempts : pc[a] # "unsent"}

LEMMA StepSeen == TypeOK /\ IsFiniteSet(Seen) /\ [Next]_vars => IsFiniteSet(Seen')
<1> SUFFICES ASSUME TypeOK, IsFiniteSet(Seen), [Next]_vars PROVE IsFiniteSet(Seen')
  OBVIOUS
<1>1. ASSUME NEW a \in Attempts, NEW r \in Requests, Receive(a, r)
      PROVE  IsFiniteSet(Seen')
  <2>1. Seen' \subseteq Seen \cup {a}
    BY <1>1 DEF Receive, Goto, Seen, TypeOK
  <2> QED
    BY <2>1, AddOne, FS_Subset
<1>2. ASSUME NEW a \in Attempts, Handle(a)
      PROVE  IsFiniteSet(Seen')
  <2>1. pc[a] # "unsent"
    BY <1>2, HandleCases DEF Serving
  <2>2. \A b \in Attempts \ {a} : pc'[b] = pc[b] /\ reply'[b] = reply[b]
    BY ZenonT(30), <1>2, HandleStages
  <2>3. Seen' \subseteq Seen
    BY <2>1, <2>2 DEF Seen
  <2> QED
    BY <2>3, FS_Subset
<1>3. CASE Crash
  <2>1. Seen' \subseteq Seen
    BY <1>3 DEF Crash, InFlight, Serving, Seen
  <2> QED
    BY <2>1, FS_Subset
<1>4. CASE UNCHANGED pc
  BY <1>4 DEF Seen
<1> QED
  BY <1>1, <1>2, <1>3, <1>4
  DEF Next, vars, ApplyStray, DropStray, UpsertProduct, UpsertCoupon, Tick

\* Only attempts that were sent account for anything.
LEMMA ExplainedSeen == Told => \A c : Explained(c) \subseteq Seen
BY DEF Told, Explained, Seen

LEMMA ExplainedSeenNext == Told' => (\A c : Explained(c) \subseteq Seen)'
BY ExplainedSeen, PTL

\* One step and one code.
LEMMA StepAccounts ==
  ASSUME Outcomes, IsFiniteSet(Seen), [Next]_vars, NEW c \in StoredCodes
  PROVE  /\ Explains(c)
         /\ \/ \E N : IsFiniteSet(N) /\ Uncounted(c) /\ MovesIn(c, N)
            \/ \E a : /\ coupons' = Incremented(c)
                      /\ Pending(c)' \subseteq Pending(c)
                      /\ a \notin Explained(c) /\ a \in Explained(c)'
            \/ \E a : /\ coupons' = Incremented(c)
                      /\ Pending(c)' \subseteq Pending(c)
                      /\ a \in Pending(c) \ Pending(c)'
<1> USE DEF Outcomes
<1>0. IsFiniteSet({})
  BY FS_EmptySet
<1>1. CASE \E a \in Attempts : Handle(a)
  <2>1. \A a : IsFiniteSet({a})
    BY FS_Singleton
  <2> QED
    BY <1>0, <1>1, <2>1, HandleAccounts
<1>2. CASE Crash
  <2>1. {a \in Attempts : pc[a] = "increment" /\ req[a].coupon = c} \subseteq Seen
    BY DEF Seen
  <2>2. IsFiniteSet({a \in Attempts : pc[a] = "increment" /\ req[a].coupon = c})
    BY <2>1, FS_Subset
  <2> QED
    BY <1>2, <2>2, CrashAccounts
<1>3. CASE \E s \in stray : ApplyStray(s)
  BY <1>0, <1>3, ApplyAccounts
<1>4. ASSUME Explains(c), Uncounted(c), Pending(c)' \subseteq Pending(c)
      PROVE  Explains(c) /\ \E N : IsFiniteSet(N) /\ Uncounted(c) /\ MovesIn(c, N)
  <2>1. MovesIn(c, {})
    BY <1>4 DEF MovesIn
  <2> QED
    BY <1>0, <1>4, <2>1
<1>5. ASSUME NEW a \in Attempts, NEW r \in Requests, Receive(a, r)
      PROVE  Explains(c) /\ \E N : IsFiniteSet(N) /\ Uncounted(c) /\ MovesIn(c, N)
  <2>1. /\ UNCHANGED <<coupons, stray, reply>>
        /\ pc[a] = "unsent" /\ reply[a] = 0
        /\ \A b \in Attempts \ {a} : pc'[b] = pc[b] /\ req'[b] = req[b]
    BY <1>5 DEF Receive, Goto, tables, TypeOK, Told
  <2>2. Explains(c)
    BY <2>1 DEF Explains, Explained
  <2> QED
    BY <1>4, <2>1, <2>2 DEF Uncounted, Pending
<1>6. ASSUME NEW s \in stray, DropStray(s)
      PROVE  Explains(c) /\ \E N : IsFiniteSet(N) /\ Uncounted(c) /\ MovesIn(c, N)
  <2>1. Explains(c) /\ Uncounted(c) /\ Pending(c)' \subseteq Pending(c)
    BY <1>6 DEF DropStray, tables, Explains, Explained, Uncounted, Pending
  <2> QED
    BY <1>4, <2>1
<1>7. ASSUME NEW code \in StoredCodes, NEW t \in Templates, UpsertCoupon(code, t)
      PROVE  Explains(c) /\ \E N : IsFiniteSet(N) /\ Uncounted(c) /\ MovesIn(c, N)
  <2>1. Explains(c) /\ Pending(c)' \subseteq Pending(c)
    BY <1>7 DEF UpsertCoupon, Explains, Explained, Pending
  <2>2. Uncounted(c)
    BY <1>7, UpsertKeeps DEF UpsertCoupon, Uncounted
  <2> QED
    BY <1>4, <2>1, <2>2
<1>8. CASE UNCHANGED <<coupons, stray, pc, req, reply>>
  <2>1. Explains(c) /\ Uncounted(c) /\ Pending(c)' \subseteq Pending(c)
    BY <1>8 DEF Explains, Explained, Uncounted, Pending
  <2> QED
    BY <1>4, <2>1
<1> QED
  BY <1>1, <1>2, <1>3, <1>5, <1>6, <1>7, <1>8
  DEF Next, vars, tables, UpsertProduct, Tick

\* A row appears with no use counted.
LEMMA StepFresh ==
  ASSUME TypeOK, [Next]_vars, NEW c \in StoredCodes, coupons[c] = NoRow, coupons'[c] # NoRow
  PROVE  coupons'[c].uses = 0
<1>1. ASSUME NEW code, coupons' = Incremented(code)
      PROVE  FALSE
  BY <1>1 DEF Incremented, TypeOK
<1>2. coupons' # coupons
  OBVIOUS
<1>3. \A a \in Attempts : ~Handle(a)
  BY <1>1, <1>2 DEF Handle, Authenticate, FetchProducts, FindByCode, CheckRule, IncrementUses,
                    CreateOrder, tables
<1>4. \A s \in stray : ~ApplyStray(s) /\ ~DropStray(s)
  BY <1>1, <1>2 DEF ApplyStray, DropStray, tables
<1>5. PICK code \in StoredCodes, t \in Templates : UpsertCoupon(code, t)
  BY <1>2, <1>3, <1>4 DEF Next, vars, tables, Receive, Crash, UpsertProduct, Tick
<1>6. code = c
  BY <1>5 DEF UpsertCoupon, Upserted, TypeOK
<1> QED
  BY <1>5, <1>6 DEF UpsertCoupon, Upserted, TypeOK

LEMMA StepAccounted ==
  Outcomes /\ Outcomes' /\ Accounted /\ [Next]_vars => Accounted'
<1> SUFFICES ASSUME Outcomes, Outcomes', Accounted, [Next]_vars PROVE Accounted'
  OBVIOUS
<1>1. IsFiniteSet(Seen) /\ IsFiniteSet(Seen')
  BY StepSeen DEF Accounted, Seen, Outcomes
<1>2. ASSUME NEW c \in StoredCodes
      PROVE  /\ Pending(c)' \subseteq Explained(c)'
             /\ coupons'[c] # NoRow =>
                   coupons'[c].uses + Cardinality(Pending(c)')
                       <= InitialUses(c) + Cardinality(Explained(c)')
  <2>1. Pending(c) \subseteq Explained(c) /\ Explains(c)
    BY <1>1, StepAccounts DEF Accounted
  <2>2. Explained(c) \subseteq Explained(c)'
    BY <2>1 DEF Explains
  <2>3. IsFiniteSet(Explained(c)) /\ IsFiniteSet(Explained(c)') /\ IsFiniteSet(Pending(c))
    <3>1. Explained(c) \subseteq Seen /\ Explained(c)' \subseteq Seen'
      BY ExplainedSeen, ExplainedSeenNext DEF Outcomes
    <3> QED
      BY <1>1, <2>1, <3>1, FS_Subset
  <2>4. InitialUses(c) \in Nat
    BY CheckoutAssumption DEF InitialUses, Row
  <2>5. Pending(c)' \subseteq Explained(c)'
    BY <1>1, <2>1, <2>2, StepAccounts DEF MovesIn
  <2>6. CASE coupons[c] = NoRow
    <3>1. coupons'[c] # NoRow => coupons'[c].uses = 0
      BY <1>1, <2>6, StepFresh DEF Outcomes
    <3>2. /\ Cardinality(Pending(c)') \in Nat
          /\ Cardinality(Explained(c)') \in Nat
          /\ Cardinality(Pending(c)') <= Cardinality(Explained(c)')
      BY <2>3, <2>5, Shrunk
    <3> QED
      BY <2>4, <2>5, <3>1, <3>2
  <2>7. CASE coupons[c] # NoRow
    <3>1. /\ coupons[c].uses \in Nat
          /\ coupons[c].uses + Cardinality(Pending(c))
                <= InitialUses(c) + Cardinality(Explained(c))
      BY <2>7 DEF Accounted, Outcomes, TypeOK, Row
    <3>2. ASSUME NEW N, IsFiniteSet(N), Uncounted(c), MovesIn(c, N)
          PROVE  coupons'[c].uses + Cardinality(Pending(c)')
                     <= InitialUses(c) + Cardinality(Explained(c)')
      <4>1. /\ Cardinality(Explained(c)) \in Nat /\ Cardinality(Explained(c)') \in Nat
            /\ Cardinality(Pending(c)) \in Nat /\ Cardinality(Pending(c)') \in Nat
            /\ Cardinality(Pending(c)') + Cardinality(Explained(c))
                  <= Cardinality(Pending(c)) + Cardinality(Explained(c)')
        BY <2>2, <2>3, <3>2, MoveInCount DEF MovesIn
      <4>2. coupons'[c].uses = coupons[c].uses
        BY <2>7, <3>2 DEF Uncounted
      <4> QED
        BY <2>4, <3>1, <4>1, <4>2
    <3>3. coupons' = Incremented(c) => coupons'[c].uses = coupons[c].uses + 1
      BY <2>7, IncrementKeeps DEF Outcomes
    <3>4. ASSUME NEW a, coupons' = Incremented(c), Pending(c)' \subseteq Pending(c),
                 a \notin Explained(c), a \in Explained(c)'
          PROVE  coupons'[c].uses + Cardinality(Pending(c)')
                     <= InitialUses(c) + Cardinality(Explained(c)')
      <4>1. Cardinality(Explained(c)) + 1 <= Cardinality(Explained(c)')
        BY <2>2, <2>3, <3>4, ShrunkByOne
      <4>2. /\ Cardinality(Pending(c)) \in Nat /\ Cardinality(Pending(c)') \in Nat
            /\ Cardinality(Pending(c)') <= Cardinality(Pending(c))
            /\ Cardinality(Explained(c)) \in Nat /\ Cardinality(Explained(c)') \in Nat
        BY <2>3, <3>4, Shrunk, FS_CardinalityType
      <4> QED
        BY <2>4, <3>1, <3>3, <3>4, <4>1, <4>2
    <3>5. ASSUME NEW a, coupons' = Incremented(c), Pending(c)' \subseteq Pending(c),
                 a \in Pending(c) \ Pending(c)'
          PROVE  coupons'[c].uses + Cardinality(Pending(c)')
                     <= InitialUses(c) + Cardinality(Explained(c)')
      <4>1. Cardinality(Pending(c)') + 1 <= Cardinality(Pending(c))
        BY <2>3, <3>5, ShrunkByOne
      <4>2. /\ Cardinality(Pending(c)) \in Nat /\ Cardinality(Pending(c)') \in Nat
            /\ Cardinality(Explained(c)) \in Nat /\ Cardinality(Explained(c)') \in Nat
            /\ Cardinality(Explained(c)) <= Cardinality(Explained(c)')
        BY <2>2, <2>3, <3>5, Shrunk
      <4> QED
        BY <2>4, <3>1, <3>3, <3>5, <4>1, <4>2
    <3> QED
      BY <1>1, <2>5, <3>2, <3>4, <3>5, StepAccounts
  <2> QED
    BY <2>6, <2>7
<1> QED
  BY <1>1, <1>2 DEF Accounted, Seen

\* No use is counted but for an attempt that is about to store its order, has
\* stored it, was answered 500 or was cut off: a refused one takes none.
THEOREM UsesAccounted == Spec => []UsesExplained
<1>1. Init => Accounted
  <2> SUFFICES ASSUME Init PROVE Accounted
    OBVIOUS
  <2>1. {a \in Attempts : pc[a] # "unsent"} = {}
    BY DEF Init
  <2>2. ASSUME NEW c \in StoredCodes, coupons[c] # NoRow
        PROVE  coupons[c].uses + Cardinality({}) <= InitialUses(c) + Cardinality({})
    <3>1. coupons[c].uses = InitialUses(c) /\ coupons[c].uses \in Nat
      BY <2>2, CheckoutAssumption DEF Init, InitialUses, Row
    <3> QED
      BY <3>1, FS_EmptySet
  <2>3. \A c \in StoredCodes : Pending(c) = {} /\ Explained(c) = {}
    BY DEF Init, Pending, Explained
  <2> QED
    BY <2>1, <2>2, <2>3, FS_EmptySet DEF Accounted
<1>2. Outcomes /\ Accounted => UsesExplained
  <2> SUFFICES ASSUME Outcomes, Accounted, NEW c \in StoredCodes, coupons[c] # NoRow
               PROVE  coupons[c].uses <= InitialUses(c) + Cardinality(Explained(c))
    BY DEF UsesExplained, Explained
  <2>1. IsFiniteSet(Seen) /\ Explained(c) \subseteq Seen /\ Pending(c) \subseteq Explained(c)
    BY ExplainedSeen DEF Accounted, Seen, Outcomes
  <2>2. /\ coupons[c].uses \in Nat
        /\ coupons[c].uses + Cardinality(Pending(c)) <= InitialUses(c) + Cardinality(Explained(c))
    BY DEF Accounted, Outcomes, TypeOK, Row
  <2>3. Cardinality(Pending(c)) \in Nat /\ Cardinality(Explained(c)) \in Nat
    BY <2>1, FS_Subset, FS_CardinalityType
  <2>4. InitialUses(c) \in Nat
    BY CheckoutAssumption DEF InitialUses, Row
  <2> QED
    BY <2>2, <2>3, <2>4
<1>3. Outcomes /\ Outcomes' /\ Accounted /\ [Next]_vars => Accounted'
  BY StepAccounted
<1> QED
  BY <1>1, <1>2, <1>3, OutcomesKept, PTL DEF Spec

-----------------------------------------------------------------------------
(* The amounts of an order.                                                *)

\* The least element of two or of finitely many amounts.
LEMMA LeastOf ==
  ASSUME NEW P, P \subseteq Int, IsFiniteSet(P), P # {}
  PROVE  Min(P) \in P /\ \A x \in P : Min(P) <= x
<1>1. PICK m \in P : \A x \in P : m <= x
  BY FiniteMin
<1> QED
  BY <1>1 DEF Min

LEMMA LeastOfTwo ==
  ASSUME NEW m \in Int, NEW n \in Int
  PROVE  Min({m, n}) = IF m <= n THEN m ELSE n
BY DEF Min

\* A price fetched may be any number of cents: the subtotal is one, too.
LEMMA SubtotalType ==
  ASSUME NEW cart \in Seq(Line)
  PROVE  calcSubtotal(cart) \in Int
<1> DEFINE S == DOMAIN cart
           w == [i \in S |-> cart[i].price * cart[i].quantity]
<1>1. IsFiniteSet(S)
  <2>1. DOMAIN cart = 1..Len(cart) /\ Len(cart) \in Nat
    OBVIOUS
  <2> QED
    BY <2>1, FS_Interval
<1>2. \A i \in S : w[i] \in Int
  <2>1. \A i \in S : cart[i] \in Line
    OBVIOUS
  <2>2. \A m, n \in Int : m * n \in Int
    OBVIOUS
  <2> QED
    BY <2>1, <2>2 DEF Line
<1>3. calcSubtotal(cart) = SumFunctionOnSet(w, S)
  BY DEF calcSubtotal, SumFunction
<1> HIDE DEF w, S
<1> QED
  BY <1>1, <1>2, <1>3, SumFacts

LEMMA LowestType ==
  ASSUME NEW cart \in Seq(Line)
  PROVE  findLowestUnitPrice(cart) \in Int
<1> DEFINE P == {line.price : line \in ToSet(cart)}
<1>1. CASE cart = <<>>
  BY <1>1 DEF findLowestUnitPrice
<1>2. CASE cart # <<>>
  <2>1. \A i \in DOMAIN cart : cart[i].price \in Int
    <3>1. \A i \in DOMAIN cart : cart[i] \in Line
      OBVIOUS
    <3> QED
      BY <3>1 DEF Line
  <2>2. P = {cart[i].price : i \in DOMAIN cart}
    BY DEF ToSet
  <2>3. DOMAIN cart = 1..Len(cart) /\ Len(cart) \in Nat /\ 1 \in DOMAIN cart
    BY <1>2
  <2>4. IsFiniteSet(P)
    <3>1. IsFiniteSet(DOMAIN cart)
      BY <2>3, FS_Interval
    <3>2. [i \in DOMAIN cart |-> cart[i].price] \in Surjection(DOMAIN cart, P)
      BY <2>2 DEF Surjection
    <3> QED
      BY <3>1, <3>2, FS_Surjection
  <2>5. P \subseteq Int /\ cart[1].price \in P
    BY <2>1, <2>2, <2>3
  <2> HIDE DEF P
  <2>6. Min(P) \in Int
    BY <2>4, <2>5, LeastOf
  <2> QED
    BY <1>2, <2>6 DEF findLowestUnitPrice, P
<1> QED
  BY <1>1, <1>2

\* Whatever the row of the coupon and the prices say, no discount and no total
\* is negative.
LEMMA ApplyType ==
  ASSUME NEW r \in Row, NEW cart \in Seq(Line)
  PROVE  Apply(r, cart) \in Nat
<1> DEFINE s == calcSubtotal(cart)
           amount == CASE r.type = "percentage" -> applyPercentage(r, s)
                       [] r.type = "fixed" -> applyFixed(r, s)
                       [] r.type = "free_lowest" -> applyFreeLowest(cart)
<1>1. r.type \in DiscountTypes /\ r.value \in Int /\ r.maxDiscount \in Int
  BY DEF Row
<1>2. s \in Int
  BY SubtotalType
<1> HIDE DEF s
<1>3. \A n \in Int : floorAtZero(n) \in Nat
  BY DEF floorAtZero
<1>4. applyPercentage(r, s) \in Nat
  <2>1. s * r.value \in Int
    <3>1. \A m, n \in Int : m * n \in Int
      OBVIOUS
    <3> QED
      BY <1>1, <1>2, <3>1
  <2> DEFINE share == s * r.value
  <2>2. floorAtZero(share) \in Nat
    <3>1. share \in Int
      BY <2>1
    <3> HIDE DEF share
    <3> QED
      BY <1>3, <3>1
  <2>3. \A n \in Nat : (n + 5000) \div 10000 \in Nat
    OBVIOUS
  <2>4. applyPercentage(r, s) = (floorAtZero(share) + 5000) \div 10000
    BY DEF applyPercentage
  <2> QED
    <3> HIDE DEF share
    <3> QED
      BY <2>2, <2>3, <2>4
<1>5. applyFixed(r, s) \in Nat
  <2>1. Min({r.value, s}) \in Int
    BY <1>1, <1>2, LeastOfTwo
  <2> QED
    BY <1>3, <2>1 DEF applyFixed
<1>6. applyFreeLowest(cart) \in Nat
  BY <1>3, LowestType DEF applyFreeLowest
<1>7. amount \in Nat
  BY <1>1, <1>4, <1>5, <1>6 DEF DiscountTypes
<1>8. Apply(r, cart) = IF r.maxDiscount > 0 THEN Min({amount, r.maxDiscount}) ELSE amount
  BY DEF Apply, s
<1> HIDE DEF amount
<1>9. Min({amount, r.maxDiscount}) = IF amount <= r.maxDiscount THEN amount ELSE r.maxDiscount
  BY <1>1, <1>7, LeastOfTwo
<1> QED
  BY <1>1, <1>7, <1>8, <1>9

LEMMA OrderRowType ==
  ASSUME TypeOK, NEW a \in Attempts
  PROVE  /\ OrderRow(a).total \in Nat
         /\ OrderRow(a).discounts \in Nat
         /\ OrderRow(a).coupon = req[a].coupon
         /\ rule[a] = NoRule => OrderRow(a).discounts = 0
<1>1. DiscountAmount(a) \in Nat /\ (rule[a] = NoRule => DiscountAmount(a) = 0)
  <2>1. lines[a] \in Seq(Line) /\ rule[a] \in Row \cup {NoRule}
    BY DEF TypeOK
  <2> QED
    BY <2>1, ApplyType DEF DiscountAmount
<1>2. Total(lines[a], DiscountAmount(a)) \in Nat
  <2>1. calcSubtotal(lines[a]) \in Int
    BY SubtotalType DEF TypeOK
  <2> QED
    BY <1>1, <2>1 DEF Total, floorAtZero
<1> QED
  BY <1>1, <1>2 DEF OrderRow

\* The amounts of a row of the orders table.
Proper(row) ==
    /\ row.total \in 0..MaxAmount
    /\ row.discounts \in 0..MaxAmount
    /\ row.coupon = NoCoupon => row.discounts = 0

\* No rule is held without a coupon: neither before the coupon is looked up nor
\* by a request that names none.
Ruled ==
    /\ \A a \in Attempts : pc[a] \in {"unsent", "authenticate", "fetch", "find"} => rule[a] = NoRule
    /\ \A a \in Attempts : pc[a] # "unsent" /\ req[a].coupon = NoCoupon =>
            rule[a] = NoRule /\ pc[a] # "find"

\* The rows stored and those left behind to be stored are proper.
AmountsOK ==
    /\ Ruled
    /\ \A a \in DOMAIN orders : Proper(orders[a])
    /\ \A s \in stray : s.op = "create" => Proper(s.row)

\* A row that fits its columns, as an attempt that holds no rule without a coupon
\* writes it, is proper.
LEMMA RowProper ==
  ASSUME TypeOK, Ruled, NEW a \in Attempts, pc[a] = "create", Fits(OrderRow(a))
  PROVE  Proper(OrderRow(a))
<1>1. OrderRow(a).coupon = NoCoupon => rule[a] = NoRule
  BY OrderRowType DEF Ruled
<1> QED
  BY <1>1, OrderRowType, CheckoutAssumption DEF Proper, Fits

LEMMA LeftProper ==
  ASSUME TypeOK, AmountsOK, NEW A \in SUBSET Attempts, LeaveBehind(A), NEW s \in stray', s.op = "create"
  PROVE  Proper(s.row)
<1>1. CASE s \in stray
  BY <1>1 DEF AmountsOK
<1>2. CASE s \notin stray
  <2>1. PICK b \in A : s = Statement(b) /\ (pc[b] = "increment" \/ (pc[b] = "create" /\ Fits(OrderRow(b))))
    BY <1>2 DEF LeaveBehind, Unfinished
  <2>2. pc[b] = "create" /\ s.row = OrderRow(b)
    BY <2>1 DEF Statement
  <2> QED
    BY <2>1, <2>2, RowProper DEF AmountsOK
<1> QED
  BY <1>1, <1>2

LEMMA StepRuled == TypeOK /\ Ruled /\ [Next]_vars => Ruled'
<1> SUFFICES ASSUME TypeOK, Ruled, [Next]_vars PROVE Ruled'
  OBVIOUS
<1> USE DEF Ruled
<1>1. ASSUME NEW a \in Attempts, NEW r \in Requests, Receive(a, r) PROVE Ruled'
  BY <1>1 DEF Receive, Goto, TypeOK
<1>2. ASSUME NEW a \in Attempts, Handle(a) PROVE Ruled'
  <2>1. \A b \in Attempts : b # a => pc'[b] = pc[b] /\ rule'[b] = rule[b] /\ req' = req
    BY <1>2 DEF Handle, Authenticate, FetchProducts, FindByCode, CheckRule,
                IncrementUses, CreateOrder, Answer, Goto, TypeOK
  <2>2. /\ pc'[a] \in {"authenticate", "fetch", "find"} => rule'[a] = NoRule
        /\ pc[a] # "unsent" /\ pc'[a] # "unsent" /\ req' = req
        /\ req[a].coupon = NoCoupon => rule'[a] = NoRule /\ pc'[a] # "find"
    <3>1. ASSUME NEW status, Answer(a, status) PROVE pc'[a] = "answered" /\ rule'[a] = NoRule
      BY <3>1 DEF Answer, Goto, TypeOK
    <3>2. pc[a] # "unsent" /\ req' = req
      BY <1>2, HandleCases DEF Serving
    <3>3. CASE Authenticate(a)
      BY <3>1, <3>2, <3>3 DEF Authenticate, Goto, TypeOK
    <3>4. CASE FetchProducts(a)
      BY <3>1, <3>2, <3>4 DEF FetchProducts, Goto, TypeOK
    <3>5. CASE FindByCode(a)
      BY <3>1, <3>2, <3>5 DEF FindByCode, Goto, TypeOK
    <3>6. CASE CheckRule(a)
      BY <3>1, <3>2, <3>6 DEF CheckRule, Goto, TypeOK
    <3>7. CASE IncrementUses(a)
      BY <3>1, <3>2, <3>7 DEF IncrementUses, Goto, TypeOK
    <3>8. CASE CreateOrder(a)
      BY <3>1, <3>2, <3>8 DEF CreateOrder, Goto, TypeOK
    <3> QED
      BY <1>2, <3>3, <3>4, <3>5, <3>6, <3>7, <3>8 DEF Handle
  <2> QED
    BY <2>1, <2>2
<1>3. CASE UNCHANGED <<pc, req, rule>>
  BY <1>3
<1>4. CASE Crash
  BY <1>4 DEF Crash, InFlight, Serving
<1> QED
  BY <1>1, <1>2, <1>3, <1>4
  DEF Next, vars, ApplyStray, DropStray, UpsertProduct, UpsertCoupon, Tick

LEMMA StepAmounts == TypeOK /\ AmountsOK /\ [Next]_vars => AmountsOK'
<1> SUFFICES ASSUME TypeOK, AmountsOK, [Next]_vars
             PROVE  /\ \A b \in DOMAIN orders' : Proper(orders'[b])
                    /\ \A s \in stray' : s.op = "create" => Proper(s.row)
  BY StepRuled DEF AmountsOK, Proper
<1>1. ASSUME NEW a \in Attempts, Handle(a)
      PROVE  /\ \A b \in DOMAIN orders' : Proper(orders'[b])
             /\ \A s \in stray' : s.op = "create" => Proper(s.row)
  <2>1. CASE UNCHANGED orders /\ (UNCHANGED stray \/ LeaveBehind({a}))
    <3>1. {a} \in SUBSET Attempts
      OBVIOUS
    <3> QED
      BY <2>1, <3>1, LeftProper DEF AmountsOK
  <2>2. CASE Stores(a)
    <3>1. Fits(OrderRow(a)) /\ pc[a] = "create"
      BY <1>1, <2>2 DEF Stores, Handle, Authenticate, FetchProducts, FindByCode, CheckRule,
                        IncrementUses, CreateOrder, Answer, TypeOK
    <3>2. Proper(OrderRow(a))
      BY <3>1, RowProper DEF AmountsOK
    <3> QED
      BY <2>2, <3>2 DEF Stores, Inserted, AmountsOK
  <2> QED
    BY <1>1, <2>1, <2>2, HandleCases DEF GoesOn, GivesUp
<1>2. CASE Crash
  <2>1. InFlight \in SUBSET Attempts
    BY DEF InFlight
  <2> QED
    BY <1>2, <2>1, LeftProper DEF Crash, tables, AmountsOK
<1>3. ASSUME NEW s \in stray, ApplyStray(s)
      PROVE  /\ \A b \in DOMAIN orders' : Proper(orders'[b])
             /\ \A t \in stray' : t.op = "create" => Proper(t.row)
  BY <1>3 DEF ApplyStray, Inserted, AmountsOK
<1>4. CASE UNCHANGED orders /\ stray' \subseteq stray
  BY <1>4 DEF AmountsOK
<1> QED
  BY <1>1, <1>2, <1>3, <1>4
  DEF Next, vars, tables, Receive, DropStray, UpsertProduct, UpsertCoupon, Tick

\* The amounts of every stored order fit their columns and are not negative, for
\* any prices and any coupon, and none is discounted without a coupon
\* (service.go:123-138).
THEOREM AmountsProper == Spec => []AmountsConsistent
<1>1. Init => TypeOK /\ Sent /\ AmountsOK
  BY InitType DEF Init, Sent, AmountsOK, Ruled
<1>2. TypeOK /\ Sent /\ AmountsOK /\ [Next]_vars => TypeOK' /\ Sent' /\ AmountsOK'
  BY StepType, StepSent, StepAmounts
<1>3. AmountsOK => AmountsConsistent
  BY DEF AmountsOK, Proper, AmountsConsistent
<1> QED
  BY <1>1, <1>2, <1>3, PTL DEF Spec

-----------------------------------------------------------------------------
(* The books.                                                              *)

\* The two state functions that stand for variables of the ledger.
Book == Listed(coupons, orders)

Answers == [a \in Attempts |-> Says(reply[a])]

FreshRow(t) ==
    [type |-> t.type, value |-> t.value, minItems |-> t.minItems,
     maxDiscount |-> 0, from |-> Null, until |-> Null,
     maxUses |-> 0, uses |-> 0, active |-> TRUE]

FreshEntry == [maxUses |-> 0, from |-> Null, until |-> Null, uses |-> 0, spent |-> 0]

Spent(code) == Cardinality(Under(code, orders))

LEMMA BookEntry ==
    /\ DOMAIN Book = {c \in StoredCodes : coupons[c] # NoRow}
    /\ \A c \in DOMAIN Book : Book[c] = Entry(coupons[c], Spent(c))
    /\ Book = [c \in DOMAIN Book |-> Book[c]]
  BY DEF Book, Listed, Spent

LEMMA BookEntryNext ==
    /\ DOMAIN Book' = {c \in StoredCodes : coupons'[c] # NoRow}
    /\ \A c \in DOMAIN Book' : Book'[c] = Entry(coupons'[c], Spent(c)')
    /\ Book' = [c \in DOMAIN Book' |-> Book'[c]]
  BY DEF Book, Listed, Spent

-----------------------------------------------------------------------------
(* The coupons table.                                                      *)

\* What becomes of one row becomes of its entry.
LEMMA EntryKept ==
    ASSUME NEW c \in StoredCodes, coupons[c] # NoRow, coupons'[c] = coupons[c],
           Spent(c)' = Spent(c)
    PROVE  c \in DOMAIN Book /\ c \in DOMAIN Book' /\ Book'[c] = Book[c]
<1>1. c \in DOMAIN Book /\ c \in DOMAIN Book'
  BY BookEntry, BookEntryNext
<1>2. Book[c] = Entry(coupons[c], Spent(c)) /\ Book'[c] = Entry(coupons'[c], Spent(c)')
  BY <1>1, BookEntry, BookEntryNext
<1> QED
  BY <1>1, <1>2

LEMMA SpentKept ==
    ASSUME orders' = orders, NEW c
    PROVE  Spent(c)' = Spent(c)
  BY DEF Spent, Under

\* A use that is counted is one entry of the books, or none.
LEMMA Counting ==
    ASSUME TypeOK, NEW code, coupons' = Incremented(code), UNCHANGED <<orders, reply>>
    PROVE  [Ledger!Next]_(Ledger!vars)
<1>1. CASE code \in StoredCodes /\ coupons[code] # NoRow
  <2> DEFINE row == [coupons[code] EXCEPT !.uses = coupons[code].uses + 1]
  <2>1. coupons[code] \in Row
    BY <1>1 DEF TypeOK
  <2>2. row \in Row
    BY <2>1, CountedRowType
  <2>3. /\ coupons'[code] = row /\ row # NoRow
        /\ \A c \in StoredCodes : c # code => coupons'[c] = coupons[c]
    BY <1>1, <2>2, CheckoutAssumption DEF Incremented, TypeOK
  <2>4. /\ row.maxUses = coupons[code].maxUses /\ row.from = coupons[code].from
        /\ row.until = coupons[code].until /\ row.uses = coupons[code].uses + 1
    BY <2>1 DEF Row
  <2> HIDE DEF row
  <2>5. DOMAIN Book' = DOMAIN Book /\ code \in DOMAIN Book
    BY <1>1, <2>3, BookEntry, BookEntryNext
  <2>6. \A c \in DOMAIN Book : c # code => Book'[c] = Book[c]
    BY <2>3, <2>5, BookEntry, EntryKept, SpentKept
  <2>7. Book[code] = Entry(coupons[code], Spent(code)) /\ Book'[code] = Entry(row, Spent(code))
    BY <2>3, <2>5, BookEntry, BookEntryNext, SpentKept
  <2>8. Book'[code] = [Book[code] EXCEPT !.uses = Book[code].uses + 1]
    BY <2>4, <2>7 DEF Entry
  <2>9. Book' = [Book EXCEPT ![code] = [Book[code] EXCEPT !.uses = Book[code].uses + 1]]
    BY <2>5, <2>6, <2>8, BookEntry, BookEntryNext
  <2>10. Ledger!Count(code)
    BY <2>5, <2>9 DEF Ledger!Count, Book
  <2> QED
    BY <1>1, <2>10 DEF Ledger!Next
<1>2. CASE ~(code \in StoredCodes /\ coupons[code] # NoRow)
  BY <1>2 DEF Incremented, Ledger!vars
<1> QED
  BY <1>1, <1>2
\* A code without a row has no orders: the orders under a code were counted.
LEMMA NoneSpent ==
    ASSUME Covered, NoCaseVariants, NEW c \in StoredCodes, coupons[c] = NoRow
    PROVE  Spent(c) = 0
<1>1. Under(c, orders) \subseteq Backing(c)
  BY DEF Under, Backing
<1>2. Under(c, orders) = {}
  BY <1>1 DEF Covered
<1> QED
  BY <1>2, FS_EmptySet DEF Spent

\* An upsert lists a code or leaves the books alone.
LEMMA Upserting ==
    ASSUME TypeOK, Covered, NoCaseVariants, NEW code \in StoredCodes, NEW t \in Templates,
           coupons' = Upserted(code, t), UNCHANGED <<orders, reply>>
    PROVE  [Ledger!Next]_(Ledger!vars)
<1>0. \A c \in StoredCodes : Spent(c)' = Spent(c)
  BY SpentKept
<1>1. CASE coupons[code] # NoRow
  <2> DEFINE row == [coupons[code] EXCEPT !.type = t.type, !.value = t.value,
                                          !.minItems = t.minItems, !.active = TRUE]
  <2>1. coupons[code] \in Row
    BY <1>1 DEF TypeOK
  <2>2. row \in Row
    BY <2>1, RewrittenRowType
  <2>3. /\ coupons'[code] = row /\ row # NoRow
        /\ \A c \in StoredCodes : c # code => coupons'[c] = coupons[c]
    BY <1>1, <2>2, CheckoutAssumption DEF Upserted, TypeOK
  <2>4. \A n : Entry(row, n) = Entry(coupons[code], n)
    BY <2>1 DEF Row, Entry
  <2> HIDE DEF row
  <2>5. DOMAIN Book' = DOMAIN Book /\ code \in DOMAIN Book
    BY <1>1, <2>3, BookEntry, BookEntryNext
  <2>6. \A c \in DOMAIN Book : c # code => Book'[c] = Book[c]
    BY <1>0, <2>3, <2>5, BookEntry, EntryKept
  <2>7. Book'[code] = Book[code]
    BY <1>0, <2>3, <2>4, <2>5, BookEntry, BookEntryNext
  <2>8. Book' = Book
    BY <2>5, <2>6, <2>7, BookEntry, BookEntryNext
  <2> QED
    BY <2>8 DEF Ledger!vars, Book
<1>2. CASE coupons[code] = NoRow
  <2>1. coupons' = [coupons EXCEPT ![code] = FreshRow(t)]
    BY <1>2 DEF Upserted, FreshRow
  <2>2. FreshRow(t) # NoRow
    <3>1. FreshRow(t) \in Row
      BY CheckoutAssumption DEF FreshRow, Row, Template
    <3> QED
      BY <3>1, CheckoutAssumption
  <2>3. coupons'[code] = FreshRow(t) /\ \A c \in StoredCodes : c # code => coupons'[c] = coupons[c]
    BY <2>1 DEF TypeOK
  <2>4. DOMAIN Book' = DOMAIN Book \cup {code} /\ code \notin DOMAIN Book
    BY <1>2, <2>2, <2>3, BookEntry, BookEntryNext
  <2>5. \A c \in DOMAIN Book : Book'[c] = Book[c]
    BY <1>0, <2>3, <2>4, BookEntry, EntryKept
  <2>6. Book'[code] = FreshEntry
    <3>1. Book'[code] = Entry(FreshRow(t), 0)
      BY <1>0, <1>2, <2>3, <2>4, BookEntryNext, NoneSpent
    <3> QED
      BY <3>1 DEF Entry, FreshRow, FreshEntry
  <2>7. Book' = [c \in DOMAIN Book \cup {code} |-> IF c = code THEN FreshEntry ELSE Book[c]]
    BY <2>4, <2>5, <2>6, BookEntryNext
  <2>8. Ledger!List(code)
    BY <2>4, <2>7 DEF Ledger!List, FreshEntry, Book
  <2> QED
    BY <2>8 DEF Ledger!Next
<1> QED
  BY <1>1, <1>2

-----------------------------------------------------------------------------
(* Orders and answers.                                                     *)

LEMMA Silent ==
    ASSUME UNCHANGED <<orders, coupons, reply>>
    PROVE  [Ledger!Next]_(Ledger!vars)
  BY DEF Ledger!vars

LEMMA AnswerHeard ==
    ASSUME TypeOK, NEW a \in Attempts, NEW status, reply' = [reply EXCEPT ![a] = status]
    PROVE  Answers' = [Answers EXCEPT ![a] = Says(status)]
  BY DEF Answers, TypeOK

\* An answer other than 200.
LEMMA Telling ==
    ASSUME TypeOK, NEW a \in Attempts, reply[a] = 0, a \notin DOMAIN orders,
           NEW status \in Statuses \ {200}, reply' = [reply EXCEPT ![a] = status],
           UNCHANGED <<orders, coupons>>
    PROVE  [Ledger!Next]_(Ledger!vars)
<1>1. CASE status = 0
  <2>1. reply' = reply
    BY <1>1 DEF TypeOK
  <2> QED
    BY <2>1, Silent
<1>2. CASE status # 0
  <2>1. Says(status) \in {"refused", "unsure"} /\ Says(0) = "nothing"
    BY <1>2 DEF Says, Statuses
  <2>2. Answers' = [Answers EXCEPT ![a] = Says(status)]
    BY AnswerHeard
  <2>3. Answers[a] = "nothing"
    BY <2>1 DEF Answers
  <2>4. Ledger!Tell(a, Says(status))
    BY <2>2, <2>3 DEF Ledger!Tell, Answers
  <2> QED
    BY <2>1, <2>4 DEF Ledger!Next
<1> QED
  BY <1>1, <1>2
\* The orders under a code leave room for one that is on its way.
LEMMA RoomForOne ==
    ASSUME TypeOK, Covered, NoCaseVariants, NEW c \in StoredCodes,
           NEW a \in Backing(c), a \notin DOMAIN orders
    PROVE  /\ coupons[c] # NoRow
           /\ IsFiniteSet(Under(c, orders))
           /\ Spent(c) < coupons[c].uses
<1>1. /\ coupons[c] # NoRow
      /\ IsFiniteSet(Backing(c))
      /\ Cardinality(Backing(c)) <= coupons[c].uses
  BY DEF Covered
<1>2. coupons[c].uses \in Nat
  BY <1>1 DEF TypeOK, Row
<1>3. Under(c, orders) \subseteq Backing(c) \ {a}
  BY DEF Backing, Under
<1>4. /\ IsFiniteSet(Backing(c) \ {a})
      /\ Cardinality(Backing(c) \ {a}) = Cardinality(Backing(c)) - 1
      /\ Cardinality(Backing(c)) \in Nat /\ Cardinality(Backing(c) \ {a}) \in Nat
  BY <1>1, FS_RemoveElement, FS_CardinalityType
<1>5. /\ IsFiniteSet(Under(c, orders)) /\ Spent(c) \in Nat
      /\ Spent(c) <= Cardinality(Backing(c) \ {a})
  BY <1>3, <1>4, Shrunk DEF Spent
<1> QED
  BY <1>1, <1>2, <1>4, <1>5

\* An order takes one use of its code and none of another.
LEMMA SpentByOrder ==
    ASSUME NEW a, NEW row, a \notin DOMAIN orders, orders' = Inserted(a, row)
    PROVE  /\ \A c : c # row.coupon => Spent(c)' = Spent(c)
           /\ IsFiniteSet(Under(row.coupon, orders)) => Spent(row.coupon)' = Spent(row.coupon) + 1
<1>1. \A c : c # row.coupon => Under(c, orders)' = Under(c, orders)
  BY DEF Under, Inserted
<1>2. Under(row.coupon, orders)' = Under(row.coupon, orders) \cup {a}
  BY DEF Under, Inserted
<1>3. a \notin Under(row.coupon, orders)
  BY DEF Under
<1> QED
  BY <1>1, <1>2, <1>3, FS_AddElement DEF Spent

\* The books when an order is entered.
LEMMA Spending ==
    ASSUME TypeOK, Covered, NoCaseVariants, NEW a, NEW row, row.coupon \in StoredCodes,
           a \in Backing(row.coupon), a \notin DOMAIN orders, orders' = Inserted(a, row),
           UNCHANGED coupons
    PROVE  /\ row.coupon \in DOMAIN Book
           /\ Book[row.coupon].spent < Book[row.coupon].uses
           /\ Book' = [Book EXCEPT ![row.coupon] =
                          [Book[row.coupon] EXCEPT !.spent = Book[row.coupon].spent + 1]]
<1> DEFINE code == row.coupon
<1>1. /\ coupons[code] # NoRow /\ Spent(code) < coupons[code].uses
      /\ Spent(code)' = Spent(code) + 1
      /\ \A c : c # code => Spent(c)' = Spent(c)
  BY RoomForOne, SpentByOrder
<1>2. code \in StoredCodes
  OBVIOUS
<1> HIDE DEF code
<1>3. DOMAIN Book' = DOMAIN Book /\ code \in DOMAIN Book
  BY <1>1, <1>2, BookEntry, BookEntryNext
<1>4. \A c \in DOMAIN Book : c # code => Book'[c] = Book[c]
  BY <1>1, BookEntry, EntryKept
<1>5. Book[code] = Entry(coupons[code], Spent(code)) /\ Book'[code] = Entry(coupons[code], Spent(code) + 1)
  BY <1>1, <1>3, BookEntry, BookEntryNext
<1>6. Book'[code] = [Book[code] EXCEPT !.spent = Book[code].spent + 1]
  BY <1>5 DEF Entry
<1>7. Book' = [Book EXCEPT ![code] = [Book[code] EXCEPT !.spent = Book[code].spent + 1]]
  BY <1>3, <1>4, <1>6, BookEntry, BookEntryNext
<1>8. Book[code].spent < Book[code].uses
  BY <1>1, <1>5 DEF Entry
<1> QED
  BY <1>3, <1>7, <1>8 DEF code

\* An order is stored, by its handler or by the statement it left behind.
LEMMA Entering ==
    ASSUME TypeOK, Covered, NoCaseVariants, NEW a \in Attempts, NEW row,
           a \notin DOMAIN orders, orders' = Inserted(a, row), UNCHANGED coupons,
           row.coupon \in StoredCodes => a \in Backing(row.coupon),
           Answers[a] # "refused",
           \/ Answers' = Answers
           \/ Answers[a] = "nothing" /\ Answers' = [Answers EXCEPT ![a] = "accepted"]
    PROVE  Ledger!Next
<1>1. /\ DOMAIN orders' = DOMAIN orders \cup {a}
      /\ orders'[a] = row
      /\ orders' = [b \in DOMAIN orders' |-> IF b = a THEN orders'[a] ELSE orders[b]]
  BY DEF Inserted
<1>2. CASE row.coupon \in StoredCodes
  <2>1. Ledger!Spend(row.coupon)
    BY <1>2, Spending DEF Ledger!Spend, Book
  <2> QED
    BY <1>1, <1>2, <2>1 DEF Ledger!Next, Ledger!Enter, Answers
<1>3. CASE row.coupon \notin StoredCodes
  <2>1. Book' = Book
    <3>1. \A c \in StoredCodes : Spent(c)' = Spent(c)
      BY <1>3, SpentByOrder
    <3>2. DOMAIN Book' = DOMAIN Book
      BY BookEntry, BookEntryNext
    <3>3. \A c \in DOMAIN Book : Book'[c] = Book[c]
      BY <3>1, BookEntry, EntryKept
    <3> QED
      BY <3>2, <3>3, BookEntry, BookEntryNext
  <2> QED
    BY <1>1, <1>3, <2>1 DEF Ledger!Next, Ledger!Enter, Answers, Book
<1> QED
  BY <1>2, <1>3
-----------------------------------------------------------------------------
(* Steps.                                                                  *)

Books == Outcomes /\ Covered

LEMMA HandlerBooks ==
    ASSUME Books, NoCaseVariants, NEW a \in Attempts, Handle(a)
    PROVE  [Ledger!Next]_(Ledger!vars)
<1>1. /\ reply[a] = 0 /\ a \notin DOMAIN orders
      /\ TypeOK /\ Covered
  BY HandleCases DEF Books, Outcomes, Told, Serving
<1>2. \/ coupons' = coupons
      \/ coupons' = Incremented(req[a].coupon) /\ UNCHANGED <<orders, reply>>
  BY DEF Handle, Authenticate, FetchProducts, FindByCode, CheckRule, IncrementUses,
         CreateOrder, tables
<1>3. CASE coupons' = Incremented(req[a].coupon) /\ UNCHANGED <<orders, reply>>
  BY <1>1, <1>3, Counting
<1>4. CASE coupons' = coupons /\ GoesOn(a)
  BY <1>4, Silent DEF GoesOn
<1>5. CASE coupons' = coupons /\ GivesUp(a)
  <2>1. PICK status \in Statuses \ {200} : Answer(a, status)
    BY <1>5 DEF GivesUp
  <2>2. orders' = orders /\ reply' = [reply EXCEPT ![a] = status]
    BY <1>5, <2>1 DEF GivesUp, Answer
  <2> QED
    BY <1>1, <1>5, <2>2, Telling
<1>6. CASE Stores(a)
  <2> DEFINE row == OrderRow(a)
  <2>1. /\ orders' = Inserted(a, row) /\ coupons' = coupons
        /\ reply' = [reply EXCEPT ![a] = 200]
    BY <1>6 DEF Stores, Answer
  <2>2. a \in Backing(row.coupon)
    BY <1>6 DEF Stores, Backing, OrderRow
  <2> HIDE DEF row
  <2>3. Answers[a] = "nothing" /\ Says(200) = "accepted"
    BY <1>1 DEF Answers, Says
  <2>4. Answers' = [Answers EXCEPT ![a] = Says(200)]
    BY <1>1, <2>1, AnswerHeard
  <2> QED
    BY <1>1, <2>1, <2>2, <2>3, <2>4, Entering
<1> QED
  BY <1>2, <1>3, <1>4, <1>5, <1>6, HandleCases

LEMMA StrayBooks ==
    ASSUME Books, NoCaseVariants, NEW s \in stray, ApplyStray(s)
    PROVE  [Ledger!Next]_(Ledger!vars)
<1>1. TypeOK /\ Covered /\ reply' = reply
  BY DEF Books, Outcomes, ApplyStray
<1>2. CASE s.op = "increment"
  BY <1>1, <1>2, Counting DEF ApplyStray
<1>3. CASE s.op = "create"
  <2>1. orders' = Inserted(s.by, s.row) /\ coupons' = coupons
    BY <1>3 DEF ApplyStray
  <2>2. s.by \in Attempts /\ s.by \notin DOMAIN orders /\ reply[s.by] \in {0, 500}
    BY <1>3 DEF Books, Outcomes, Told, TypeOK
  <2>3. s.by \in Backing(s.row.coupon)
    BY <1>3 DEF Backing
  <2>4. Answers[s.by] # "refused" /\ Answers' = Answers
    BY <1>1, <2>2 DEF Answers, Says
  <2> QED
    BY <1>1, <2>1, <2>2, <2>3, <2>4, Entering
<1> QED
  BY <1>2, <1>3 DEF ApplyStray

LEMMA StepBooks ==
    ASSUME Books, NoCaseVariants, [Next]_vars
    PROVE  [Ledger!Next]_(Ledger!vars)
<1>1. CASE UNCHANGED <<orders, coupons, reply>>
  BY <1>1, Silent
<1>2. ASSUME NEW code \in StoredCodes, NEW t \in Templates, UpsertCoupon(code, t)
      PROVE  [Ledger!Next]_(Ledger!vars)
  BY <1>2, Upserting DEF UpsertCoupon, Books, Outcomes
<1> QED
  BY <1>1, <1>2, HandlerBooks, StrayBooks
  DEF Next, vars, tables, Receive, Crash, DropStray, UpsertProduct, Tick

LEMMA InitBooks == Init => Ledger!Init
<1> SUFFICES ASSUME Init PROVE Ledger!Init
  OBVIOUS
<1>1. Answers = [a \in Attempts |-> "nothing"]
  BY DEF Init, Answers, Says
<1>2. Book = Listed(InitialCoupons, <<>>)
  BY DEF Init, Book
<1> QED
  BY <1>1, <1>2 DEF Init, Ledger!Init, Answers, Book

\* Placing orders keeps the books of OrderLedger where codes differ by more than
\* case: whatever fails, is left behind, crashes or is re-seeded, an order is
\* stored once, against a use that was counted for it, and no client is refused
\* an order that is stored or will be (service.go:87-157, validator.go:32-60).
THEOREM LedgerKept == ASSUME NoCaseVariants PROVE Spec => KeepsLedger
<1>1. Books /\ [Next]_vars => Books'
  BY StepOutcomes, StepCovered DEF Books, Outcomes
<1>2. Init => Books
  <2> SUFFICES ASSUME Init PROVE Books
    OBVIOUS
  <2>1. Outcomes
    BY InitOutcomes
  <2>2. Covered
    BY InitCovered
  <2> QED
    BY <2>1, <2>2 DEF Books
<1>3. Books /\ [Next]_vars => [Ledger!Next]_(Ledger!vars)
  BY StepBooks
<1> QED
  BY <1>1, <1>2, <1>3, InitBooks, PTL DEF Spec, KeepsLedger, Ledger!Spec
=============================================================================
