------------------------------ MODULE Checkout ------------------------------
(***************************************************************************)
(* Placing an order: POST /api/order from the security handler to the      *)
(* reply, over the tables of the database it shares with every other       *)
(* request and with the seed and ingest tools.                             *)
(*                                                                         *)
(* net/http serves each request in a goroutine of its own, so a request    *)
(* ("attempt") is a process.  The code opens no transaction: each          *)
(* repository call is one statement that commits by itself, and anything   *)
(* may happen between two of them.  Each call is one action here.          *)
(*                                                                         *)
(* A call can also fail.  When it was a write, the statement may have      *)
(* reached PostgreSQL before the error (a cancelled context, a broken      *)
(* connection, the death of the process): it is then left behind in        *)
(* "stray", to take effect later or never.                                 *)
(***************************************************************************)
EXTENDS Pricing, FiniteSets

CONSTANTS
    Attempts,       \* the requests clients send; a retry is another attempt
    Requests,       \* what a request may say
    Keys,           \* API keys a request may carry
    ActiveKeys,     \* the keys whose hash is in an active row of api_keys
    Products,       \* product ids, known to the catalogue or not
    Prices,         \* prices a product may be given, in cents
    Spellings,      \* coupon codes as clients may write them
    Upper,          \* UPPER(code), one function on spellings
    StoredCodes,    \* the spellings that are, or may become, keys of coupons
    Templates,      \* the columns seed-db and coupon-ingest write
    InitialCoupons, \* the coupons table at the start
    NoPrice,        \* no row for this product
    NoRow,          \* no row for this code
    NoRule,         \* the handler holds no coupon rule
    NoCoupon,       \* the empty coupon code
    NoRequest,      \* the attempt was not sent yet
    Null,           \* SQL NULL in valid_from and valid_until
    MaxAmount,      \* the largest amount a NUMERIC(10,2) column holds, in cents
    MaxInFlight,    \* bound: the requests served at one time
    MaxStray,       \* bound: the statements left behind at one time
    MaxClock        \* bound: the clock

-----------------------------------------------------------------------------
Template == [type : DiscountTypes, value : Int, minItems : Int]

\* A row of the coupons table; its key, code, is the argument of "coupons".
Row == [type : DiscountTypes, value : Int, minItems : Int, maxDiscount : Int,
        from : Int \cup {Null}, until : Int \cup {Null},
        maxUses : Int, uses : Nat, active : BOOLEAN]

Request == [key : Keys,
            items : Seq([product : Products, quantity : Int]),
            coupon : Spellings \cup {NoCoupon}]

ASSUME CheckoutAssumption ==
    /\ Requests \subseteq Request
    /\ ActiveKeys \subseteq Keys
    /\ Prices \subseteq Int
    /\ Upper \in [Spellings -> Spellings]
    /\ StoredCodes \subseteq Spellings
    /\ Templates \subseteq Template
    /\ InitialCoupons \in [StoredCodes -> Row \cup {NoRow}]
    /\ NoPrice \notin Int
    /\ NoRow \notin Row
    /\ NoRule \notin Row
    /\ NoCoupon \notin Spellings
    /\ NoRequest \notin Request
    /\ Null \notin Int
    /\ MaxAmount \in Nat
    /\ MaxInFlight \in Nat \ {0}
    /\ MaxStray \in Nat
    /\ MaxClock \in Nat

VARIABLES
    products,   \* the products table: id -> price
    coupons,    \* the coupons table: code -> row
    orders,     \* the orders table: the attempts that stored one -> row
    stray,      \* statements left behind by a failed call or a crash
    clock,      \* time.Now
    pc,         \* where the handler of an attempt is
    req,        \* the request of an attempt
    lines,      \* the priced lines the handler holds
    rule,       \* the coupon row the handler read
    reply       \* the status the client was sent

tables == <<products, coupons, orders>>
vars == <<products, coupons, orders, stray, clock, pc, req, lines, rule, reply>>

Serving == {"authenticate", "fetch", "find", "check", "increment", "create"}

InFlight == {a \in Attempts : pc[a] \in Serving}

-----------------------------------------------------------------------------
(* The statements. *)

\* SELECT ... FROM coupons WHERE UPPER(code) = UPPER($1) AND active = TRUE
MatchingCodes(code) ==
    {c \in StoredCodes : /\ coupons[c] # NoRow
                         /\ coupons[c].active
                         /\ Upper[c] = Upper[code]}

\* UPDATE coupons SET uses = uses + 1 WHERE code = $1; no row is no error.
Incremented(code) ==
    IF code \in StoredCodes /\ coupons[code] # NoRow
    THEN [coupons EXCEPT ![code].uses = @ + 1]
    ELSE coupons

\* Mutant: the upsert writes every column of an existing row.
UpsertedAfresh(code, t) ==
    [coupons EXCEPT ![code] =
        [type |-> t.type, value |-> t.value, minItems |-> t.minItems,
         maxDiscount |-> 0, from |-> Null, until |-> Null,
         maxUses |-> 0, uses |-> 0, active |-> TRUE]]

\* INSERT INTO coupons ... ON CONFLICT (code) DO UPDATE SET: an existing row
\* keeps the columns the statement does not name, a new one has their defaults.
Upserted(code, t) ==
    [coupons EXCEPT ![code] =
        IF @ = NoRow
        THEN [type |-> t.type, value |-> t.value, minItems |-> t.minItems,
              maxDiscount |-> 0, from |-> Null, until |-> Null,
              maxUses |-> 0, uses |-> 0, active |-> TRUE]
        ELSE [@ EXCEPT !.type = t.type, !.value = t.value,
                       !.minItems = t.minItems, !.active = TRUE]]

\* INSERT INTO orders
Inserted(id, row) ==
    [x \in DOMAIN orders \cup {id} |-> IF x = id THEN row ELSE orders[x]]

-----------------------------------------------------------------------------
Init ==
    /\ products \in [Products -> Prices \cup {NoPrice}]
    /\ coupons = InitialCoupons
    /\ orders = <<>>
    /\ stray = {}
    /\ clock = 0
    /\ pc = [a \in Attempts |-> "unsent"]
    /\ req = [a \in Attempts |-> NoRequest]
    /\ lines = [a \in Attempts |-> <<>>]
    /\ rule = [a \in Attempts |-> NoRule]
    /\ reply = [a \in Attempts |-> 0]

Goto(a, label) == pc' = [pc EXCEPT ![a] = label]

\* The handler returns: the client has its answer, the locals are gone.
Answer(a, status) ==
    /\ Goto(a, "answered")
    /\ reply' = [reply EXCEPT ![a] = status]
    /\ lines' = [lines EXCEPT ![a] = <<>>]
    /\ rule' = [rule EXCEPT ![a] = NoRule]

-----------------------------------------------------------------------------
(* One request. *)

Receive(a, r) ==
    /\ pc[a] = "unsent"
    /\ Cardinality(InFlight) < MaxInFlight
    /\ Goto(a, "authenticate")
    /\ req' = [req EXCEPT ![a] = r]
    /\ UNCHANGED <<tables, stray, clock, lines, rule, reply>>

\* What the decoder accepts: at least one item, every quantity at least 1.
WellFormed(r) == r.items # <<>> /\ \A item \in ToSet(r.items) : item.quantity >= 1

\* The key is looked up before the body is decoded; an unknown key and a
\* failing lookup are both answered 401.
Authenticate(a) ==
    /\ pc[a] = "authenticate"
    /\ \/ Answer(a, 401)
       \/ /\ req[a].key \in ActiveKeys
          /\ ~WellFormed(req[a])
          /\ Answer(a, 400)
       \/ /\ req[a].key \in ActiveKeys
          /\ WellFormed(req[a])
          /\ Goto(a, "fetch")
          /\ UNCHANGED <<lines, rule, reply>>
    /\ UNCHANGED <<tables, stray, clock, req>>

\* Mutant: a product that the query did not return is not noticed.
RefusalMissingIgnored(r) ==
    IF r.items = <<>> THEN 400 ELSE IF WellFormed(r) THEN 0 ELSE 422

\* The status with which the order service refuses the items, 0 if it does not:
\* it repeats the tests of the decoder and wants every product in the result.
Refusal(r) ==
    IF r.items = <<>> THEN 400
    ELSE IF WellFormed(r) /\ \A item \in ToSet(r.items) : products[item.product] # NoPrice
    THEN 0 ELSE 422

\* One query reads the prices of all the products of the request.
FetchProducts(a) ==
    /\ pc[a] = "fetch"
    /\ \/ Refusal(req[a]) # 0 /\ Answer(a, Refusal(req[a]))
       \/ WellFormed(req[a]) /\ Answer(a, 500)
       \/ /\ Refusal(req[a]) = 0
          /\ lines' = [lines EXCEPT ![a] =
                [i \in DOMAIN req[a].items |->
                    [price |-> products[req[a].items[i].product],
                     quantity |-> req[a].items[i].quantity]]]
          /\ Goto(a, IF req[a].coupon = NoCoupon THEN "create" ELSE "find")
          /\ UNCHANGED <<rule, reply>>
    /\ UNCHANGED <<tables, stray, clock, req>>

\* Mutant: the lookup takes the use, before the rule is tested.
FindByCodeCounting(a) ==
    /\ pc[a] = "find"
    /\ \E c \in MatchingCodes(req[a].coupon) : rule' = [rule EXCEPT ![a] = coupons[c]]
    /\ coupons' = Incremented(req[a].coupon)
    /\ Goto(a, "check")
    /\ UNCHANGED <<products, orders, stray, clock, req, lines, reply>>

\* Mutant: only a unique row ends the lookup; it is repeated otherwise.
FindByCodeInsistent(a) ==
    /\ pc[a] = "find"
    /\ Cardinality(MatchingCodes(req[a].coupon)) = 1
    /\ \E c \in MatchingCodes(req[a].coupon) : rule' = [rule EXCEPT ![a] = coupons[c]]
    /\ Goto(a, "check")
    /\ UNCHANGED <<tables, stray, clock, req, lines, reply>>

\* No active row is an invalid coupon; two rows that differ in case only are an
\* error of CollectExactlyOneRow, answered 500 like a failing query.
FindByCode(a) ==
    /\ pc[a] = "find"
    /\ \/ Answer(a, 500)
       \/ MatchingCodes(req[a].coupon) = {} /\ Answer(a, 422)
       \/ /\ Cardinality(MatchingCodes(req[a].coupon)) = 1
          /\ \E c \in MatchingCodes(req[a].coupon) :
                rule' = [rule EXCEPT ![a] = coupons[c]]
          /\ Goto(a, "check")
          /\ UNCHANGED <<lines, reply>>
    /\ UNCHANGED <<tables, stray, clock, req>>

\* Mutant: valid_until is not tested.
InWindowOpenEnded(r, now) == r.from # Null => now >= r.from

InWindow(r, now) ==
    /\ r.from # Null => now >= r.from
    /\ r.until # Null => now <= r.until

\* Mutant: the limit is off by one.
UsesLeftOffByOne(r) == r.maxUses > 0 => r.uses <= r.maxUses

UsesLeft(r) == r.maxUses > 0 => r.uses < r.maxUses

\* The clock is read now; everything else is tested on the row as it was read.
CheckRule(a) ==
    /\ pc[a] = "check"
    /\ \/ /\ ~InWindow(rule[a], clock) \/ ~UsesLeft(rule[a]) \/ ~MinItemsMet(rule[a], lines[a])
          /\ Answer(a, 422)
       \/ /\ InWindow(rule[a], clock)
          /\ UsesLeft(rule[a])
          /\ MinItemsMet(rule[a], lines[a])
          /\ Goto(a, "increment")
          /\ UNCHANGED <<lines, rule, reply>>
    /\ UNCHANGED <<tables, stray, clock, req>>

DiscountAmount(a) == IF rule[a] = NoRule THEN 0 ELSE Apply(rule[a], lines[a])

OrderRow(a) ==
    [coupon |-> req[a].coupon,
     total |-> Total(lines[a], DiscountAmount(a)),
     discounts |-> DiscountAmount(a)]

\* A row PostgreSQL accepts: both amounts fit their NUMERIC(10,2) column.
Fits(row) == row.total <= MaxAmount /\ row.discounts <= MaxAmount

\* The write an attempt has sent and not heard of.
Statement(a) == [by |-> a, op |-> pc[a], row |-> OrderRow(a)]

Unfinished(A) ==
    {Statement(a) : a \in {b \in A : \/ pc[b] = "increment"
                                     \/ pc[b] = "create" /\ Fits(OrderRow(b))}}

\* Some of the unfinished writes of A stay behind in the database.
LeaveBehind(A) ==
    \E S \in SUBSET Unfinished(A) :
        /\ Cardinality(stray \cup S) <= MaxStray
        /\ stray' = stray \cup S

\* Mutant: an error of the increment is ignored.
IncrementUsesUnchecked(a) ==
    /\ pc[a] = "increment"
    /\ \/ coupons' = Incremented(req[a].coupon) /\ UNCHANGED stray
       \/ LeaveBehind({a}) /\ UNCHANGED coupons
    /\ Goto(a, "create")
    /\ UNCHANGED <<products, orders, clock, req, lines, rule, reply>>

IncrementUses(a) ==
    /\ pc[a] = "increment"
    /\ \/ /\ coupons' = Incremented(req[a].coupon)
          /\ Goto(a, "create")
          /\ UNCHANGED <<stray, lines, rule, reply>>
       \/ /\ LeaveBehind({a})
          /\ Answer(a, 500)
          /\ UNCHANGED coupons
    /\ UNCHANGED <<products, orders, clock, req>>

\* Mutant: an error of the insert is answered like a refused order.
CreateOrderRefusing(a) ==
    /\ pc[a] = "create"
    /\ LeaveBehind({a})
    /\ Answer(a, 422)
    /\ UNCHANGED <<tables, clock, req>>

CreateOrder(a) ==
    /\ pc[a] = "create"
    /\ \/ /\ Fits(OrderRow(a))
          /\ orders' = Inserted(a, OrderRow(a))
          /\ Answer(a, 200)
          /\ UNCHANGED stray
       \/ /\ LeaveBehind({a})
          /\ Answer(a, 500)
          /\ UNCHANGED orders
    /\ UNCHANGED <<products, coupons, clock, req>>

-----------------------------------------------------------------------------
(* The environment of a request. *)

\* The process dies and is started again: nobody is answered.
Crash ==
    /\ InFlight # {}
    /\ LeaveBehind(InFlight)
    /\ pc' = [a \in Attempts |-> IF a \in InFlight THEN "lost" ELSE pc[a]]
    /\ lines' = [a \in Attempts |-> <<>>]
    /\ rule' = [a \in Attempts |-> NoRule]
    /\ UNCHANGED <<tables, clock, req, reply>>

\* A statement that was left behind takes effect...
ApplyStray(s) ==
    /\ s \in stray
    /\ stray' = stray \ {s}
    /\ \/ /\ s.op = "increment"
          /\ coupons' = Incremented(s.row.coupon)
          /\ UNCHANGED orders
       \/ /\ s.op = "create"
          /\ orders' = Inserted(s.by, s.row)
          /\ UNCHANGED coupons
    /\ UNCHANGED <<products, clock, pc, req, lines, rule, reply>>

\* ... or PostgreSQL gives it up.
DropStray(s) ==
    /\ s \in stray
    /\ stray' = stray \ {s}
    /\ UNCHANGED <<tables, clock, pc, req, lines, rule, reply>>

\* seed-db writes one product.
UpsertProduct(p, price) ==
    /\ products' = [products EXCEPT ![p] = price]
    /\ UNCHANGED <<coupons, orders, stray, clock, pc, req, lines, rule, reply>>

\* seed-db or coupon-ingest writes one coupon.
UpsertCoupon(code, t) ==
    /\ coupons' = Upserted(code, t)
    /\ UNCHANGED <<products, orders, stray, clock, pc, req, lines, rule, reply>>

Tick ==
    /\ clock < MaxClock
    /\ clock' = clock + 1
    /\ UNCHANGED <<tables, stray, pc, req, lines, rule, reply>>

-----------------------------------------------------------------------------
Handle(a) ==
    \/ Authenticate(a)
    \/ FetchProducts(a)
    \/ FindByCode(a)
    \/ CheckRule(a)
    \/ IncrementUses(a)
    \/ CreateOrder(a)

Next ==
    \/ \E a \in Attempts, r \in Requests : Receive(a, r)
    \/ \E a \in Attempts : Handle(a)
    \/ Crash
    \/ \E s \in stray : ApplyStray(s) \/ DropStray(s)
    \/ \E p \in Products, price \in Prices : UpsertProduct(p, price)
    \/ \E code \in StoredCodes, t \in Templates : UpsertCoupon(code, t)
    \/ Tick

Spec == Init /\ [][Next]_vars

\* Goroutines are scheduled and every repository call returns, with an error at
\* the latest when its connection breaks; nothing makes a client send a request.
FairSpec == Spec /\ \A a \in Attempts : WF_vars(Handle(a))

-----------------------------------------------------------------------------
(* Properties. *)

Statuses == {0, 200, 400, 401, 422, 500}

Labels == Serving \cup {"unsent", "answered", "lost"}

\* The values the tables and the locals of a handler range over.  The amounts
\* of an order are the subject of AmountsConsistent.
TypeOK ==
    /\ products \in [Products -> Prices \cup {NoPrice}]
    /\ coupons \in [StoredCodes -> Row \cup {NoRow}]
    /\ orders = [a \in DOMAIN orders |-> orders[a]] /\ DOMAIN orders \subseteq Attempts
    /\ \A s \in stray : s.by \in Attempts /\ s.op \in {"increment", "create"}
    /\ clock \in 0..MaxClock
    /\ pc \in [Attempts -> Labels]
    /\ req \in [Attempts -> Requests \cup {NoRequest}]
    /\ lines \in [Attempts -> Seq(Line)]
    /\ rule \in [Attempts -> Row \cup {NoRule}]
    /\ reply \in [Attempts -> Statuses]

\* No two codes the tables may hold differ only in case.
NoCaseVariants == \A c, d \in StoredCodes : Upper[c] = Upper[d] => c = d

\* The attempts that have passed the usage check of code and whose increment
\* may still be applied.
Claims(code) ==
    {a \in Attempts : /\ pc[a] \in {"check", "increment"}
                      /\ req[a].coupon = code
                      /\ UsesLeft(rule[a])}
        \cup
    {s.by : s \in {t \in stray : t.op = "increment" /\ t.row.coupon = code}}

\* A code whose row starts with a limit that is not overrun.
Limited(code) ==
    /\ InitialCoupons[code] # NoRow
    /\ InitialCoupons[code].maxUses > 0
    /\ InitialCoupons[code].uses <= InitialCoupons[code].maxUses

\* A usage limit is overrun only by requests that read the counter before it was
\* reached: by fewer than the requests served at one time and the updates left
\* behind (validator.go:32-60 reads, tests and increments in three steps).
RedemptionBound ==
    NoCaseVariants =>
        \A c \in StoredCodes :
            Limited(c) => coupons[c].uses < coupons[c].maxUses + MaxInFlight + MaxStray

\* Every order stored under a code as the table spells it was counted first: a
\* stored order never exceeds the counter, whatever fails, crashes or is
\* re-seeded (validator.go:58 comes before service.go:148).
RedemptionsCounted ==
    NoCaseVariants =>
        \A c \in StoredCodes :
            coupons[c] # NoRow =>
                Cardinality({a \in DOMAIN orders : orders[a].coupon = c}) <= coupons[c].uses

\* What an answer tells the client: 200 that the order is stored, 400, 401 and
\* 422 that it is not and will not be.  Only 500 and silence leave it open
\* (service.go:148-155, order.go:30-58, mapOrderError).
AnswerTellsOutcome ==
    \A a \in Attempts :
        /\ reply[a] = 200 => a \in DOMAIN orders
        /\ reply[a] \in {400, 401, 422} =>
                a \notin DOMAIN orders /\ \A s \in stray : s.by # a

InitialUses(code) == IF InitialCoupons[code] = NoRow THEN 0 ELSE InitialCoupons[code].uses

\* A use is taken only by a request that is about to store its order, has stored
\* it, was answered 500 or was cut off; a refused one (400, 401, 422) takes none
\* (validator.go:58 is after every test, service.go:124-130 after every other).
UsesExplained ==
    \A c \in StoredCodes :
        coupons[c] # NoRow =>
            coupons[c].uses <= InitialUses(c) +
                Cardinality({a \in Attempts : /\ req[a] # NoRequest
                                              /\ req[a].coupon = c
                                              /\ \/ pc[a] \in {"create", "lost"}
                                                 \/ reply[a] \in {200, 500}})

\* The amounts of a stored order fit their columns, are not negative, and a
\* discount appears only with a coupon (service.go:123-138).
AmountsConsistent ==
    \A a \in DOMAIN orders :
        /\ orders[a].total \in 0..MaxAmount
        /\ orders[a].discounts \in 0..MaxAmount
        /\ orders[a].coupon = NoCoupon => orders[a].discounts = 0

\* The books of OrderLedger: the codes listed, with the terms and the uses of
\* their rows and the orders under them, and what an answer says.
Under(code, placed) == {a \in DOMAIN placed : placed[a].coupon = code}

Entry(row, spent) ==
    [maxUses |-> row.maxUses, from |-> row.from, until |-> row.until,
     uses |-> row.uses, spent |-> spent]

Listed(table, placed) ==
    [c \in {d \in StoredCodes : table[d] # NoRow} |->
        Entry(table[c], Cardinality(Under(c, placed)))]

Says(status) ==
    CASE status = 0 -> "nothing"
      [] status = 200 -> "accepted"
      [] status = 500 -> "unsure"
      [] OTHER -> "refused"

Ledger == INSTANCE OrderLedger WITH
    Codes <- StoredCodes,
    Initial <- Listed(InitialCoupons, <<>>),
    Fresh <- [maxUses |-> 0, from |-> Null, until |-> Null, uses |-> 0, spent |-> 0],
    coupons <- Listed(coupons, orders),
    told <- [a \in Attempts |-> Says(reply[a])]

\* Where codes differ by more than case, the service keeps the books of
\* OrderLedger, whatever fails, is left behind, crashes or is re-seeded: no row is
\* lost, no counter goes back, limits and windows stand, an order is stored once,
\* against a use of its own, and refused for good (service.go:87-157,
\* validator.go:32-60, seed-db/main.go:143-148).
KeepsLedger == Ledger!Spec

\* A redemption is let through only while the table, as it stands at that moment
\* and not as it was read, has an active row of this code inside its window.
WindowHonoured ==
    [][\A a \in Attempts :
          pc[a] # "increment" /\ pc'[a] = "increment" =>
              \E c \in StoredCodes : /\ Upper[c] = Upper[req[a].coupon]
                                     /\ coupons[c] # NoRow /\ coupons[c].active
                                     /\ coupons[c].from \in Int => coupons[c].from <= clock
                                     /\ coupons[c].until \in Int => clock <= coupons[c].until]_vars

\* Every request is answered unless the process dies.
EveryRequestEnds ==
    \A a \in Attempts : pc[a] \in Serving ~> pc[a] \in {"answered", "lost"}

-----------------------------------------------------------------------------
(* What the documents say of the program; the code does otherwise. *)

\* A coupon is redeemed at most max_uses times (ARCHITECTURE.md:86).
LimitRespected ==
    \A c \in StoredCodes :
        coupons[c] # NoRow /\ coupons[c].maxUses > 0 =>
            Cardinality({a \in DOMAIN orders : orders[a].coupon = c}) <= coupons[c].maxUses

\* Between requests, "uses" is the current redemption count (README.md:118).
UsesAreRedemptions ==
    InFlight = {} /\ stray = {} =>
        \A c \in StoredCodes :
            coupons[c] # NoRow =>
                coupons[c].uses = InitialUses(c) +
                    Cardinality({a \in DOMAIN orders : orders[a].coupon = c})

\* A code is matched without regard to case and its redemption increments the
\* counter (ARCHITECTURE.md:84 and 90): orders under any spelling are counted.
EveryRedemptionCounts ==
    \A c \in StoredCodes :
        coupons[c] # NoRow =>
            Cardinality({a \in DOMAIN orders :
                            /\ orders[a].coupon \in Spellings
                            /\ Upper[orders[a].coupon] = Upper[c]}) <= coupons[c].uses
=============================================================================
