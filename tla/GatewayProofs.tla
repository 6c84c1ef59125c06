--------------------------- MODULE GatewayProofs ---------------------------
(***************************************************************************)
(* What TLAPS proves of Gateway, for every catalogue, every CORS           *)
(* configuration, any calls of the client and visits of browsers, with     *)
(* product ids of any length over any alphabet.                            *)
(*                                                                         *)
(* An exchange is a record that every layer changes a little.  For each    *)
(* layer one lemma says which fields it may change (the lemmas that end in *)
(* Moves); the invariants are then kept by what a layer leaves alone.  The *)
(* cache holds exchanges too, and each invariant speaks of them as well:   *)
(* an answer from the cache is an exchange that goes on where another one  *)
(* ended.                                                                  *)
(*                                                                         *)
(* The first part follows an exchange along the layers and says what they  *)
(* set: statuses, metrics, routes, headers, ids, the cached catalogue.     *)
(* The second is about the codecs: what a decoder reads of a document, and *)
(* that it reads what the encoder wrote.  The third puts them together:    *)
(* what the handler was sent and what the client was told.                 *)
(***************************************************************************)
EXTENDS Gateway, FoldLemmas, SequenceTheorems

\* An exchange is a record with these fields, and Becoming says which of them a
\* step may change.
Shaped(e) ==
    e = [call |-> e.call, req |-> e.req, at |-> e.at, hit |-> e.hit, hdr |-> e.hdr, id |-> e.id,
         status |-> e.status, ctype |-> e.ctype, docs |-> e.docs, label |-> e.label, op |-> e.op,
         rec |-> e.rec, arg |-> e.arg, err |-> e.err, fault |-> e.fault, asked |-> e.asked,
         said |-> e.said, got |-> e.got]

Fields == {"call", "req", "at", "hit", "hdr", "id", "status", "ctype", "docs", "label", "op", "rec",
           "arg", "err", "fault", "asked", "said", "got"}

Becoming(e, f, changed) == Shaped(f) /\ \A x \in Fields \ changed : f[x] = e[x]

\* Goto changes the stage alone.
LEMMA GotoOnly ==
    ASSUME NEW e, Shaped(e), NEW s
    PROVE  Becoming(e, Goto(e, s), {"at"}) /\ Goto(e, s).at = s
  BY DEF Shaped, Becoming, Goto, Fields

\* Send writes the head once, and adds to the body after that.
LEMMA SendOnly ==
    ASSUME NEW e, Shaped(e), NEW s, NEW c, NEW d
    PROVE  /\ Becoming(e, Send(e, s, c, d), {"status", "ctype", "docs"})
           /\ e.status = 0 => Send(e, s, c, d).status = s /\ Send(e, s, c, d).ctype = c /\ Send(e, s, c, d).docs = d
           /\ e.status # 0 => Send(e, s, c, d).status = e.status /\ Send(e, s, c, d).ctype = e.ctype
                              /\ Send(e, s, c, d).docs = e.docs \o d
  BY DEF Shaped, Becoming, Send, Fields

\* The request id changes nothing else.
LEMMA MarkOnly ==
    ASSUME NEW e, Shaped(e), NEW v
    PROVE  Becoming(e, [e EXCEPT !.id = v], {"id"}) /\ [e EXCEPT !.id = v].id = v
  BY DEF Shaped, Becoming, Fields

\* What the cache changes in an entry that it serves.
LEMMA HitOnly ==
    ASSUME NEW c, Shaped(c), NEW q, NEW l, NEW v
    PROVE  /\ Becoming(c, [c EXCEPT !.req = q, !.call = l, !.hit = v], {"req", "call", "hit"})
           /\ [c EXCEPT !.req = q, !.call = l, !.hit = v].req = q
           /\ [c EXCEPT !.req = q, !.call = l, !.hit = v].call = l
           /\ [c EXCEPT !.req = q, !.call = l, !.hit = v].hit = v
<1> SUFFICES ASSUME NEW f, f = [c EXCEPT !.req = q, !.call = l, !.hit = v]
             PROVE  Becoming(c, f, {"req", "call", "hit"}) /\ f.req = q /\ f.call = l /\ f.hit = v
  OBVIOUS
<1> QED
  BY DEF Shaped, Becoming, Fields

\* The recorder changes the metric alone.
LEMMA RecordOnly ==
    ASSUME NEW e, Shaped(e), NEW s
    PROVE  Becoming(e, Record(e, s), {"rec"}) /\ Record(e, s).rec = s
  BY DEF Shaped, Becoming, Record, Fields

\* The operations, and the stages before, inside and after one of them.
Ops == {"getProduct", "listProducts", "placeOrder"}
Outer == {"idle", "cache", "cors", "limit", "id", "label", "mux"}
Inner == {"params", "security", "decode", "handle"}
Over == {"deliver", "answered"}

\* The order of the middlewares.
LEMMA ChainFollows ==
    /\ Following(Chain, "cache") = "cors" /\ Following(Chain, "cors") = "limit"
    /\ Following(Chain, "limit") = "id" /\ Following(Chain, "id") = "label"
    /\ Following(Chain, "label") = "mux"
<1>1. DOMAIN Chain = 1..6
  BY DEF Chain
<1>2. /\ \A i \in DOMAIN Chain : (Chain[i] = "cache" <=> i = 1) /\ (Chain[i] = "cors" <=> i = 2)
      /\ \A i \in DOMAIN Chain : (Chain[i] = "limit" <=> i = 3) /\ (Chain[i] = "id" <=> i = 4)
      /\ \A i \in DOMAIN Chain : (Chain[i] = "label" <=> i = 5)
  BY <1>1 DEF Chain
<1>3. /\ (CHOOSE i \in DOMAIN Chain : Chain[i] = "cache") = 1
      /\ (CHOOSE i \in DOMAIN Chain : Chain[i] = "cors") = 2
      /\ (CHOOSE i \in DOMAIN Chain : Chain[i] = "limit") = 3
      /\ (CHOOSE i \in DOMAIN Chain : Chain[i] = "id") = 4
      /\ (CHOOSE i \in DOMAIN Chain : Chain[i] = "label") = 5
  BY <1>1, <1>2
<1> QED
  BY <1>3 DEF Following, Chain

\* The order of the steps of an operation.
LEMMA StepsFollow ==
    /\ Following(Steps("getProduct"), "params") = "handle"
    /\ Following(Steps("getProduct"), "handle") = "encode"
    /\ Following(Steps("listProducts"), "handle") = "encode"
    /\ Following(Steps("placeOrder"), "security") = "decode"
    /\ Following(Steps("placeOrder"), "decode") = "handle"
    /\ Following(Steps("placeOrder"), "handle") = "encode"
    /\ Steps("getProduct")[1] = "params" /\ Steps("listProducts")[1] = "handle"
    /\ Steps("placeOrder")[1] = "security"
<1> DEFINE g == <<"params", "handle", "encode">>
           l == <<"handle", "encode">>
           o == <<"security", "decode", "handle", "encode">>
<1>1. Steps("getProduct") = g /\ Steps("listProducts") = l /\ Steps("placeOrder") = o
  BY DEF Steps, handleGetProductRequest, handleListProductsRequest, handlePlaceOrderRequest
<1>2. /\ (CHOOSE i \in DOMAIN g : g[i] = "params") = 1
      /\ (CHOOSE i \in DOMAIN g : g[i] = "handle") = 2
      /\ (CHOOSE i \in DOMAIN l : l[i] = "handle") = 1
  OBVIOUS
<1>3. /\ (CHOOSE i \in DOMAIN o : o[i] = "security") = 1
      /\ (CHOOSE i \in DOMAIN o : o[i] = "decode") = 2
      /\ (CHOOSE i \in DOMAIN o : o[i] = "handle") = 3
  OBVIOUS
<1> QED
  BY <1>1, <1>2, <1>3 DEF Following
----------------------------------------------------------------------------
(* Statuses.                                                               *)

\* What the metric of an exchange that is over should hold.
Metric(e) == CASE e.op = "none" \/ e.fault = "panic" -> 0
               [] e.fault = "write" -> 500
               [] OTHER -> e.status

\* Nothing is sent or recorded.
Early(e) == e.rec = 0 /\ e.status = 0 /\ e.fault = "none"
\* No handler has been asked.
Silent(e) == e.asked = {} /\ e.said = {}

\* The types a handler answers with.
AnswerTypes(op) ==
    CASE op = "getProduct"   -> {"Product", "GetProductNotFound"}
      [] op = "listProducts" -> {"Products"}
      [] op = "placeOrder"   -> {"Order", "PlaceOrderUnprocessableEntity"}

\* The statuses that the server sends.
Sent == {200, 204, 301, 400, 401, 404, 405, 422, 429, 500, 503}

\* What an exchange has sent, recorded and suffered, stage by stage.
Told(e) ==
    /\ e.at \in Outer \cup Inner \cup Over \cup {"encode", "error", "panic"}
    /\ e.at \in Outer => e.op = "none" /\ Early(e) /\ Silent(e)
    /\ e.at \in Inner => e.op \in Ops /\ Early(e) /\ Silent(e)
    /\ e.at = "params" => e.op = "getProduct"
    /\ e.at \in {"security", "decode"} => e.op = "placeOrder"
    /\ e.at = "encode" => e.op \in Ops /\ Early(e) /\ \E a : e.said = {a} /\ a[1] \in AnswerTypes(e.op)
    /\ e.at = "panic" => e.op \in Ops /\ e.rec = 0 /\ e.status = 0 /\ e.fault = "panic"
    /\ e.at = "error" => /\ e.op \in Ops
                         /\ e.err \in {400, 401, 500}
                         /\ \/ Early(e)
                            \/ e.fault = "write" /\ e.err = 500 /\ e.status \in {200, 404, 422}
    /\ e.at \in Over => /\ e.op \in Ops \cup {"none"}
                        /\ e.status \in Sent
                        /\ e.fault \in {"none", "write", "panic"}
                        /\ e.rec = Metric(e)
    /\ e.hit => e.at \in Over

\* What the cache keeps.
Kept(c) == Shaped(c) /\ Told(c) /\ c.at = "deliver" /\ ~c.hit /\ c.status \in Cacheable /\ c.req.method = "GET"

\* The inductive invariant of statuses and metrics.
TellInv == Shaped(ex) /\ Told(ex) /\ \A c \in cache : Kept(c)

\* A new exchange has told nothing.
LEMMA FreshTold ==
    ASSUME NEW call, NEW req
    PROVE  /\ Shaped(Fresh(call, req)) /\ Told(Fresh(call, req))
           /\ Fresh(call, req).at = "cache"
  BY DEF Fresh, Shaped, Told, Outer, Inner, Over, Early, Silent

\* Passing a middleware tells nothing.
LEMMA PassTold ==
    ASSUME NEW e, Shaped(e), Told(e), e.at \in {"cache", "cors", "limit", "id", "label"}
    PROVE  Shaped(Pass(e)) /\ Told(Pass(e)) /\ Becoming(e, Pass(e), {"at"}) /\ Pass(e).at \in Outer
<1>1. Following(Chain, e.at) \in {"cors", "limit", "id", "label", "mux"}
  BY ChainFollows
<1>2. Becoming(e, Pass(e), {"at"}) /\ Pass(e).at \in {"cors", "limit", "id", "label", "mux"}
  BY <1>1, GotoOnly DEF Pass
<1> QED
  BY <1>2 DEF Becoming, Told, Outer, Inner, Over, Early, Silent, Fields

\* A middleware that answers tells what it answers.
LEMMA SentTold ==
    ASSUME NEW e, Shaped(e), Told(e), e.at \in Outer, NEW s \in Sent, NEW c, NEW d
    PROVE  /\ Becoming(e, Goto(Send(e, s, c, d), "deliver"), {"at", "status", "ctype", "docs"})
           /\ Goto(Send(e, s, c, d), "deliver").status = s
           /\ Told(Goto(Send(e, s, c, d), "deliver"))
<1> DEFINE f == Send(e, s, c, d)
           g == Goto(f, "deliver")
<1>1. Becoming(e, f, {"status", "ctype", "docs"}) /\ f.status = s
  BY SendOnly DEF Told, Early
<1>2. Becoming(f, g, {"at"}) /\ g.at = "deliver"
  BY <1>1, GotoOnly DEF Becoming
<1>3. Becoming(e, g, {"at", "status", "ctype", "docs"}) /\ g.status = s
  BY <1>1, <1>2 DEF Becoming, Fields
<1> HIDE DEF f, g
<1>4. Told(g)
  BY <1>2, <1>3 DEF Becoming, Told, Outer, Inner, Over, Early, Silent, Fields, Metric
<1> QED
  BY <1>3, <1>4 DEF f, g

\* Before the first exchange nothing is told.
LEMMA InitTold == Init => TellInv
<1> SUFFICES ASSUME Init PROVE TellInv
  OBVIOUS
<1> DEFINE e == Visit(Get(<<>>))
<1>1. Shaped(e) /\ Told(e) /\ e.at = "cache"
  BY FreshTold DEF Visit
<1>2. ex = [e EXCEPT !.at = "idle"] /\ cache = {}
  BY DEF Init
<1> HIDE DEF e
<1>3. Becoming(e, ex, {"at"}) /\ ex.at = "idle"
  BY <1>1, <1>2, GotoOnly DEF Goto
<1> QED
  BY <1>1, <1>2, <1>3 DEF TellInv, Told, Becoming, Fields, Outer, Inner, Over, Early, Silent

\* The client and the middlewares.
LEMMA EarlyTold ==
    ASSUME TellInv, Ask \/ Follow \/ CORS \/ RateLimit \/ RequestID \/ Labeler
    PROVE  TellInv'
<1> USE DEF TellInv
<1> SUFFICES Shaped(ex') /\ Told(ex') /\ UNCHANGED cache
  BY DEF Ask, Follow, CORS, RateLimit, RequestID, Labeler, At, Becomes, Reply
<1>1. CASE Ask
  BY <1>1, FreshTold DEF Ask, Visit
<1>2. CASE Follow
  BY <1>2, FreshTold DEF Follow, Becomes
<1>3. CASE CORS
  <2> DEFINE preflight == ex.req.preflight /\ ex.req.method = "OPTIONS" /\ ex.req.origin # Absent
             h == CorsHeaders(cors, ex.req.origin, preflight)
             e == [ex EXCEPT !.hdr = h]
  <2>1. ex.at = "cors" /\ (ex' = Goto(Send(e, 204, Absent, <<>>), "deliver") \/ ex' = Pass(e)) /\ UNCHANGED cache
    BY <1>3 DEF CORS, At, Becomes
  <2> HIDE DEF h
  <2>2. Becoming(ex, e, {"hdr"})
    BY DEF Shaped, Becoming, Fields
  <2> HIDE DEF e
  <2>3. Shaped(e) /\ Told(e) /\ e.at = "cors"
    BY <2>1, <2>2 DEF Told, Becoming, Fields, Outer, Inner, Over, Early, Silent
  <2> QED
    BY <2>1, <2>3, PassTold, SentTold DEF Outer, Sent, Becoming
<1>4. CASE RateLimit
  <2>1. ex.at = "limit" /\ (ex' = Pass(ex) \/ ex' = Goto(Send(ex, 429, "json", <<RefusedJSON>>), "deliver"))
        /\ UNCHANGED cache
    BY <1>4 DEF RateLimit, At, Becomes, Reply
  <2> QED
    BY <2>1, PassTold, SentTold DEF Outer, Sent, Becoming
<1>5. CASE RequestID \/ Labeler
  <2> DEFINE e == [ex EXCEPT !.id = TRUE]
             l == FindPath(ex.req.method, URL(ex.req.path))
             f == [ex EXCEPT !.label = l]
  <2>1. (ex.at = "id" /\ ex' = Pass(e)) \/ (ex.at = "label" /\ ex' = Pass(f))
    BY <1>5 DEF RequestID, Labeler, At, Becomes
  <2> HIDE DEF l
  <2>2. Becoming(ex, e, {"id"}) /\ Becoming(ex, f, {"label"})
    <3>1. Becoming(ex, e, {"id"})
      BY MarkOnly
    <3>2. Becoming(ex, f, {"label"})
      BY DEF Shaped, Becoming, Fields
    <3> QED
      BY <3>1, <3>2
  <2> HIDE DEF e, f
  <2>3. /\ Shaped(e) /\ Told(e) /\ e.at = ex.at
        /\ Shaped(f) /\ Told(f) /\ f.at = ex.at
    BY <2>1, <2>2 DEF Told, Becoming, Fields, Outer, Inner, Over, Early, Silent
  <2> QED
    BY <1>5, <2>1, <2>3, PassTold DEF RequestID, Labeler, Becomes
<1> QED
  BY <1>1, <1>2, <1>3, <1>4, <1>5

\* The router knows three operations.
LEMMA FoundOps ==
    ASSUME NEW url, NEW leaf \in ServeHTTP(url)
    PROVE  leaf.op \in Ops
<1>1. \A elem : \A l \in Leaf(elem) : l.op \in Ops
  BY DEF Leaf, Ops
<1> QED
  BY <1>1 DEF ServeHTTP

\* An operation starts before its handler, or in it.
LEMMA FirstStep ==
    \A op \in Ops : /\ Steps(op)[1] \in Inner
                    /\ Steps(op)[1] = "params" => op = "getProduct"
                    /\ Steps(op)[1] \in {"security", "decode"} => op = "placeOrder"
  BY StepsFollow DEF Ops, Inner

\* The mux and the router.
LEMMA RouteTold ==
    ASSUME TellInv, Route
    PROVE  TellInv'
<1> USE DEF TellInv
<1>0. ex.at = "mux" /\ UNCHANGED cache
  BY DEF Route, At, Becomes, Reply
<1> SUFFICES Shaped(ex') /\ Told(ex')
  BY <1>0
<1>1. ASSUME NEW s \in Sent, NEW c, NEW d, ex' = Goto(Send(ex, s, c, d), "deliver")
      PROVE  Shaped(ex') /\ Told(ex')
  BY <1>0, <1>1, SentTold DEF Outer, Becoming
<1>2. ASSUME NEW leaf, leaf.op \in Ops,
             ex' = [ex EXCEPT !.op = leaf.op, !.arg = leaf.arg, !.at = Steps(leaf.op)[1]]
      PROVE  Shaped(ex') /\ Told(ex')
  <2> DEFINE s == Steps(leaf.op)[1]
  <2>1. s \in Inner /\ (s = "params" => leaf.op = "getProduct")
        /\ (s \in {"security", "decode"} => leaf.op = "placeOrder")
    BY <1>2, FirstStep
  <2>2. ex' = [ex EXCEPT !.op = leaf.op, !.arg = leaf.arg, !.at = s]
    BY <1>2
  <2> HIDE DEF s
  <2>3. Becoming(ex, ex', {"op", "arg", "at"}) /\ ex'.op = leaf.op /\ ex'.at = s
    BY <2>2 DEF Shaped, Becoming, Fields
  <2> QED
    BY <1>0, <1>2, <2>1, <2>3 DEF Told, Becoming, Fields, Outer, Inner, Over, Early, Silent
<1>3. ASSUME NEW s \in Sent, NEW c, NEW d, Reply(s, c, d)
      PROVE  Shaped(ex') /\ Told(ex')
  BY <1>1, <1>3 DEF Reply, Becomes
<1> DEFINE found == ServeHTTP(URL(ex.req.path))
           Serve(leaf) == [ex EXCEPT !.op = leaf.op, !.arg = leaf.arg, !.at = Steps(leaf.op)[1]]
<1>4. \/ Reply(301, "text", <<>>)
      \/ \E s \in {200, 503} : Reply(s, "text", Text)
      \/ Reply(404, "text", Text)
      \/ \E leaf \in found : Reply(204, Absent, <<>>) \/ Reply(405, Absent, <<>>) \/ Becomes(Serve(leaf))
  <2> HIDE DEF Serve
  <2>1. \/ Reply(301, "text", <<>>)
        \/ \E s \in {200, 503} : Reply(s, "text", Text)
        \/ Reply(404, "text", Text)
        \/ \E leaf \in found : IF NotAllowed(leaf)
                                THEN Reply(IF ex.req.method = "OPTIONS" THEN 204 ELSE 405, Absent, <<>>)
                                ELSE Becomes(Serve(leaf))
    BY Zenon DEF Route, Serve
  <2>2. ASSUME NEW leaf \in found,
               IF NotAllowed(leaf)
               THEN Reply(IF ex.req.method = "OPTIONS" THEN 204 ELSE 405, Absent, <<>>)
               ELSE Becomes(Serve(leaf))
        PROVE  Reply(204, Absent, <<>>) \/ Reply(405, Absent, <<>>) \/ Becomes(Serve(leaf))
    <3>1. CASE NotAllowed(leaf) /\ ex.req.method = "OPTIONS"
      BY Zenon, <2>2, <3>1
    <3>2. CASE NotAllowed(leaf) /\ ex.req.method # "OPTIONS"
      BY Zenon, <2>2, <3>2
    <3>3. CASE ~NotAllowed(leaf)
      BY Zenon, <2>2, <3>3
    <3> QED
      BY Zenon, <3>1, <3>2, <3>3
  <2> QED
    BY ZenonT(30), <2>1, <2>2
<1>5. ASSUME NEW leaf \in found, Becomes(Serve(leaf)) PROVE Shaped(ex') /\ Told(ex')
  <2>1. leaf.op \in Ops
    BY FoundOps
  <2> QED
    BY <1>2, <1>5, <2>1 DEF Becomes
<1>6. {301, 200, 503, 404, 204, 405} \subseteq Sent
  BY DEF Sent
<1> HIDE DEF Serve, found
<1> QED
  BY <1>3, <1>4, <1>5, <1>6

\* A step of an operation that succeeds.
LEMMA ContinueTold ==
    ASSUME NEW e, Shaped(e), Told(e), e.at \in Inner \ {"handle"}
    PROVE  /\ Becoming(e, Continue(e), {"at"}) /\ Told(Continue(e))
           /\ Continue(e).at = IF e.at = "security" THEN "decode" ELSE "handle"
<1>1. Following(Steps(e.op), e.at) = IF e.at = "security" THEN "decode" ELSE "handle"
  BY StepsFollow DEF Told, Inner
<1>2. Becoming(e, Continue(e), {"at"}) /\ Continue(e).at = IF e.at = "security" THEN "decode" ELSE "handle"
  BY <1>1, GotoOnly DEF Continue
<1> QED
  BY <1>2 DEF Told, Becoming, Fields, Outer, Inner, Over, Early, Silent

\* A step of an operation that fails.
LEMMA FailTold ==
    ASSUME NEW e, Shaped(e), NEW s
    PROVE  Becoming(e, Fail(e, s), {"at", "err"}) /\ Fail(e, s).at = "error" /\ Fail(e, s).err = s
<1>1. ASSUME NEW a, NEW f, f = [e EXCEPT !.at = a, !.err = s]
      PROVE  Becoming(e, f, {"at", "err"}) /\ f.at = a /\ f.err = s
  BY <1>1 DEF Shaped, Becoming, Fields
<1> QED
  BY <1>1 DEF Fail

\* What stands before the handler: the key, the parameter, the body.
LEMMA ChecksTold ==
    ASSUME TellInv, Security \/ DecodeParams \/ DecodeRequest
    PROVE  TellInv'
<1> USE DEF TellInv
<1> SUFFICES Shaped(ex') /\ Told(ex') /\ UNCHANGED cache
  BY DEF Security, DecodeParams, DecodeRequest, At, Becomes
<1> DEFINE r == CHOOSE q \in decodePlaceOrderRequest(ex.req) : TRUE
           e == [ex EXCEPT !.arg = r]
<1>1. /\ ex.at \in Inner \ {"handle"}
      /\ \/ ex' = Continue(ex)
         \/ ex' = Fail(ex, 401) \/ ex' = Fail(ex, 400)
         \/ ex' = Continue(e)
      /\ UNCHANGED cache
  BY DEF Security, DecodeParams, DecodeRequest, At, Becomes, Inner
<1> HIDE DEF r
<1>2. Becoming(ex, e, {"arg"})
  BY DEF Shaped, Becoming, Fields
<1> HIDE DEF e
<1>3. Shaped(e) /\ Told(e) /\ e.at = ex.at
  BY <1>1, <1>2 DEF Told, Becoming, Fields, Outer, Inner, Over, Early, Silent
<1>4. ASSUME NEW s \in {400, 401}, ex' = Fail(ex, s) PROVE Shaped(ex') /\ Told(ex')
  <2>1. Becoming(ex, ex', {"at", "err"}) /\ ex'.at = "error" /\ ex'.err = s
    BY <1>4, FailTold
  <2> QED
    BY <1>1, <2>1 DEF Told, Becoming, Fields, Outer, Inner, Over, Early, Silent
<1> QED
  BY <1>1, <1>3, <1>4, ContinueTold DEF Becoming

\* A handler answers with the types of its operation.
LEMMA AnswersTyped ==
    ASSUME ex.op \in Ops, NEW a \in Answers
    PROVE  a[1] \in AnswerTypes(ex.op)
<1>1. ASSUME NEW id PROVE \A x \in GetProduct(id) : x[1] \in {"Product", "GetProductNotFound"}
  BY DEF GetProduct
<1>2. \A x \in ListProducts : x[1] \in {"Products"}
  BY DEF ListProducts
<1>3. ASSUME NEW req PROVE \A x \in PlaceOrder(req) : x[1] \in {"Order", "PlaceOrderUnprocessableEntity"}
  BY DEF PlaceOrder
<1> QED
  BY <1>1, <1>2, <1>3 DEF Answers, AnswerTypes, Ops

\* The handler.
LEMMA HandleTold ==
    ASSUME TellInv, Handle
    PROVE  TellInv'
<1> USE DEF TellInv
<1>0. ex.at = "handle" /\ UNCHANGED cache
  BY DEF Handle, At, Becomes
<1> SUFFICES Shaped(ex') /\ Told(ex')
  BY <1>0
<1> DEFINE q == {<<ex.op, ex.arg>>}
           e == [ex EXCEPT !.asked = q]
<1>1. \/ \E a \in Answers : ex' = Continue([e EXCEPT !.said = {a}])
      \/ ex' = Fail(e, 500)
      \/ ex' = Goto([e EXCEPT !.fault = "panic"], "panic")
  BY Zenon DEF Handle, Becomes
<1>2. ex.op \in Ops
  BY <1>0 DEF Told, Inner
<1> HIDE DEF q
<1>3. Becoming(ex, e, {"asked"})
  BY DEF Shaped, Becoming, Fields
<1> HIDE DEF e
<1>4. CASE \E a \in Answers : ex' = Continue([e EXCEPT !.said = {a}])
  <2>1. PICK a \in Answers : ex' = Continue([e EXCEPT !.said = {a}])
    BY <1>4
  <2> DEFINE s == {a}
             f == [e EXCEPT !.said = s]
  <2>2. a[1] \in AnswerTypes(ex.op) /\ s = {a}
    BY <1>2, AnswersTyped
  <2> HIDE DEF s
  <2>3. Becoming(e, f, {"said"}) /\ f.said = s
    BY <1>3 DEF Shaped, Becoming, Fields
  <2>4. ex' = Continue(f)
    BY <2>1, <2>2
  <2> HIDE DEF f
  <2>5. f.op = ex.op /\ f.at = "handle"
    BY <1>0, <1>3, <2>3 DEF Becoming, Fields
  <2>6. Following(Steps(f.op), f.at) = "encode"
    BY <1>2, <2>5, StepsFollow DEF Ops
  <2>7. Becoming(f, ex', {"at"}) /\ ex'.at = "encode"
    BY <2>3, <2>4, <2>6, GotoOnly DEF Continue, Becoming
  <2>8. ex'.said = {a} /\ ex'.op = ex.op /\ ex'.rec = ex.rec /\ ex'.status = ex.status
        /\ ex'.fault = ex.fault /\ ex'.hit = ex.hit
    BY <1>3, <2>2, <2>3, <2>7 DEF Becoming, Fields
  <2> QED
    BY <1>0, <1>2, <2>2, <2>7, <2>8 DEF Told, Becoming, Outer, Inner, Over, Early
<1>5. CASE ex' = Fail(e, 500)
  <2>1. Becoming(e, ex', {"at", "err"}) /\ ex'.at = "error" /\ ex'.err = 500
    BY <1>3, <1>5, FailTold DEF Becoming
  <2> QED
    BY <1>0, <1>2, <1>3, <2>1 DEF Told, Becoming, Fields, Outer, Inner, Over, Early
<1>6. CASE ex' = Goto([e EXCEPT !.fault = "panic"], "panic")
  <2> DEFINE f == [e EXCEPT !.fault = "panic"]
  <2>1. Becoming(e, f, {"fault"}) /\ f.fault = "panic"
    BY <1>3 DEF Shaped, Becoming, Fields
  <2> HIDE DEF f
  <2>2. Becoming(f, ex', {"at"}) /\ ex'.at = "panic"
    BY <1>6, <2>1, GotoOnly DEF Becoming, f
  <2> QED
    BY <1>0, <1>2, <1>3, <2>1, <2>2 DEF Told, Becoming, Fields, Outer, Inner, Over, Early
<1> QED
  BY <1>1, <1>4, <1>5, <1>6

\* The statuses that the encoders write.
LEMMA StatusTyped ==
    ASSUME NEW op \in Ops, NEW type \in AnswerTypes(op)
    PROVE  StatusOf(op, type) \in {200, 404, 422}
<1>1. GetProductStatus["Product"] = 200 /\ GetProductStatus["GetProductNotFound"] = 404
  BY DEF GetProductStatus
<1>2. ListProductsStatus["Products"] = 200
  BY DEF ListProductsStatus
<1>3. PlaceOrderStatus["Order"] = 200 /\ PlaceOrderStatus["PlaceOrderUnprocessableEntity"] = 422
  BY DEF PlaceOrderStatus
<1> QED
  BY <1>1, <1>2, <1>3 DEF StatusOf, AnswerTypes, Ops

\* The encoder.
LEMMA EncodeTold ==
    ASSUME TellInv, Encode
    PROVE  TellInv'
<1> USE DEF TellInv
<1>0. ex.at = "encode" /\ UNCHANGED cache
  BY DEF Encode, At, Becomes
<1> SUFFICES Shaped(ex') /\ Told(ex')
  BY <1>0
<1>1. PICK b : ex.said = {b} /\ b[1] \in AnswerTypes(ex.op)
  BY <1>0 DEF Told
<1>2. ex.op \in Ops /\ ex.rec = 0 /\ ex.status = 0 /\ ex.fault = "none"
  BY <1>0 DEF Told, Early
<1> DEFINE status == StatusOf(ex.op, b[1])
           body == <<EncodeAnswer(b[1], b[2])>>
           e == Send(Record(ex, status), status, "json", body)
<1>3. \/ ex' = Goto(e, "deliver")
      \/ ex' = Fail([e EXCEPT !.fault = "write"], 500)
  BY <1>1 DEF Encode, Becomes
<1>4. status \in {200, 404, 422}
  BY <1>1, <1>2, StatusTyped
<1> HIDE DEF status, body
<1>5. Becoming(ex, Record(ex, status), {"rec"}) /\ Record(ex, status).rec = status
  BY RecordOnly
<1>6. /\ Becoming(Record(ex, status), e, {"status", "ctype", "docs"})
      /\ e.status = status
  BY <1>2, <1>5, SendOnly DEF Becoming, Fields
<1>7. Becoming(ex, e, {"rec", "status", "ctype", "docs"}) /\ e.status = status /\ e.rec = status
  BY <1>5, <1>6 DEF Becoming, Fields
<1> HIDE DEF e
<1>8. CASE ex' = Goto(e, "deliver")
  <2>1. Becoming(e, ex', {"at"}) /\ ex'.at = "deliver"
    BY <1>7, <1>8, GotoOnly DEF Becoming
  <2> QED
    BY <1>0, <1>2, <1>4, <1>7, <2>1
    DEF Told, Becoming, Fields, Outer, Inner, Over, Early, Metric, Sent, Ops
<1>9. CASE ex' = Fail([e EXCEPT !.fault = "write"], 500)
  <2> DEFINE f == [e EXCEPT !.fault = "write"]
  <2>1. Becoming(e, f, {"fault"}) /\ f.fault = "write"
    BY <1>7 DEF Shaped, Becoming, Fields
  <2> HIDE DEF f
  <2>2. Becoming(f, ex', {"at", "err"}) /\ ex'.at = "error" /\ ex'.err = 500
    BY <1>9, <2>1, FailTold DEF Becoming, f
  <2> QED
    BY <1>0, <1>2, <1>4, <1>7, <2>1, <2>2
    DEF Told, Becoming, Fields, Outer, Inner, Over, Early
<1> QED
  BY <1>3, <1>8, <1>9

\* The error handler and Recovery.
LEMMA LastResortTold ==
    ASSUME TellInv, ErrorHandler \/ Recover
    PROVE  TellInv'
<1> USE DEF TellInv
<1>0. UNCHANGED cache
  BY DEF ErrorHandler, Recover, At, Becomes
<1> SUFFICES Shaped(ex') /\ Told(ex')
  BY <1>0
<1>1. CASE ErrorHandler
  <2> DEFINE docs == <<Obj(<<<<"error_message", Str("why")>>>>)>>
             r == Record(ex, ex.err)
             e == Send(r, ex.err, "json", docs)
  <2>1. ex.at = "error" /\ ex' = Goto(e, "deliver")
    BY <1>1 DEF ErrorHandler, At, Becomes
  <2> HIDE DEF docs
  <2>2. Becoming(ex, r, {"rec"}) /\ r.rec = ex.err
    BY RecordOnly
  <2>3. Becoming(r, e, {"status", "ctype", "docs"}) /\ e.status = IF r.status = 0 THEN ex.err ELSE r.status
    BY <2>2, SendOnly DEF Becoming
  <2> HIDE DEF e, r
  <2>4. Becoming(e, ex', {"at"}) /\ ex'.at = "deliver"
    BY <2>1, <2>3, GotoOnly DEF Becoming
  <2> QED
    BY <2>1, <2>2, <2>3, <2>4
    DEF Told, Becoming, Fields, Outer, Inner, Over, Early, Metric, Sent, Ops
<1>2. CASE Recover
  <2> DEFINE e == Send(ex, 500, "text", Text)
  <2>1. ex.at = "panic" /\ ex' = Goto(e, "deliver")
    BY <1>2 DEF Recover, At, Becomes
  <2>2. Becoming(ex, e, {"status", "ctype", "docs"}) /\ e.status = 500
    BY <2>1, SendOnly DEF Told
  <2> HIDE DEF e
  <2>3. Becoming(e, ex', {"at"}) /\ ex'.at = "deliver"
    BY <2>1, <2>2, GotoOnly DEF Becoming
  <2> QED
    BY <2>1, <2>2, <2>3
    DEF Told, Becoming, Fields, Outer, Inner, Over, Early, Metric, Sent, Ops
<1> QED
  BY <1>1, <1>2

\* The cache, on the way in and on the way out.
LEMMA CacheTold ==
    ASSUME TellInv, FromCache \/ Deliver
    PROVE  TellInv'
<1> USE DEF TellInv
<1>1. CASE FromCache
  <2>0. ex.at = "cache" /\ UNCHANGED cache
    BY <1>1 DEF FromCache, At, Becomes
  <2>1. CASE ex' = Pass(ex)
    BY <2>0, <2>1, PassTold DEF Outer
  <2>2. ASSUME NEW c \in cache, ex' = [c EXCEPT !.req = ex.req, !.call = ex.call, !.hit = TRUE]
        PROVE  Shaped(ex') /\ Told(ex')
    <3>1. Shaped(c) /\ Told(c) /\ c.at = "deliver"
      BY DEF Kept
    <3> DEFINE f == [c EXCEPT !.req = ex.req, !.call = ex.call, !.hit = TRUE]
    <3>2. Becoming(c, f, {"req", "call", "hit"})
      BY <3>1, HitOnly
    <3> HIDE DEF f
    <3>3. ex' = f
      BY <2>2 DEF f
    <3>4. Becoming(c, ex', {"req", "call", "hit"})
      BY <3>2, <3>3
    <3>5. /\ ex'.at = "deliver" /\ ex'.op = c.op /\ ex'.status = c.status /\ ex'.fault = c.fault
          /\ ex'.rec = c.rec /\ Shaped(ex')
      BY <3>1, <3>4 DEF Becoming, Fields
    <3> QED
      BY <3>1, <3>4, <3>5 DEF Told, Outer, Inner, Over, Metric
  <2> QED
    BY <1>1, <2>0, <2>1, <2>2 DEF FromCache, Becomes
<1>2. CASE Deliver
  <2> DEFINE g == DecodeResponse(ex.call.op, ex)
             e == Goto(ex, "answered")
  <2>1. /\ ex.at = "deliver"
        /\ ex' = [e EXCEPT !.got = g]
        /\ \/ UNCHANGED cache
           \/ ex.req.method = "GET" /\ ex.status \in Cacheable /\ ~ex.hit /\ cache' = cache \cup {ex}
    BY <1>2 DEF Deliver, At
  <2> HIDE DEF g
  <2>2. Becoming(ex, e, {"at"}) /\ e.at = "answered"
    BY GotoOnly
  <2> HIDE DEF e
  <2>3. Becoming(e, ex', {"got"})
    BY <2>1, <2>2 DEF Shaped, Becoming, Fields
  <2>4. Shaped(ex') /\ Told(ex')
    BY <2>1, <2>2, <2>3 DEF Told, Becoming, Fields, Outer, Inner, Over, Metric
  <2>5. \A c \in cache' : Kept(c)
    BY <2>1 DEF Kept
  <2>6. \A c \in cache' : Kept(c)'
    BY <2>5 DEF Kept, Shaped, Told
  <2> QED
    BY <2>4, <2>5
<1> QED
  BY <1>1, <1>2

\* Every step keeps it.
LEMMA StepTold == TellInv /\ [Next]_vars => TellInv'
<1>1. ASSUME TellInv, UNCHANGED <<ex, cache>> PROVE TellInv'
  BY <1>1 DEF TellInv
<1> QED
  BY <1>1, EarlyTold, RouteTold, ChecksTold, HandleTold, EncodeTold, LastResortTold, CacheTold
  DEF Next, vars

\* In every behaviour a status is sent once, by the layer that answers, and the
\* recorder holds what that layer told it: nothing before the operation is
\* known, the status that went out after it, 500 for a body that broke off,
\* nothing for a panic.
THEOREM StatusesTold == Spec => []TellInv
  BY InitTold, StepTold, PTL DEF Spec

(* The metric.                                                             *)

\* The metric of an operation has the status that was sent, but for a panic and
\* for a body that could not be written (codeRecorder, handlers 22-30 and
\* 63-83).
THEOREM MetricsTrue == Spec => []RecordedAsSent
<1>1. TellInv => RecordedAsSent
  BY DEF TellInv, Told, RecordedAsSent, Metric, Answered, Over
<1> QED
  BY <1>1, StatusesTold, PTL
----------------------------------------------------------------------------
(* What each layer may change.                                             *)

\* What one step of each layer changes. CORS: the headers, and for a preflight
\* the answer.
LEMMA CorsMoves ==
    ASSUME TellInv, CORS
    PROVE  /\ ex.at = "cors" /\ ex'.at \in {"limit", "deliver"} /\ UNCHANGED <<cors, cache, seedVars>>
           /\ Becoming(ex, ex', {"at", "hdr", "status", "ctype", "docs"})
           /\ ex'.hdr = CorsHeaders(cors, ex.req.origin,
                                    ex.req.preflight /\ ex.req.method = "OPTIONS" /\ ex.req.origin # Absent)
<1> DEFINE preflight == ex.req.preflight /\ ex.req.method = "OPTIONS" /\ ex.req.origin # Absent
           h == CorsHeaders(cors, ex.req.origin, preflight)
           e == [ex EXCEPT !.hdr = h]
<1>1. /\ ex.at = "cors"
      /\ (ex' = Goto(Send(e, 204, Absent, <<>>), "deliver") \/ ex' = Pass(e))
      /\ UNCHANGED <<cors, cache, seedVars>>
  BY DEF CORS, At, Becomes
<1> HIDE DEF h
<1>2. Becoming(ex, e, {"hdr"}) /\ e.hdr = h /\ Shaped(ex) /\ Told(ex)
  BY DEF Shaped, Becoming, Fields, TellInv
<1> HIDE DEF e
<1>3. Shaped(e) /\ Told(e) /\ e.at = "cors"
  BY <1>1, <1>2 DEF Told, Becoming, Fields, Outer, Inner, Over, Early, Silent
<1>4. CASE ex' = Goto(Send(e, 204, Absent, <<>>), "deliver")
  <2>1. Becoming(e, ex', {"at", "status", "ctype", "docs"})
    BY <1>3, <1>4, SentTold DEF Outer, Sent
  <2>2. Shaped(Send(e, 204, Absent, <<>>))
    BY <1>3, SendOnly DEF Becoming
  <2>3. ex'.at = "deliver"
    BY <1>4, <2>2, GotoOnly
  <2>4. Becoming(ex, ex', {"at", "hdr", "status", "ctype", "docs"}) /\ ex'.hdr = h
    BY <1>2, <2>1 DEF Becoming, Fields
  <2> QED
    BY <1>1, <2>3, <2>4 DEF h
<1>5. CASE ex' = Pass(e)
  <2>1. Becoming(e, ex', {"at"})
    BY <1>3, <1>5, PassTold
  <2>2. ex'.at = "limit"
    BY <1>3, <1>5, GotoOnly, ChainFollows DEF Pass
  <2>3. Becoming(ex, ex', {"at", "hdr", "status", "ctype", "docs"}) /\ ex'.hdr = h
    BY <1>2, <2>1 DEF Becoming, Fields
  <2> QED
    BY <1>1, <2>2, <2>3 DEF h
<1> QED
  BY <1>1, <1>4, <1>5

\* An answer changes the head, the body and the stage.
LEMMA SentOver ==
    ASSUME NEW e, Shaped(e), NEW s, NEW c, NEW d
    PROVE  /\ Becoming(e, Goto(Send(e, s, c, d), "deliver"), {"at", "status", "ctype", "docs"})
           /\ Goto(Send(e, s, c, d), "deliver").at = "deliver"
<1> DEFINE f == Send(e, s, c, d)
<1>1. Becoming(e, f, {"status", "ctype", "docs"})
  BY SendOnly
<1> HIDE DEF f
<1>2. Becoming(f, Goto(f, "deliver"), {"at"}) /\ Goto(f, "deliver").at = "deliver"
  BY <1>1, GotoOnly DEF Becoming
<1>3. Becoming(e, Goto(f, "deliver"), {"at", "status", "ctype", "docs"}) /\ Goto(f, "deliver").at = "deliver"
  BY <1>1, <1>2 DEF Becoming, Fields
<1> QED
  BY <1>3 DEF f

\* The rate limiter.
LEMMA LimitMoves ==
    ASSUME TellInv, RateLimit
    PROVE  /\ ex.at = "limit" /\ ex'.at \in {"id", "deliver"} /\ UNCHANGED <<cors, cache, seedVars>>
           /\ Becoming(ex, ex', {"at", "status", "ctype", "docs"})
<1>1. ex.at = "limit" /\ (ex' = Pass(ex) \/ ex' = Goto(Send(ex, 429, "json", <<RefusedJSON>>), "deliver"))
      /\ UNCHANGED <<cors, cache, seedVars>>
  BY DEF RateLimit, At, Becomes, Reply
<1>2. Shaped(ex) /\ Told(ex)
  BY DEF TellInv
<1>3. CASE ex' = Pass(ex)
  <2>1. Becoming(ex, ex', {"at"}) /\ ex'.at = "id"
    BY <1>1, <1>2, <1>3, GotoOnly, ChainFollows DEF Pass
  <2> QED
    BY <1>1, <2>1 DEF Becoming
<1>4. CASE ex' = Goto(Send(ex, 429, "json", <<RefusedJSON>>), "deliver")
  BY <1>1, <1>2, <1>4, SentOver
<1> QED
  BY <1>1, <1>3, <1>4

\* RequestID.
LEMMA IdMoves ==
    ASSUME TellInv, RequestID
    PROVE  /\ ex.at = "id" /\ ex'.at = "label" /\ UNCHANGED <<cors, cache, seedVars>>
           /\ Becoming(ex, ex', {"at", "id"})
<1> DEFINE e == [ex EXCEPT !.id = TRUE]
<1>1. ex.at = "id" /\ ex' = Pass(e) /\ UNCHANGED <<cors, cache, seedVars>>
  BY DEF RequestID, At, Becomes
<1>2. Becoming(ex, e, {"id"})
  BY MarkOnly DEF TellInv
<1> HIDE DEF e
<1>3. Becoming(e, ex', {"at"}) /\ ex'.at = Following(Chain, e.at) /\ e.at = "id"
  BY <1>1, <1>2, GotoOnly DEF Pass, Becoming, Fields
<1> QED
  BY <1>1, <1>2, <1>3, ChainFollows DEF Becoming, Fields

\* Labeler, which asks the second copy of the router.
LEMMA LabelMoves ==
    ASSUME TellInv, Labeler
    PROVE  /\ ex.at = "label" /\ ex'.at = "mux" /\ UNCHANGED <<cors, cache, seedVars>>
           /\ Becoming(ex, ex', {"at", "label"})
           /\ ex'.label = FindPath(ex.req.method, URL(ex.req.path))
<1> DEFINE l == FindPath(ex.req.method, URL(ex.req.path))
           e == [ex EXCEPT !.label = l]
<1>1. ex.at = "label" /\ ex' = Pass(e) /\ UNCHANGED <<cors, cache, seedVars>>
  BY DEF Labeler, At, Becomes
<1> HIDE DEF l
<1>2. Becoming(ex, e, {"label"}) /\ e.label = l
  BY DEF TellInv, Shaped, Becoming, Fields
<1> HIDE DEF e
<1>3. Becoming(e, ex', {"at"}) /\ ex'.at = Following(Chain, e.at) /\ e.at = "label"
  BY <1>1, <1>2, GotoOnly DEF Pass, Becoming, Fields
<1>4. ex'.label = l
  BY <1>2, <1>3 DEF Becoming, Fields
<1>5. Becoming(ex, ex', {"at", "label"}) /\ ex'.at = "mux"
  BY <1>2, <1>3, ChainFollows DEF Becoming, Fields
<1> QED
  BY <1>1, <1>4, <1>5 DEF l

\* The mux and the first copy of the router.
LEMMA RouteMoves ==
    ASSUME TellInv, Route
    PROVE  /\ ex.at = "mux" /\ UNCHANGED <<cors, cache, seedVars>>
           /\ \/ /\ ex'.at = "deliver"
                 /\ Becoming(ex, ex', {"at", "status", "ctype", "docs"})
                 /\ Mux(ex.req.path) = "oas" =>
                        \/ ServeHTTP(URL(ex.req.path)) = {}
                        \/ \E leaf \in ServeHTTP(URL(ex.req.path)) : NotAllowed(leaf)
              \/ \E leaf \in ServeHTTP(URL(ex.req.path)) :
                    /\ ~NotAllowed(leaf)
                    /\ Becoming(ex, ex', {"at", "op", "arg"})
                    /\ ex'.op = leaf.op /\ ex'.arg = leaf.arg /\ ex'.at = Steps(leaf.op)[1]
<1> DEFINE found == ServeHTTP(URL(ex.req.path))
           Serve(leaf) == [ex EXCEPT !.op = leaf.op, !.arg = leaf.arg, !.at = Steps(leaf.op)[1]]
           to == Mux(ex.req.path)
<1>0. Shaped(ex)
  BY DEF TellInv
<1>1. ex.at = "mux" /\ UNCHANGED <<cors, seedVars>>
  BY DEF Route, At
<1>2. ASSUME NEW s, NEW c, NEW d, Reply(s, c, d)
      PROVE  UNCHANGED cache /\ ex'.at = "deliver" /\ Becoming(ex, ex', {"at", "status", "ctype", "docs"})
  BY <1>0, <1>2, SentOver DEF Reply, Becomes
<1>3. ASSUME NEW leaf, Becomes(Serve(leaf))
      PROVE  /\ UNCHANGED cache /\ Becoming(ex, ex', {"at", "op", "arg"})
             /\ ex'.op = leaf.op /\ ex'.arg = leaf.arg /\ ex'.at = Steps(leaf.op)[1]
  <2> DEFINE s == Steps(leaf.op)[1]
  <2>1. ex' = [ex EXCEPT !.op = leaf.op, !.arg = leaf.arg, !.at = s] /\ UNCHANGED cache
    BY <1>3 DEF Becomes
  <2> HIDE DEF s
  <2>2. Becoming(ex, ex', {"op", "arg", "at"}) /\ ex'.op = leaf.op /\ ex'.arg = leaf.arg /\ ex'.at = s
    BY <1>0, <2>1 DEF Shaped, Becoming, Fields
  <2> QED
    BY <2>1, <2>2 DEF s, Becoming
<1>4. \/ to = "redirect" /\ Reply(301, "text", <<>>)
      \/ to = "health" /\ \E s \in {200, 503} : Reply(s, "text", Text)
      \/ (to = "nothing" \/ (to = "oas" /\ found = {})) /\ Reply(404, "text", Text)
      \/ \E leaf \in found : IF NotAllowed(leaf)
                             THEN Reply(IF ex.req.method = "OPTIONS" THEN 204 ELSE 405, Absent, <<>>)
                             ELSE Becomes(Serve(leaf))
  BY Zenon DEF Route
<1> HIDE DEF found, Serve, to
<1>5. ASSUME NEW s, NEW c, NEW d, Reply(s, c, d),
             to = "oas" => found = {} \/ \E leaf \in found : NotAllowed(leaf)
      PROVE  /\ UNCHANGED cache /\ ex'.at = "deliver" /\ Becoming(ex, ex', {"at", "status", "ctype", "docs"})
             /\ to = "oas" => found = {} \/ \E leaf \in found : NotAllowed(leaf)
  BY <1>2, <1>5
<1>6. CASE to = "redirect" /\ Reply(301, "text", <<>>)
  BY <1>1, <1>5, <1>6 DEF found, to
<1>7. CASE to = "health" /\ \E s \in {200, 503} : Reply(s, "text", Text)
  BY <1>1, <1>5, <1>7 DEF found, to
<1>8. CASE (to = "nothing" \/ (to = "oas" /\ found = {})) /\ Reply(404, "text", Text)
  <2>1. to = "oas" => found = {}
    BY <1>8
  <2> QED
    BY <1>1, <1>5, <1>8, <2>1 DEF found, to
<1>9. ASSUME NEW leaf \in found, NotAllowed(leaf),
             Reply(IF ex.req.method = "OPTIONS" THEN 204 ELSE 405, Absent, <<>>)
      PROVE  /\ UNCHANGED cache /\ ex'.at = "deliver" /\ Becoming(ex, ex', {"at", "status", "ctype", "docs"})
             /\ \E l \in found : NotAllowed(l)
  BY <1>2, <1>9
<1>10. CASE \E leaf \in found : IF NotAllowed(leaf)
                                THEN Reply(IF ex.req.method = "OPTIONS" THEN 204 ELSE 405, Absent, <<>>)
                                ELSE Becomes(Serve(leaf))
  <2>1. PICK leaf \in found : IF NotAllowed(leaf)
                              THEN Reply(IF ex.req.method = "OPTIONS" THEN 204 ELSE 405, Absent, <<>>)
                              ELSE Becomes(Serve(leaf))
    BY <1>10
  <2>2. CASE NotAllowed(leaf)
    BY <1>1, <1>9, <2>1, <2>2 DEF found, to
  <2>3. CASE ~NotAllowed(leaf)
    <3>1. Becomes(Serve(leaf))
      BY <2>1, <2>3
    <3> QED
      BY <1>1, <1>3, <2>3, <3>1 DEF found
  <2> QED
    BY <2>2, <2>3
<1> QED
  BY <1>4, <1>6, <1>7, <1>8, <1>10

\* The steps before the handler: a key that passed is stored, an order that
\* passed is in the body.
LEMMA ChecksMove ==
    ASSUME TellInv, Security \/ DecodeParams \/ DecodeRequest
    PROVE  /\ UNCHANGED <<cors, cache, seedVars>> /\ ex.at \in {"security", "params", "decode"}
           /\ Becoming(ex, ex', {"at", "arg", "err"})
           /\ ex.op # "placeOrder" => ex'.arg = ex.arg
           /\ ex.at = "security" => ex'.at \in {"decode", "error"}
           /\ ex.at # "security" => ex'.at \in {"handle", "error"}
           /\ ex.at = "security" /\ ex'.at = "decode" => ex.req.key \in db.keys
           /\ ex.at = "decode" /\ ex'.at = "handle" => ex'.arg \in decodePlaceOrderRequest(ex.req)
<1>0. Shaped(ex) /\ Told(ex)
  BY DEF TellInv
<1>1. CASE Security
  <2>1. /\ ex.at = "security" /\ UNCHANGED <<cors, cache, seedVars>>
        /\ \/ ex' = Continue(ex) /\ ex.req.key \in db.keys
           \/ ex' = Fail(ex, 401)
    BY <1>1 DEF Security, At, Becomes, Satisfied, FindByHash
  <2>2. ex.at \in Inner \ {"handle"} /\ ex.op = "placeOrder"
    BY <1>0, <2>1 DEF Inner, Told
  <2>3. CASE ex' = Continue(ex) /\ ex.req.key \in db.keys
    <3>1. Becoming(ex, ex', {"at"}) /\ ex'.at = "decode"
      BY <1>0, <2>1, <2>2, <2>3, ContinueTold
    <3> QED
      BY <2>1, <2>3, <3>1 DEF Becoming, Fields
  <2>4. CASE ex' = Fail(ex, 401)
    <3>1. Becoming(ex, ex', {"at", "err"}) /\ ex'.at = "error"
      BY <1>0, <2>4, FailTold
    <3> QED
      BY <2>1, <3>1 DEF Becoming, Fields
  <2> QED
    BY <2>1, <2>3, <2>4
<1>2. CASE DecodeParams
  <2>1. /\ ex.at = "params" /\ UNCHANGED <<cors, cache, seedVars>>
        /\ ex' = Continue(ex) \/ ex' = Fail(ex, 400)
    BY <1>2 DEF DecodeParams, At, Becomes
  <2>2. ex.at \in Inner \ {"handle"}
    BY <2>1 DEF Inner
  <2>3. CASE ex' = Continue(ex)
    <3>1. Becoming(ex, ex', {"at"}) /\ ex'.at = "handle"
      BY <1>0, <2>1, <2>2, <2>3, ContinueTold
    <3> QED
      BY <2>1, <3>1 DEF Becoming, Fields
  <2>4. CASE ex' = Fail(ex, 400)
    <3>1. Becoming(ex, ex', {"at", "err"}) /\ ex'.at = "error"
      BY <1>0, <2>4, FailTold
    <3> QED
      BY <2>1, <3>1 DEF Becoming, Fields
  <2> QED
    BY <2>1, <2>3, <2>4
<1>3. CASE DecodeRequest
  <2> DEFINE decoded == decodePlaceOrderRequest(ex.req)
             r == CHOOSE q \in decoded : TRUE
             e == [ex EXCEPT !.arg = r]
  <2>1. /\ ex.at = "decode" /\ UNCHANGED <<cors, cache, seedVars>>
        /\ \/ decoded # {} /\ ex' = Continue(e)
           \/ ex' = Fail(ex, 400)
    BY <1>3 DEF DecodeRequest, At, Becomes
  <2>2. ex.at \in Inner \ {"handle"} /\ ex.op = "placeOrder"
    BY <1>0, <2>1 DEF Inner, Told
  <2>3. CASE decoded # {} /\ ex' = Continue(e)
    <3>1. r \in decoded
      BY <2>3
    <3> HIDE DEF r, decoded
    <3>2. Becoming(ex, e, {"arg"}) /\ e.arg = r
      BY <1>0 DEF Shaped, Becoming, Fields
    <3> HIDE DEF e
    <3>3. Shaped(e) /\ e.at = "decode" /\ Told(e)
      BY <1>0, <2>1, <3>2 DEF Told, Becoming, Fields, Outer, Inner, Over, Early, Silent
    <3>4. Becoming(e, ex', {"at"}) /\ ex'.at = "handle"
      BY <2>3, <3>3, ContinueTold DEF Inner
    <3>5. Becoming(ex, ex', {"at", "arg", "err"}) /\ ex'.arg = r
      BY <3>2, <3>4 DEF Becoming, Fields
    <3> QED
      BY <2>1, <2>2, <3>1, <3>4, <3>5 DEF decoded
  <2>4. CASE ex' = Fail(ex, 400)
    <3>1. Becoming(ex, ex', {"at", "err"}) /\ ex'.at = "error"
      BY <1>0, <2>4, FailTold
    <3> QED
      BY <2>1, <3>1 DEF Becoming, Fields
  <2> QED
    BY <2>1, <2>3, <2>4
<1> QED
  BY <1>1, <1>2, <1>3

\* The handler.
LEMMA HandleMoves ==
    ASSUME TellInv, Handle
    PROVE  /\ ex.at = "handle" /\ UNCHANGED <<cors, cache, seedVars>>
           /\ Becoming(ex, ex', {"at", "asked", "said", "fault", "err"})
           /\ ex'.asked = {<<ex.op, ex.arg>>}
           /\ \/ ex'.at = "encode" /\ ex'.fault = ex.fault /\ \E a \in Answers : ex'.said = {a}
              \/ ex'.at = "error" /\ ex'.fault = ex.fault /\ ex'.said = ex.said /\ ex'.err = 500
              \/ ex'.at = "panic" /\ ex'.said = ex.said
<1> DEFINE q == {<<ex.op, ex.arg>>}
           e == [ex EXCEPT !.asked = q]
<1>0. Shaped(ex) /\ Told(ex) /\ ex.at = "handle" /\ UNCHANGED <<cors, cache, seedVars>>
  BY DEF TellInv, Handle, At, Becomes
<1>1. \/ \E a \in Answers : ex' = Continue([e EXCEPT !.said = {a}])
      \/ ex' = Fail(e, 500)
      \/ ex' = Goto([e EXCEPT !.fault = "panic"], "panic")
  BY Zenon DEF Handle, Becomes
<1>2. ex.op \in Ops
  BY <1>0 DEF Told, Inner
<1> SUFFICES /\ Becoming(ex, ex', {"at", "asked", "said", "fault", "err"})
             /\ ex'.asked = q
             /\ \/ ex'.at = "encode" /\ ex'.fault = ex.fault /\ \E a \in Answers : ex'.said = {a}
                \/ ex'.at = "error" /\ ex'.fault = ex.fault /\ ex'.said = ex.said /\ ex'.err = 500
                \/ ex'.at = "panic" /\ ex'.said = ex.said
  BY <1>0
<1> HIDE DEF q
<1>3. Becoming(ex, e, {"asked"}) /\ e.asked = q
  BY <1>0 DEF Shaped, Becoming, Fields
<1> HIDE DEF e
<1>4. CASE \E a \in Answers : ex' = Continue([e EXCEPT !.said = {a}])
  <2>1. PICK a \in Answers : ex' = Continue([e EXCEPT !.said = {a}])
    BY <1>4
  <2> DEFINE s == {a}
             f == [e EXCEPT !.said = s]
  <2>2. s = {a}
    OBVIOUS
  <2> HIDE DEF s
  <2>3. Becoming(e, f, {"said"}) /\ f.said = s
    BY <1>3 DEF Shaped, Becoming, Fields
  <2>4. ex' = Continue(f)
    BY <2>1, <2>2
  <2> HIDE DEF f
  <2>5. f.op = ex.op /\ f.at = "handle"
    BY <1>0, <1>3, <2>3 DEF Becoming, Fields
  <2>6. Following(Steps(f.op), f.at) = "encode"
    BY <1>2, <2>5, StepsFollow DEF Ops
  <2>7. Becoming(f, ex', {"at"}) /\ ex'.at = "encode"
    BY <2>3, <2>4, <2>6, GotoOnly DEF Continue, Becoming
  <2>8. ex'.said = {a} /\ ex'.asked = q /\ ex'.fault = ex.fault
    BY <1>3, <2>2, <2>3, <2>7 DEF Becoming, Fields
  <2> QED
    BY <1>3, <2>3, <2>7, <2>8 DEF Becoming
<1>5. CASE ex' = Fail(e, 500)
  <2>1. Becoming(e, ex', {"at", "err"}) /\ ex'.at = "error" /\ ex'.err = 500
    BY <1>3, <1>5, FailTold DEF Becoming
  <2> QED
    BY <1>3, <2>1 DEF Becoming, Fields
<1>6. CASE ex' = Goto([e EXCEPT !.fault = "panic"], "panic")
  <2> DEFINE f == [e EXCEPT !.fault = "panic"]
  <2>1. Becoming(e, f, {"fault"})
    BY <1>3 DEF Shaped, Becoming, Fields
  <2> HIDE DEF f
  <2>2. Becoming(f, ex', {"at"}) /\ ex'.at = "panic"
    BY <1>6, <2>1, GotoOnly DEF Becoming, f
  <2> QED
    BY <1>3, <2>1, <2>2 DEF Becoming, Fields
<1> QED
  BY <1>1, <1>4, <1>5, <1>6

\* The encoder.
LEMMA EncodeMoves ==
    ASSUME TellInv, Encode
    PROVE  /\ ex.at = "encode" /\ UNCHANGED <<cors, cache, seedVars>>
           /\ Becoming(ex, ex', {"at", "rec", "status", "ctype", "docs", "fault", "err"})
           /\ \E a \in ex.said :
                 /\ ex'.status = StatusOf(ex.op, a[1]) /\ ex'.ctype = "json"
                 /\ ex'.docs = <<EncodeAnswer(a[1], a[2])>>
           /\ \/ ex'.at = "deliver" /\ ex'.fault = ex.fault
              \/ ex'.at = "error" /\ ex'.fault = "write"
<1>0. Shaped(ex) /\ Told(ex) /\ ex.at = "encode" /\ UNCHANGED <<cors, cache, seedVars>>
  BY DEF TellInv, Encode, At, Becomes
<1>1. ex.status = 0
  BY <1>0 DEF Told, Early
<1>2. PICK a \in ex.said :
         LET status == StatusOf(ex.op, a[1])
             e == Send(Record(ex, status), status, "json", <<EncodeAnswer(a[1], a[2])>>)
         IN  Becomes(Goto(e, "deliver")) \/ Becomes(Fail([e EXCEPT !.fault = "write"], 500))
  BY Zenon DEF Encode
<1> DEFINE status == StatusOf(ex.op, a[1])
           body == <<EncodeAnswer(a[1], a[2])>>
           r == Record(ex, status)
           e == Send(r, status, "json", body)
<1>3. ex' = Goto(e, "deliver") \/ ex' = Fail([e EXCEPT !.fault = "write"], 500)
  BY <1>2 DEF Becomes
<1> SUFFICES /\ Becoming(ex, ex', {"at", "rec", "status", "ctype", "docs", "fault", "err"})
             /\ ex'.status = status /\ ex'.ctype = "json" /\ ex'.docs = body
             /\ \/ ex'.at = "deliver" /\ ex'.fault = ex.fault
                \/ ex'.at = "error" /\ ex'.fault = "write"
  BY <1>0, <1>3
<1> HIDE DEF status, body
<1>4. Becoming(ex, r, {"rec"})
  BY <1>0, RecordOnly
<1> HIDE DEF r
<1>5. /\ Becoming(r, e, {"status", "ctype", "docs"})
      /\ e.status = status /\ e.ctype = "json" /\ e.docs = body
  BY <1>1, <1>4, SendOnly DEF Becoming, Fields
<1> HIDE DEF e
<1>6. CASE ex' = Goto(e, "deliver")
  <2>1. Becoming(e, ex', {"at"}) /\ ex'.at = "deliver"
    BY <1>5, <1>6, GotoOnly DEF Becoming
  <2> QED
    BY <1>4, <1>5, <2>1 DEF Becoming, Fields
<1>7. CASE ex' = Fail([e EXCEPT !.fault = "write"], 500)
  <2> DEFINE f == [e EXCEPT !.fault = "write"]
  <2>1. Becoming(e, f, {"fault"}) /\ f.fault = "write"
    BY <1>5 DEF Shaped, Becoming, Fields
  <2> HIDE DEF f
  <2>2. Becoming(f, ex', {"at", "err"}) /\ ex'.at = "error"
    BY <1>7, <2>1, FailTold DEF Becoming, f
  <2> QED
    BY <1>4, <1>5, <2>1, <2>2 DEF Becoming, Fields
<1> QED
  BY <1>3, <1>6, <1>7

\* The error handler and Recovery.
LEMMA LastMoves ==
    ASSUME TellInv, ErrorHandler \/ Recover
    PROVE  /\ ex.at \in {"error", "panic"} /\ ex'.at = "deliver" /\ UNCHANGED <<cors, cache, seedVars>>
           /\ Becoming(ex, ex', {"at", "rec", "status", "ctype", "docs"})
           /\ ex.at = "panic" => ex'.status = 500
           /\ ex.at = "error" /\ ex.status = 0 =>
                 ex'.status = ex.err /\ ex'.docs = <<Obj(<<<<"error_message", Str("why")>>>>)>>
<1>0. Shaped(ex) /\ Told(ex) /\ UNCHANGED <<cors, cache, seedVars>>
  BY DEF TellInv, ErrorHandler, Recover, At, Becomes
<1>1. CASE ErrorHandler
  <2> DEFINE docs == <<Obj(<<<<"error_message", Str("why")>>>>)>>
             r == Record(ex, ex.err)
             e == Send(r, ex.err, "json", docs)
  <2>1. ex.at = "error" /\ ex' = Goto(e, "deliver")
    BY <1>1 DEF ErrorHandler, At, Becomes
  <2> SUFFICES /\ Becoming(ex, ex', {"at", "rec", "status", "ctype", "docs"}) /\ ex'.at = "deliver"
               /\ ex.status = 0 => ex'.status = ex.err /\ ex'.docs = docs
    BY <1>0, <2>1
  <2> HIDE DEF docs
  <2>2. Becoming(ex, r, {"rec"})
    BY <1>0, RecordOnly
  <2> HIDE DEF r
  <2>3. /\ Becoming(r, e, {"status", "ctype", "docs"})
        /\ r.status = 0 => e.status = ex.err /\ e.docs = docs
    BY <2>2, SendOnly DEF Becoming
  <2> HIDE DEF e
  <2>4. Becoming(e, ex', {"at"}) /\ ex'.at = "deliver"
    BY <2>1, <2>3, GotoOnly DEF Becoming
  <2> QED
    BY <2>2, <2>3, <2>4 DEF Becoming, Fields
<1>2. CASE Recover
  <2>1. ex.at = "panic" /\ ex' = Goto(Send(ex, 500, "text", Text), "deliver")
    BY <1>2 DEF Recover, At, Becomes
  <2>2. ex.status = 0
    BY <1>0, <2>1 DEF Told
  <2> DEFINE e == Send(ex, 500, "text", Text)
  <2>3. Becoming(ex, e, {"status", "ctype", "docs"}) /\ e.status = 500
    BY <1>0, <2>2, SendOnly
  <2> HIDE DEF e
  <2>4. Becoming(e, ex', {"at"}) /\ ex'.at = "deliver"
    BY <2>1, <2>3, GotoOnly DEF Becoming, e
  <2>5. Becoming(ex, ex', {"at", "rec", "status", "ctype", "docs"}) /\ ex'.status = 500
    BY <2>3, <2>4 DEF Becoming, Fields
  <2> QED
    BY <1>0, <2>1, <2>4, <2>5
<1> QED
  BY <1>1, <1>2

\* The cache, on the way in.
LEMMA CacheMoves ==
    ASSUME TellInv, FromCache
    PROVE  /\ ex.at = "cache" /\ UNCHANGED <<cors, cache, seedVars>>
           /\ \/ ex'.at = "cors" /\ Becoming(ex, ex', {"at"})
              \/ \E c \in cache : /\ Fits(c) /\ Becoming(c, ex', {"req", "call", "hit"})
                                  /\ ex'.req = ex.req /\ ex'.call = ex.call /\ ex'.hit
<1>0. ex.at = "cache" /\ UNCHANGED <<cors, cache, seedVars>> /\ Shaped(ex)
  BY DEF FromCache, At, Becomes, TellInv
<1>1. CASE ex' = Pass(ex)
  <2>1. Becoming(ex, ex', {"at"}) /\ ex'.at = "cors"
    BY <1>0, <1>1, GotoOnly, ChainFollows DEF Pass
  <2> QED
    BY <1>0, <2>1
<1>2. CASE \E c \in cache : Fits(c) /\ ex' = [c EXCEPT !.req = ex.req, !.call = ex.call, !.hit = TRUE]
  <2>1. PICK c \in cache : Fits(c) /\ ex' = [c EXCEPT !.req = ex.req, !.call = ex.call, !.hit = TRUE]
    BY <1>2
  <2> DEFINE f == [c EXCEPT !.req = ex.req, !.call = ex.call, !.hit = TRUE]
  <2>2. Shaped(c)
    BY DEF TellInv, Kept
  <2>3. Becoming(c, f, {"req", "call", "hit"}) /\ f.req = ex.req /\ f.call = ex.call /\ f.hit
    <3>1. Becoming(c, f, {"req", "call", "hit"})
      BY <2>2, HitOnly
    <3>2. f.req = ex.req /\ f.call = ex.call
      BY <2>2 DEF Shaped
    <3>3. f.hit
      BY <2>2 DEF Shaped
    <3> QED
      BY <3>1, <3>2, <3>3
  <2> HIDE DEF f
  <2>4. ex' = f
    BY <2>1 DEF f
  <2> QED
    BY <1>0, <2>1, <2>3, <2>4
<1> QED
  BY <1>1, <1>2 DEF FromCache, Becomes

\* The answer on its way out.
LEMMA DeliverMoves ==
    ASSUME TellInv, Deliver
    PROVE  /\ ex.at = "deliver" /\ ex'.at = "answered" /\ UNCHANGED <<cors, seedVars>>
           /\ Becoming(ex, ex', {"at", "got"})
           /\ ex'.got = DecodeResponse(ex.call.op, ex)
           /\ \A c \in cache' : c \in cache \/ c = ex
<1> DEFINE g == DecodeResponse(ex.call.op, ex)
           e == Goto(ex, "answered")
<1>1. /\ ex.at = "deliver" /\ Shaped(ex) /\ UNCHANGED <<cors, seedVars>>
      /\ ex' = [e EXCEPT !.got = g]
      /\ \A c \in cache' : c \in cache \/ c = ex
  BY DEF Deliver, At, TellInv
<1> SUFFICES ex'.at = "answered" /\ Becoming(ex, ex', {"at", "got"}) /\ ex'.got = g
  BY <1>1
<1> HIDE DEF g
<1>2. Becoming(ex, e, {"at"}) /\ e.at = "answered"
  BY <1>1, GotoOnly
<1> HIDE DEF e
<1>3. Becoming(e, ex', {"got"}) /\ ex'.got = g
  BY <1>1, <1>2 DEF Shaped, Becoming, Fields
<1> QED
  BY <1>2, <1>3 DEF Becoming, Fields
----------------------------------------------------------------------------
(* The way to the operation.                                               *)

\* What the two copies of the router make of a request.
Found(req)   == ServeHTTP(URL(req.path))
Labelled(req) == FindPath(req.method, URL(req.path))
\* No operation of the router fits.
Unserved(req) == Found(req) = {} \/ \E leaf \in Found(req) : leaf.method # req.method
\* The leaf is the operation that is served.
Serves(leaf, e) == leaf.op = e.op /\ leaf.method = e.req.method /\ (e.op # "placeOrder" => e.arg = leaf.arg)

\* The stages before an exchange has its id.
Unmarked == {"idle", "cache", "cors", "limit", "id"}

\* How an exchange came to its operation: along the leaf of the router, and
\* labelled by the other copy.
Way(e) ==
    /\ e.at \in Unmarked => ~e.id
    /\ e.at \notin Unmarked \cup {"label"} /\ e.id => e.label = Labelled(e.req)
    /\ e.at \in Over /\ e.id /\ e.op = "none" /\ Mux(e.req.path) = "oas" => Unserved(e.req)
    /\ e.op # "none" => \E leaf \in Found(e.req) : Serves(leaf, e)
    /\ e.asked # {} => e.op # "none" /\ e.asked = {<<e.op, e.arg>>}

\* The inductive invariant of routing.
WayInv == TellInv /\ Way(ex) /\ \A c \in cache : Way(c)

\* A step that changes neither route nor label keeps it.
LEMMA SameWay ==
    ASSUME NEW e, NEW f, Becoming(e, f, {"at", "hdr", "status", "ctype", "docs", "rec", "err", "fault", "said", "got"}),
           Way(e), f.at \in Unmarked => e.at \in Unmarked, e.at \in Unmarked \/ e.at \notin Unmarked \cup {"label"},
           f.at \in Over /\ e.at \notin Over /\ e.id =>
              e.op # "none" \/ (Mux(e.req.path) = "oas" => Unserved(e.req))
    PROVE  Way(f)
<1>1. /\ f.req = e.req /\ f.label = e.label /\ f.op = e.op /\ f.arg = e.arg /\ f.asked = e.asked
      /\ f.id = e.id
  BY DEF Becoming, Fields
<1>2. ASSUME NEW leaf, Serves(leaf, e) PROVE Serves(leaf, f)
  BY <1>1, <1>2 DEF Serves
<1>3. f.op # "none" => \E leaf \in Found(f.req) : Serves(leaf, f)
  BY <1>1, <1>2 DEF Way
<1>4. f.at \in Unmarked => ~f.id
  BY <1>1 DEF Way
<1>5. f.at \notin Unmarked \cup {"label"} /\ f.id => f.label = Labelled(f.req)
  BY <1>1 DEF Way
<1>6. f.at \in Over /\ f.id /\ f.op = "none" /\ Mux(f.req.path) = "oas" => Unserved(f.req)
  BY <1>1 DEF Way
<1>7. f.asked # {} => f.op # "none" /\ f.asked = {<<f.op, f.arg>>}
  BY <1>1 DEF Way
<1> QED
  BY <1>3, <1>4, <1>5, <1>6, <1>7 DEF Way

\* A new exchange has no route.
LEMMA FreshWay ==
    ASSUME NEW call, NEW req
    PROVE  Way(Fresh(call, req))
  BY DEF Fresh, Way, Unmarked, Over

\* Nor has the one before the first.
LEMMA InitWay == Init => WayInv
<1> SUFFICES ASSUME Init PROVE WayInv
  OBVIOUS
<1> DEFINE e == Visit(Get(<<>>))
<1>1. Shaped(e) /\ Way(e) /\ e.at = "cache"
  BY FreshTold, FreshWay DEF Visit
<1>2. ex = Goto(e, "idle") /\ cache = {}
  BY DEF Init, Goto
<1> HIDE DEF e
<1>3. Becoming(e, ex, {"at"}) /\ ex.at = "idle"
  BY <1>1, <1>2, GotoOnly
<1>4. Becoming(e, ex, {"at", "hdr", "status", "ctype", "docs", "rec", "err", "fault", "said", "got"})
  BY <1>3 DEF Becoming
<1>5. Way(ex)
  BY <1>1, <1>3, <1>4, SameWay DEF Unmarked, Over
<1> QED
  BY <1>2, <1>5, InitTold DEF WayInv

\* The client and the middlewares.
LEMMA EarlyWay ==
    ASSUME WayInv, Ask \/ Follow \/ CORS \/ RateLimit \/ RequestID \/ Labeler
    PROVE  Way(ex') /\ UNCHANGED cache
<1> USE DEF WayInv
<1>1. CASE Ask \/ Follow
  BY <1>1, FreshWay DEF Ask, Follow, Visit, Becomes
<1>2. CASE CORS \/ RateLimit
  <2>1. /\ ex.at \in {"cors", "limit"} /\ ex'.at \in {"limit", "id", "deliver"} /\ UNCHANGED cache
        /\ Becoming(ex, ex', {"at", "hdr", "status", "ctype", "docs"})
    BY <1>2, CorsMoves, LimitMoves DEF Becoming
  <2>2. Becoming(ex, ex', {"at", "hdr", "status", "ctype", "docs", "rec", "err", "fault", "said", "got"})
    BY <2>1 DEF Becoming
  <2>3. ex.at \in Unmarked /\ ~ex.id
    BY <2>1 DEF Unmarked, Way
  <2> QED
    BY <2>1, <2>2, <2>3, SameWay
<1>3. CASE RequestID
  <2>1. ex.at = "id" /\ ex'.at = "label" /\ UNCHANGED cache /\ Becoming(ex, ex', {"at", "id"})
    BY <1>3, IdMoves
  <2>2. ex'.op = "none" /\ ex'.asked = {}
    BY <2>1 DEF Becoming, Fields, TellInv, Told, Outer, Silent
  <2> QED
    BY <2>1, <2>2 DEF Way, Unmarked, Over
<1>4. CASE Labeler
  <2>1. /\ ex.at = "label" /\ ex'.at = "mux" /\ UNCHANGED cache /\ Becoming(ex, ex', {"at", "label"})
        /\ ex'.label = Labelled(ex.req)
    BY <1>4, LabelMoves DEF Labelled
  <2>2. ex'.op = "none" /\ ex'.asked = {} /\ ex'.req = ex.req
    BY <2>1 DEF Becoming, Fields, TellInv, Told, Outer, Silent
  <2> QED
    BY <2>1, <2>2 DEF Way, Unmarked, Over
<1> QED
  BY <1>1, <1>2, <1>3, <1>4

\* The router.
LEMMA RouteWay ==
    ASSUME WayInv, Route
    PROVE  Way(ex')
<1>0. Shaped(ex) /\ Told(ex) /\ Way(ex) /\ TellInv
  BY DEF WayInv, TellInv
<1>1. ex.at = "mux"
  BY <1>0, RouteMoves
<1>2. ex.op = "none" /\ ex.asked = {} /\ (ex.id => ex.label = Labelled(ex.req))
  BY <1>0, <1>1 DEF Told, Outer, Silent, Way, Unmarked
<1>3. CASE /\ ex'.at = "deliver"
           /\ Becoming(ex, ex', {"at", "status", "ctype", "docs"})
           /\ Mux(ex.req.path) = "oas" => Unserved(ex.req)
  <2>1. Becoming(ex, ex', {"at", "hdr", "status", "ctype", "docs", "rec", "err", "fault", "said", "got"})
    BY <1>3 DEF Becoming
  <2> QED
    BY <1>0, <1>1, <1>3, <2>1, SameWay DEF Unmarked
<1>4. ASSUME NEW leaf \in Found(ex.req), leaf.method = ex.req.method,
             Becoming(ex, ex', {"at", "op", "arg"}),
             ex'.op = leaf.op, ex'.arg = leaf.arg, ex'.at = Steps(leaf.op)[1]
      PROVE  Way(ex')
  <2>1. leaf.op \in Ops /\ ex'.at \in Inner
    BY <1>4, FoundOps, FirstStep DEF Found
  <2>2. ex'.req = ex.req /\ ex'.label = ex.label /\ ex'.asked = {}
    BY <1>2, <1>4 DEF Becoming, Fields
  <2>3. ex'.id => ex.id
    BY <1>4 DEF Becoming, Fields
  <2>4. Serves(leaf, ex')
    BY <1>4, <2>2 DEF Serves
  <2> QED
    BY <1>2, <1>4, <2>1, <2>2, <2>3, <2>4 DEF Way, Unmarked, Inner, Over
<1>5. \/ /\ ex'.at = "deliver"
         /\ Becoming(ex, ex', {"at", "status", "ctype", "docs"})
         /\ Mux(ex.req.path) = "oas" => Unserved(ex.req)
      \/ \E leaf \in Found(ex.req) :
            /\ leaf.method = ex.req.method
            /\ Becoming(ex, ex', {"at", "op", "arg"})
            /\ ex'.op = leaf.op /\ ex'.arg = leaf.arg /\ ex'.at = Steps(leaf.op)[1]
  BY <1>0, RouteMoves DEF Found, Unserved, NotAllowed
<1> QED
  BY <1>3, <1>4, <1>5

\* The steps of an operation.
LEMMA ServedWay ==
    ASSUME WayInv, Security \/ DecodeParams \/ DecodeRequest \/ Handle \/ Encode \/ ErrorHandler \/ Recover
    PROVE  Way(ex')
<1>0. Shaped(ex) /\ Told(ex) /\ Way(ex) /\ TellInv
  BY DEF WayInv, TellInv
<1>1. CASE Security \/ DecodeParams \/ DecodeRequest
  <2>1. /\ ex.at \in {"security", "params", "decode"} /\ ex'.at \in {"decode", "handle", "error"}
        /\ Becoming(ex, ex', {"at", "arg", "err"})
        /\ ex.op # "placeOrder" => ex'.arg = ex.arg
    BY <1>0, <1>1, ChecksMove
  <2>2. ex.asked = {}
    BY <1>0, <2>1 DEF Told, Inner, Silent
  <2>3. /\ ex'.req = ex.req /\ ex'.label = ex.label /\ ex'.asked = {} /\ ex'.op = ex.op
        /\ ex'.id => ex.id
    BY <2>1, <2>2 DEF Becoming, Fields
  <2>4. ASSUME NEW leaf, Serves(leaf, ex) PROVE Serves(leaf, ex')
    BY <2>1, <2>3, <2>4 DEF Serves
  <2> QED
    BY <1>0, <2>1, <2>3, <2>4 DEF Way, Unmarked, Over
<1>2. CASE Handle
  <2>1. /\ ex.at = "handle" /\ ex'.at \in {"encode", "error", "panic"}
        /\ Becoming(ex, ex', {"at", "asked", "said", "fault", "err"})
        /\ ex'.asked = {<<ex.op, ex.arg>>}
    BY <1>0, <1>2, HandleMoves
  <2>2. ex.op \in Ops
    BY <1>0, <2>1 DEF Told, Inner
  <2>3. /\ ex'.req = ex.req /\ ex'.label = ex.label /\ ex'.arg = ex.arg /\ ex'.op = ex.op
        /\ ex'.id => ex.id
    BY <2>1 DEF Becoming, Fields
  <2>4. ASSUME NEW leaf, Serves(leaf, ex) PROVE Serves(leaf, ex')
    BY <2>1, <2>3, <2>4 DEF Serves
  <2> QED
    BY <1>0, <2>1, <2>2, <2>3, <2>4 DEF Way, Unmarked, Over, Ops
<1>3. CASE Encode \/ ErrorHandler \/ Recover
  <2>1. /\ ex.at \in {"encode", "error", "panic"} /\ ex'.at \in {"deliver", "error"}
        /\ Becoming(ex, ex', {"at", "rec", "status", "ctype", "docs", "fault", "err"})
    BY <1>0, <1>3, EncodeMoves, LastMoves DEF Becoming
  <2>2. Becoming(ex, ex', {"at", "hdr", "status", "ctype", "docs", "rec", "err", "fault", "said", "got"})
    BY <2>1 DEF Becoming
  <2>3. ex.op # "none"
    BY <1>0, <2>1 DEF Told, Ops
  <2> QED
    BY <1>0, <2>1, <2>2, <2>3, SameWay DEF Unmarked
<1> QED
  BY <1>1, <1>2, <1>3

\* The cache.
LEMMA CacheWay ==
    ASSUME WayInv, FromCache \/ Deliver
    PROVE  Way(ex')
<1>0. Shaped(ex) /\ Told(ex) /\ Way(ex) /\ TellInv /\ \A c \in cache : Kept(c) /\ Way(c)
  BY DEF WayInv, TellInv
<1>1. CASE ex.at = "cache" /\ ex'.at = "cors" /\ Becoming(ex, ex', {"at"})
  <2>1. Becoming(ex, ex', {"at", "hdr", "status", "ctype", "docs", "rec", "err", "fault", "said", "got"})
    BY <1>1 DEF Becoming
  <2> QED
    BY <1>0, <1>1, <2>1, SameWay DEF Unmarked, Over
<1>2. CASE \E c \in cache : /\ Fits(c) /\ Becoming(c, ex', {"req", "call", "hit"})
                            /\ ex'.req = ex.req /\ ex'.call = ex.call /\ ex'.hit
  <2>1. PICK c \in cache : Fits(c) /\ Becoming(c, ex', {"req", "call", "hit"}) /\ ex'.req = ex.req
    BY <1>2
  <2>2. c.at = "deliver" /\ Way(c) /\ c.req.method = ex.req.method /\ c.req.path = ex.req.path
    BY <1>0, <2>1 DEF Kept, Fits
  <2>3. /\ ex'.label = c.label /\ ex'.arg = c.arg /\ ex'.op = c.op /\ ex'.asked = c.asked
        /\ ex'.id => c.id
        /\ ex'.at = "deliver"
    BY <2>1, <2>2 DEF Becoming, Fields
  <2>4. Found(c.req) = Found(ex'.req) /\ Labelled(c.req) = Labelled(ex'.req) /\ Unserved(c.req) = Unserved(ex'.req)
    BY <2>1, <2>2 DEF Found, Labelled, Unserved
  <2>5. ASSUME NEW leaf, Serves(leaf, c) PROVE Serves(leaf, ex')
    BY <2>1, <2>2, <2>3, <2>5 DEF Serves
  <2>6. ex'.op # "none" => \E leaf \in Found(ex'.req) : Serves(leaf, ex')
    BY <2>2, <2>3, <2>4, <2>5 DEF Way
  <2>7. ex'.id => ex'.label = Labelled(ex'.req)
    BY <2>2, <2>3, <2>4 DEF Way, Unmarked
  <2>8. ex'.id /\ ex'.op = "none" /\ Mux(ex'.req.path) = "oas" => Unserved(ex'.req)
    BY <2>1, <2>2, <2>3, <2>4 DEF Way, Over
  <2>9. ex'.asked # {} => ex'.op # "none" /\ ex'.asked = {<<ex'.op, ex'.arg>>}
    BY <2>2, <2>3 DEF Way
  <2> QED
    BY <2>3, <2>6, <2>7, <2>8, <2>9 DEF Way, Unmarked
<1>3. CASE Deliver
  <2>1. ex.at = "deliver" /\ ex'.at = "answered" /\ Becoming(ex, ex', {"at", "got"})
    BY <1>0, <1>3, DeliverMoves
  <2>2. Becoming(ex, ex', {"at", "hdr", "status", "ctype", "docs", "rec", "err", "fault", "said", "got"})
    BY <2>1 DEF Becoming
  <2> QED
    BY <1>0, <2>1, <2>2, SameWay DEF Unmarked, Over
<1> QED
  BY <1>0, <1>1, <1>2, <1>3, CacheMoves

\* Every step keeps it.
LEMMA StepWay == WayInv /\ [Next]_vars => WayInv'
<1> SUFFICES ASSUME WayInv, [Next]_vars PROVE WayInv'
  OBVIOUS
<1>0. TellInv /\ TellInv'
  BY StepTold DEF WayInv
<1>1. CASE UNCHANGED <<ex, cache>>
  BY <1>0, <1>1 DEF WayInv
<1>2. CASE Deliver
  <2>1. \A c \in cache' : c \in cache \/ c = ex
    BY <1>0, <1>2, DeliverMoves
  <2> QED
    BY <1>0, <1>2, <2>1, CacheWay DEF WayInv
<1>3. CASE Ask \/ Follow \/ CORS \/ RateLimit \/ RequestID \/ Labeler
  BY <1>0, <1>3, EarlyWay DEF WayInv
<1>4. CASE Route
  BY <1>0, <1>4, RouteWay, RouteMoves DEF WayInv
<1>5. CASE Security \/ DecodeParams \/ DecodeRequest
  BY <1>0, <1>5, ServedWay, ChecksMove DEF WayInv
<1>6. CASE Handle \/ Encode \/ ErrorHandler \/ Recover
  BY <1>0, <1>6, ServedWay, HandleMoves, EncodeMoves, LastMoves DEF WayInv
<1>7. CASE FromCache
  BY <1>0, <1>7, CacheWay, CacheMoves DEF WayInv
<1> QED
  BY <1>1, <1>2, <1>3, <1>4, <1>5, <1>6, <1>7 DEF Next, vars

\* In every behaviour an operation that is served is the one the router found
\* for that method and path, the handler is asked once and with its arguments,
\* and the label is what FindPath made of the same URL.
THEOREM RoutedRight == Spec => []WayInv
  BY InitWay, StepWay, PTL DEF Spec
----------------------------------------------------------------------------
(* Paths, their encoding, and the two copies of the router.                *)

\* Paths: characters, each with whether it is written as an escape.
Path == Seq(Alphabet \X BOOLEAN)

\* No percent sign stands by itself.
WellFormed(path) == path \in Path /\ \A i \in DOMAIN path : path[i] # <<"%2F", FALSE>>

\* The pieces of a sequence.
LEMMA Parts ==
    ASSUME NEW S, NEW s \in Seq(S), NEW a \in Int, a >= 1, NEW b \in Int, b <= Len(s)
    PROVE  /\ SubSeq(s, a, b) \in Seq(S)
           /\ \A i \in DOMAIN SubSeq(s, a, b) : i + a - 1 \in DOMAIN s /\ SubSeq(s, a, b)[i] = s[i + a - 1]
  OBVIOUS

\* normalizeURL keeps the characters and the escapes of slash and percent sign.
LEMMA NormalizedType ==
    ASSUME NEW path \in Path
    PROVE  /\ Normalized(path) \in Path /\ DOMAIN Normalized(path) = DOMAIN path
           /\ \A i \in DOMAIN path : Normalized(path)[i][1] = path[i][1]
           /\ \A i \in DOMAIN path : Normalized(path)[i][2] <=> path[i][2] /\ path[i][1] \in {"/", "%2F"}
<1>1. \A i \in 1..Len(path) : path[i][1] \in Alphabet /\ path[i][2] \in BOOLEAN
  BY DEF Path
<1> DEFINE esc == [i \in DOMAIN path |-> path[i][2] /\ path[i][1] \in {"/", "%2F"}]
<1>2. \A i \in DOMAIN path : esc[i] \in BOOLEAN /\ (esc[i] <=> path[i][2] /\ path[i][1] \in {"/", "%2F"})
  OBVIOUS
<1>3. Normalized(path) = [i \in DOMAIN path |-> <<path[i][1], esc[i]>>]
  BY DEF Normalized
<1> HIDE DEF esc
<1>4. Len(path) \in Nat /\ DOMAIN path = 1..Len(path)
  BY DEF Path
<1>5. Normalized(path) \in Path
  BY <1>1, <1>2, <1>3, <1>4 DEF Path
<1> QED
  BY <1>2, <1>3, <1>5

\* A text with one flag for all its characters.
LEMMA Flagged ==
    ASSUME NEW c \in Seq(Alphabet), NEW flag \in BOOLEAN
    PROVE  /\ [i \in DOMAIN c |-> <<c[i], flag>>] \in Path
           /\ Len([i \in DOMAIN c |-> <<c[i], flag>>]) = Len(c)
           /\ \A i \in DOMAIN c : [j \in DOMAIN c |-> <<c[j], flag>>][i][1] = c[i]
           /\ \A i \in DOMAIN c : [j \in DOMAIN c |-> <<c[j], flag>>][i][2] = flag
  BY DEF Path

\* A decoded path has no escapes.
LEMMA PlainType ==
    ASSUME NEW c \in Seq(Alphabet)
    PROVE  /\ Plain(c) \in Path /\ DOMAIN Plain(c) = DOMAIN c /\ Len(Plain(c)) = Len(c)
           /\ \A i \in DOMAIN c : Plain(c)[i] = <<c[i], FALSE>>
           /\ \A i \in DOMAIN c : Plain(c)[i][1] = c[i]
           /\ ~Escaped(Plain(c))
<1>1. FALSE \in BOOLEAN
  OBVIOUS
<1>2. Plain(c) \in Path /\ Len(Plain(c)) = Len(c)
  BY <1>1, Flagged DEF Plain
<1>3. DOMAIN Plain(c) = DOMAIN c /\ \A i \in DOMAIN c : Plain(c)[i] = <<c[i], FALSE>>
  BY DEF Plain
<1>4. \A i \in DOMAIN c : Plain(c)[i][1] = c[i]
  BY <1>1, Flagged DEF Plain
<1>5. \A i \in DOMAIN c : Plain(c)[i][2] = FALSE
  BY <1>1, Flagged DEF Plain
<1> QED
  BY <1>2, <1>3, <1>4, <1>5 DEF Escaped

\* The characters of a path.
LEMMA CharsType ==
    ASSUME NEW path \in Path
    PROVE  Chars(path) \in Seq(Alphabet) /\ DOMAIN Chars(path) = DOMAIN path /\ Len(Chars(path)) = Len(path)
  BY DEF Path, Chars

\* Unescaping a well-formed path leaves its characters.
LEMMA UnescapedChars ==
    ASSUME NEW path \in Path
    PROVE  /\ DOMAIN PathUnescape(path) = DOMAIN path
           /\ \A i \in DOMAIN path : path[i] # <<"%2F", FALSE>> => PathUnescape(path)[i][1] = path[i][1]
           /\ (\A i \in DOMAIN path : path[i] # <<"%2F", FALSE>>) => Chars(PathUnescape(path)) = Chars(path)
<1>1. DOMAIN PathUnescape(path) = DOMAIN path
  BY DEF PathUnescape
<1>2. ASSUME NEW i \in DOMAIN path, path[i] # <<"%2F", FALSE>>
      PROVE  PathUnescape(path)[i][1] = path[i][1]
  <2>1. PathUnescape(path)[i] = <<path[i][1], FALSE>>
    BY <1>2 DEF PathUnescape
  <2> QED
    BY <2>1
<1> QED
  BY <1>1, <1>2 DEF Chars

\* The path that both copies of the router look at.
Elem(url) == IF url.raw = <<>> THEN url.path ELSE Normalized(url.raw)

\* An argument is a piece of the path.
LEMMA LeafArg ==
    ASSUME NEW elem \in Path, NEW l \in Leaf(CutPrefix(elem))
    PROVE  /\ l.arg \in Path
           /\ \A i \in DOMAIN l.arg : \E j \in DOMAIN elem : l.arg[i] = elem[j]
<1>1. CutPrefix(elem) \in Path /\ \A i \in DOMAIN CutPrefix(elem) : \E j \in DOMAIN elem : CutPrefix(elem)[i] = elem[j]
  <2>1. Len(elem) \in Nat /\ <<>> \in Path
    BY DEF Path
  <2>2. /\ SubSeq(elem, 3, Len(elem)) \in Path
        /\ \A i \in DOMAIN SubSeq(elem, 3, Len(elem)) : i + 3 - 1 \in DOMAIN elem /\ SubSeq(elem, 3, Len(elem))[i] = elem[i + 3 - 1]
    BY <2>1, Parts DEF Path
  <2> QED
    BY <2>1, <2>2 DEF CutPrefix
<1> DEFINE cut == CutPrefix(elem)
<1>2. Len(cut) \in Nat /\ <<>> \in Path
  BY <1>1 DEF Path
<1>3. /\ SubSeq(cut, 4, Len(cut)) \in Path
      /\ \A i \in DOMAIN SubSeq(cut, 4, Len(cut)) : i + 4 - 1 \in DOMAIN cut /\ SubSeq(cut, 4, Len(cut))[i] = cut[i + 4 - 1]
  BY <1>1, <1>2, Parts DEF Path
<1>4. l.arg = <<>> \/ l.arg = SubSeq(cut, 4, Len(cut))
  BY DEF Leaf
<1> HIDE DEF cut
<1>5. CASE l.arg = <<>>
  BY <1>2, <1>5
<1>6. CASE l.arg = SubSeq(cut, 4, Len(cut))
  BY <1>1, <1>3, <1>6 DEF cut
<1> QED
  BY <1>4, <1>5, <1>6

\* What net/url makes of a well-formed path.
LEMMA UrlType ==
    ASSUME NEW path, WellFormed(path)
    PROVE  /\ URL(path).path = Plain(Chars(path)) /\ URL(path).raw \in {<<>>, path}
           /\ Elem(URL(path)) \in Path
           /\ URL(path).raw = <<>> => ~Escaped(Elem(URL(path)))
           /\ URL(path).raw # <<>> => URL(path).raw = path /\ Elem(URL(path)) = Normalized(path)
<1>1. Chars(path) \in Seq(Alphabet)
  BY CharsType DEF WellFormed
<1>2. Plain(Chars(path)) \in Path /\ ~Escaped(Plain(Chars(path)))
  BY <1>1, PlainType
<1>3. Normalized(path) \in Path
  BY NormalizedType DEF WellFormed
<1>4. URL(path).path = Plain(Chars(path)) /\ URL(path).raw = IF path = DefaultEncoding(path) THEN <<>> ELSE path
  BY DEF URL
<1> QED
  BY <1>2, <1>3, <1>4 DEF Elem

\* A character is escaped or not.
LEMMA FlagIs ==
    ASSUME NEW x, x \in Alphabet \X BOOLEAN
    PROVE  (x[2] /\ x = <<x[1], TRUE>>) \/ (~x[2] /\ x = <<x[1], FALSE>>)
<1>1. x = <<x[1], x[2]>> /\ x[2] \in BOOLEAN
  OBVIOUS
<1>2. ASSUME NEW a, NEW b \in BOOLEAN, x = <<a, b>>
      PROVE  (b /\ x = <<a, TRUE>>) \/ (~b /\ x = <<a, FALSE>>)
  BY Zenon, <1>2
<1> QED
  BY Zenon, <1>1, <1>2

\* Both copies of the router take the same argument from a path.
LEMMA ArgumentsAgree ==
    ASSUME NEW path, WellFormed(path), NEW l \in Leaf(CutPrefix(Elem(URL(path))))
    PROVE  Argument(l.arg, Elem(URL(path))) =
               Chars(IF URL(path).raw = <<>> THEN l.arg ELSE PathUnescape(l.arg))
<1> DEFINE url == URL(path)
           elem == Elem(url)
<1>1. elem \in Path /\ (url.raw = <<>> => ~Escaped(elem)) /\ (url.raw # <<>> => elem = Normalized(path))
  BY UrlType
<1>2. CASE url.raw = <<>>
  BY <1>1, <1>2 DEF Argument
<1>3. CASE url.raw # <<>> /\ Escaped(elem)
  BY <1>3 DEF Argument
<1>4. CASE url.raw # <<>> /\ ~Escaped(elem)
  <2>1. /\ DOMAIN elem = DOMAIN path
        /\ \A i \in DOMAIN path : elem[i][1] = path[i][1]
        /\ \A i \in DOMAIN path : elem[i][2] <=> path[i][2] /\ path[i][1] \in {"/", "%2F"}
    BY <1>1, <1>4, NormalizedType DEF WellFormed
  <2>2. \A i \in DOMAIN elem : ~elem[i][2]
    BY <1>4 DEF Escaped
  <2>3. ASSUME NEW i \in DOMAIN elem PROVE elem[i][1] # "%2F"
    <3>1. SUFFICES ASSUME path[i][1] = "%2F" PROVE FALSE
      BY <2>1
    <3>2. ~path[i][2] /\ path[i] \in Alphabet \X BOOLEAN
      BY <2>1, <2>2, <3>1 DEF WellFormed, Path
    <3>3. path[i] = <<"%2F", FALSE>>
      BY <3>1, <3>2, FlagIs
    <3> QED
      BY <2>1, <3>3 DEF WellFormed
  <2>4. l.arg \in Path /\ \A i \in DOMAIN l.arg : \E j \in DOMAIN elem : l.arg[i] = elem[j]
    BY <1>1, LeafArg
  <2>5. \A i \in DOMAIN l.arg : l.arg[i][1] # "%2F"
    BY <2>3, <2>4
  <2>6. \A i \in DOMAIN l.arg : l.arg[i] # <<"%2F", FALSE>>
    <3> SUFFICES ASSUME NEW i \in DOMAIN l.arg, l.arg[i] = <<"%2F", FALSE>> PROVE FALSE
      OBVIOUS
    <3>1. l.arg[i][1] = "%2F"
      OBVIOUS
    <3> QED
      BY <2>5, <3>1
  <2>7. Chars(PathUnescape(l.arg)) = Chars(l.arg)
    BY <2>4, <2>6, UnescapedChars
  <2> QED
    BY <1>4, <2>7 DEF Argument
<1> QED
  BY <1>2, <1>3, <1>4

\* A path has one leaf at most.
LEMMA OneLeaf ==
    ASSUME NEW elem, NEW l \in Leaf(elem)
    PROVE  Leaf(elem) = {l} /\ l = [op |-> l.op, method |-> l.method, arg |-> l.arg]
<1>1. \E o, m, a : Leaf(elem) = {[op |-> o, method |-> m, arg |-> a]}
  <2> DEFINE Is(o, m, a) == Leaf(elem) = {[op |-> o, method |-> m, arg |-> a]}
  <2>1. \/ Is("placeOrder", "POST", <<>>) \/ Is("listProducts", "GET", <<>>)
        \/ Is("getProduct", "GET", SubSeq(elem, 4, Len(elem)))
    BY DEF Leaf
  <2> QED
    BY <2>1
<1> QED
  BY <1>1

\* FindPath knows the leaf that ServeHTTP goes to, by its method.
LEMMA RoutersAgree ==
    ASSUME NEW req, WellFormed(req.path)
    PROVE  /\ \A leaf \in Found(req) : leaf.method = req.method =>
                 Labelled(req) = {[op |-> leaf.op, arg |-> leaf.arg]}
           /\ Unserved(req) => Labelled(req) = {}
<1> DEFINE url == URL(req.path)
           elem == Elem(url)
           leaves == Leaf(CutPrefix(elem))
           Arg(l) == Chars(IF url.raw = <<>> THEN l.arg ELSE PathUnescape(l.arg))
<1>1. Found(req) = {[op |-> l.op, method |-> l.method, arg |-> Argument(l.arg, elem)] : l \in leaves}
  BY DEF Found, ServeHTTP, Elem
<1>2. Labelled(req) = {[op |-> l.op, arg |-> Arg(l)] : l \in {k \in leaves : k.method = req.method}}
  BY DEF Labelled, FindPath, Elem
<1>3. \A l \in leaves : Argument(l.arg, elem) = Arg(l) /\ leaves = {l}
  BY ArgumentsAgree, OneLeaf
<1> HIDE DEF leaves, Arg, elem
<1>4. ASSUME NEW leaf \in Found(req), leaf.method = req.method
      PROVE  Labelled(req) = {[op |-> leaf.op, arg |-> leaf.arg]}
  <2>1. PICK l \in leaves : leaf = [op |-> l.op, method |-> l.method, arg |-> Argument(l.arg, elem)]
    BY <1>1
  <2>2. leaf.op = l.op /\ leaf.arg = Arg(l) /\ l.method = req.method
    BY <1>3, <1>4, <2>1
  <2>3. {k \in leaves : k.method = req.method} = {l}
    BY <1>3, <2>2
  <2> QED
    BY <1>2, <2>2, <2>3
<1>5. ASSUME Unserved(req) PROVE Labelled(req) = {}
  <2>1. ASSUME NEW k \in leaves PROVE k.method # req.method
    <3> DEFINE leaf == [op |-> k.op, method |-> k.method, arg |-> Argument(k.arg, elem)]
    <3>1. Found(req) = {leaf} /\ leaf.method = k.method
      BY <1>1, <1>3
    <3> QED
      BY <1>5, <3>1 DEF Unserved
  <2> QED
    BY <1>2, <2>1
<1> QED
  BY <1>4, <1>5

\* A character that is not escaped.
C(c) == <<c, FALSE>>

\* The characters of a well-formed path.
Glyph == {x \in Alphabet \X BOOLEAN : x # C("%2F")}

\* A character that stands by itself.
LEMMA GlyphOf == \A c \in Alphabet : C(c) \in Alphabet \X BOOLEAN /\ C(c)[1] = c /\ (c # "%2F" => C(c) \in Glyph)
<1>1. ASSUME NEW a \in Alphabet, NEW flag \in BOOLEAN
      PROVE  <<a, flag>> \in Alphabet \X BOOLEAN /\ <<a, flag>>[1] = a
  OBVIOUS
<1>2. FALSE \in BOOLEAN
  OBVIOUS
<1>3. \A c \in Alphabet : C(c) \in Alphabet \X BOOLEAN /\ C(c)[1] = c
  BY <1>1, <1>2 DEF C
<1> DEFINE P == Alphabet \X BOOLEAN
           bad == C("%2F")
<1>4. Glyph = {x \in P : x # bad}
  BY Zenon DEF Glyph
<1>5. "%2F" \in Alphabet
  BY AlphabetAssumption
<1>6. bad[1] = "%2F" /\ \A c \in Alphabet : C(c) \in P
  BY <1>3, <1>5, Zenon
<1> HIDE DEF P, bad
<1>7. \A c \in Alphabet : c # "%2F" => C(c) \in Glyph
  BY <1>3, <1>4, <1>6
<1> QED
  BY <1>3, <1>7

\* A function applied to each element.
LEMMA Spread ==
    ASSUME NEW A, NEW B, NEW f \in [A -> B], NEW s \in Seq(A)
    PROVE  [i \in DOMAIN s |-> f[s[i]]] \in Seq(B) /\ Len([i \in DOMAIN s |-> f[s[i]]]) = Len(s)
  OBVIOUS

\* Well-formed paths are the sequences of glyphs.
LEMMA GlyphPath ==
    ASSUME NEW path
    PROVE  WellFormed(path) <=> path \in Seq(Glyph)
<1>1. ASSUME NEW S, NEW bad, NEW p
      PROVE  p \in Seq({x \in S : x # bad}) <=> p \in Seq(S) /\ \A i \in DOMAIN p : p[i] # bad
  OBVIOUS
<1> DEFINE P == Alphabet \X BOOLEAN
           bad == C("%2F")
<1>2. path \in Seq({x \in P : x # bad}) <=> path \in Seq(P) /\ \A i \in DOMAIN path : path[i] # bad
  <2> HIDE DEF P, bad
  <2> QED
    BY <1>1
<1> QED
  BY <1>2, Zenon DEF WellFormed, Path, Glyph, C

\* The characters that no unescaping changes.
Safe == {a \in Alphabet : a # "%2F"}

\* Text without a percent sign is a path as it stands.
LEMMA PlainGlyphs ==
    ASSUME NEW c \in Seq(Safe)
    PROVE  Plain(c) \in Seq(Glyph) /\ Len(Plain(c)) = Len(c) /\ \A i \in DOMAIN c : Plain(c)[i] = C(c[i])
<1> DEFINE A == Safe
           f == [a \in A |-> C(a)]
<1>1. f \in [A -> Glyph]
  BY GlyphOf DEF Safe
<1>2. \A i \in DOMAIN c : c[i] \in A
  OBVIOUS
<1>3. Plain(c) = [i \in DOMAIN c |-> f[c[i]]]
  BY <1>2 DEF Plain, C
<1> HIDE DEF A, f
<1>4. [i \in DOMAIN c |-> f[c[i]]] \in Seq(Glyph) /\ Len([i \in DOMAIN c |-> f[c[i]]]) = Len(c)
  BY <1>1, Spread DEF A
<1> QED
  BY <1>3, <1>4 DEF Plain, C


\* An encoded id has the characters of the id, and no slash of its own.
LEMMA EncodedGlyphs ==
    ASSUME NEW id \in Seq(Alphabet)
    PROVE  /\ EncodePath(id) \in Seq(Glyph) /\ Len(EncodePath(id)) = Len(id)
           /\ \A i \in DOMAIN id : EncodePath(id)[i][1] = id[i] /\ EncodePath(id)[i] # C("/")
<1> DEFINE f == [a \in Alphabet |-> <<a, a \in {"/", "%2F"}>>]
<1>1. ASSUME NEW a \in Alphabet, NEW flag \in BOOLEAN
      PROVE  <<a, flag>> \in Alphabet \X BOOLEAN /\ <<a, flag>>[1] = a /\ <<a, flag>>[2] = flag
  OBVIOUS
<1>2. EncodePath(id) = [i \in DOMAIN id |-> f[id[i]]]
  BY DEF EncodePath
<1>a. \A a \in Alphabet : f[a] = <<a, a \in {"/", "%2F"}>>
  BY Zenon
<1> HIDE DEF f
<1>b. ASSUME NEW a \in Alphabet
      PROVE  f[a] \in Alphabet \X BOOLEAN /\ f[a][1] = a /\ (f[a][2] <=> a \in {"/", "%2F"})
  <2>1. CASE a \in {"/", "%2F"}
    <3>1. f[a] = <<a, TRUE>>
      BY <1>a, <2>1, Zenon
    <3>2. TRUE \in BOOLEAN
      OBVIOUS
    <3> QED
      BY <1>1, <2>1, <3>1, <3>2, Zenon
  <2>2. CASE a \notin {"/", "%2F"}
    <3>0. (a \in {"/", "%2F"}) = FALSE
      BY <2>2
    <3>1. f[a] = <<a, FALSE>>
      BY <1>a, <3>0, Zenon
    <3>2. FALSE \in BOOLEAN
      OBVIOUS
    <3> QED
      BY <1>1, <2>2, <3>1, <3>2, Zenon
  <2> QED
    BY <2>1, <2>2, Zenon
<1>3. C("/")[1] = "/" /\ ~C("/")[2] /\ C("%2F")[1] = "%2F" /\ ~C("%2F")[2]
  BY Zenon DEF C
<1> DEFINE P == Alphabet \X BOOLEAN
<1>5. \A a \in Alphabet : f[a] \in P /\ f[a][1] = a /\ (f[a][2] <=> a \in {"/", "%2F"})
  BY <1>b, Zenon
<1> HIDE DEF P
<1>6. \A a \in Alphabet : f[a] # C("/") /\ f[a] # C("%2F")
  BY <1>3, <1>5
<1>7. Glyph = {x \in P : x # C("%2F")}
  BY Zenon DEF Glyph, P
<1>8. \A a \in Alphabet : f[a] \in Glyph
  BY <1>5, <1>6, <1>7
<1> DEFINE g == [a \in Alphabet |-> f[a]]
<1>9. g \in [Alphabet -> Glyph] /\ EncodePath(id) = [i \in DOMAIN id |-> g[id[i]]] /\ \A a \in Alphabet : g[a] = f[a]
  BY <1>2, <1>8
<1> HIDE DEF g
<1>10. EncodePath(id) \in Seq(Glyph) /\ Len(EncodePath(id)) = Len(id)
  BY <1>9, Spread
<1>11. \A i \in DOMAIN id : id[i] \in Alphabet /\ EncodePath(id)[i] = f[id[i]]
  BY <1>2
<1> QED
  BY <1>5, <1>6, <1>10, <1>11

\* The words of the routes hold no percent sign.
LEMMA SafeWords ==
    {"/", "api", "product", "order", "livez", "readyz", ".", ".."} \subseteq Safe
  BY AlphabetAssumption DEF Safe

\* Text of one, two and three words.
LEMMA PlainOne ==
    ASSUME NEW a \in Safe
    PROVE  Plain(<<a>>) \in Seq(Glyph) /\ Len(Plain(<<a>>)) = 1
<1> DEFINE c == <<a>>
<1>1. c \in Seq(Safe) /\ Len(c) = 1
  OBVIOUS
<1> HIDE DEF c
<1>2. Plain(c) \in Seq(Glyph) /\ Len(Plain(c)) = 1
  BY <1>1, PlainGlyphs
<1> QED
  BY <1>2 DEF c

\* The glyphs of a path of two characters.
LEMMA PlainTwo ==
    ASSUME NEW a \in Safe, NEW b \in Safe
    PROVE  /\ Plain(<<a, b>>) \in Seq(Glyph) /\ Len(Plain(<<a, b>>)) = 2
           /\ Plain(<<a, b>>)[1] = C(a) /\ Plain(<<a, b>>)[2] = C(b)
<1> DEFINE c == <<a, b>>
<1>1. c \in Seq(Safe) /\ Len(c) = 2 /\ c[1] = a /\ c[2] = b
  OBVIOUS
<1> HIDE DEF c
<1>2. /\ Plain(c) \in Seq(Glyph) /\ Len(Plain(c)) = 2
      /\ Plain(c)[1] = C(a) /\ Plain(c)[2] = C(b)
  BY <1>1, PlainGlyphs
<1> QED
  BY <1>2 DEF c

\* And of one of three.
LEMMA PlainThree ==
    ASSUME NEW a \in Safe, NEW b \in Safe, NEW d \in Safe
    PROVE  Plain(<<a, b, d>>) \in Seq(Glyph) /\ Len(Plain(<<a, b, d>>)) = 3
<1> DEFINE c == <<a, b, d>>
<1>1. c \in Seq(Safe) /\ Len(c) = 3
  OBVIOUS
<1> HIDE DEF c
<1>2. Plain(c) \in Seq(Glyph) /\ Len(Plain(c)) = 3
  BY <1>1, PlainGlyphs
<1> QED
  BY <1>2 DEF c

\* Two sequences, one after the other.
LEMMA Joined ==
    ASSUME NEW S, NEW s \in Seq(S), NEW t \in Seq(S)
    PROVE  /\ s \o t \in Seq(S) /\ Len(s \o t) = Len(s) + Len(t)
           /\ \A i \in 1..Len(s) : (s \o t)[i] = s[i]
           /\ \A i \in 1..Len(t) : (s \o t)[Len(s) + i] = t[i]
  OBVIOUS

\* The URLs of the two operations without a parameter.
LEMMA Addresses ==
    /\ Server \in Seq(Glyph) /\ Len(Server) = 2
    /\ ProductsURL \in Seq(Glyph) /\ Len(ProductsURL) = 4
    /\ OrderURL \in Seq(Glyph) /\ Len(OrderURL) = 4
<1>1. Server \in Seq(Glyph) /\ Len(Server) = 2
  BY PlainTwo, SafeWords DEF Server
<1>2. ASSUME NEW b \in Safe
      PROVE  Server \o Plain(<<"/", b>>) \in Seq(Glyph) /\ Len(Server \o Plain(<<"/", b>>)) = 4
  <2> DEFINE p == Plain(<<"/", b>>)
  <2>1. p \in Seq(Glyph) /\ Len(p) = 2
    BY PlainTwo, SafeWords
  <2> HIDE DEF p
  <2>2. Server \in Seq(Glyph) /\ Len(Server) = 2
    BY <1>1
  <2>3. Server \o p \in Seq(Glyph) /\ Len(Server \o p) = Len(Server) + Len(p)
    BY <2>1, <2>2, Joined
  <2> QED
    BY <2>1, <2>2, <2>3 DEF p
<1>3. "product" \in Safe /\ "order" \in Safe
  BY SafeWords
<1> QED
  BY <1>1, <1>2, <1>3 DEF ProductsURL, OrderURL

\* The URL of a product: five words, then the id, encoded.
LEMMA ProductAddress ==
    ASSUME NEW id \in Seq(Alphabet)
    PROVE  /\ ProductURL(id) \in Seq(Glyph) /\ Len(ProductURL(id)) = 5 + Len(id)
           /\ \A i \in 1..Len(id) : ProductURL(id)[5 + i] = EncodePath(id)[i]
<1> DEFINE p == Plain(<<"/", "product", "/">>)
           e == EncodePath(id)
           f == Server \o p
<1>1. p \in Seq(Glyph) /\ Len(p) = 3
  BY PlainThree, SafeWords
<1>2. e \in Seq(Glyph) /\ Len(e) = Len(id) /\ Server \in Seq(Glyph) /\ Len(Server) = 2 /\ Len(id) \in Nat
  BY EncodedGlyphs, Addresses
<1>3. ProductURL(id) = f \o e
  BY DEF ProductURL
<1> HIDE DEF p, e
<1>4. f \in Seq(Glyph) /\ Len(f) = 5
  <2>1. f \in Seq(Glyph) /\ Len(f) = Len(Server) + Len(p)
    BY <1>1, <1>2, Joined, Zenon
  <2> QED
    BY <1>1, <1>2, <2>1
<1> HIDE DEF f
<1>5. /\ f \o e \in Seq(Glyph) /\ Len(f \o e) = 5 + Len(id)
      /\ \A i \in 1..Len(id) : (f \o e)[5 + i] = e[i]
  <2>1. /\ f \o e \in Seq(Glyph) /\ Len(f \o e) = Len(f) + Len(e)
        /\ \A i \in 1..Len(e) : (f \o e)[Len(f) + i] = e[i]
    <3>1. e \in Seq(Glyph) /\ f \in Seq(Glyph)
      BY <1>2, <1>4
    <3> QED
      BY <3>1, Joined
  <2> QED
    BY <1>2, <1>4, <2>1
<1> QED
  BY <1>3, <1>5 DEF e

\* The beginning of a sequence.
LEMMA Piece ==
    ASSUME NEW S, NEW s \in Seq(S), NEW b \in Int, b <= Len(s)
    PROVE  /\ SubSeq(s, 1, b) \in Seq(S) /\ Len(SubSeq(s, 1, b)) <= Len(s)
           /\ b >= 0 => Len(SubSeq(s, 1, b)) = b
  OBVIOUS

\* Max is the greatest element.
LEMMA GreatestOf ==
    ASSUME NEW s, s \subseteq Int, s # {}, IsFiniteSet(s)
    PROVE  Max(s) \in s /\ \A x \in s : x <= Max(s)
<1>1. PICK m \in s : \A x \in s : x <= m
  BY FiniteMax
<1>2. m \in s /\ \A y \in s : m >= y
  BY <1>1
<1> QED
  BY <1>2 DEF Max

\* A parent directory is no longer than its child.
LEMMA AboveLess ==
    ASSUME NEW S, NEW s \in Seq(S)
    PROVE  Above(s) \in Seq(S) /\ Len(Above(s)) <= Len(s)
<1> DEFINE d == {i \in DOMAIN s : s[i] = <<"/", FALSE>>}
           slashes == {1} \cup d
           m == Max(slashes)
<1>1. Len(s) \in Nat /\ DOMAIN s = 1..Len(s)
  OBVIOUS
<1>a. d \subseteq DOMAIN s
  BY Zenon
<1>b. Above(s) = SubSeq(s, 1, m - 1)
  BY DEF Above
<1> HIDE DEF d
<1>2. slashes \subseteq 1..(Len(s) + 1) /\ slashes # {} /\ slashes \subseteq Int
  BY <1>1, <1>a
<1>3. IsFiniteSet(slashes)
  <2>1. IsFiniteSet(1..(Len(s) + 1))
    BY <1>1, FS_Interval
  <2> QED
    BY <1>2, <2>1, FS_Subset, Zenon
<1>4. m \in slashes
  BY <1>2, <1>3, GreatestOf
<1> HIDE DEF m
<1>c. m \in 1..(Len(s) + 1)
  BY <1>2, <1>4
<1>5. m - 1 \in Int /\ m - 1 <= Len(s)
  BY <1>1, <1>c
<1> HIDE DEF m
<1> QED
  BY <1>b, <1>5, Piece

\* A path that ends in two given words.
LEMMA SuffixTwo ==
    ASSUME NEW S, NEW s \in Seq(S), Len(s) = 2, NEW t \in Seq(S), IsSuffix(s, t)
    PROVE  Len(t) >= 2 /\ t[Len(t) - 1] = s[1] /\ t[Len(t)] = s[2]
<1> DEFINE r == Reverse(s)
           q == Reverse(t)
<1>1. r = [i \in 1..2 |-> s[(2 - i) + 1]] /\ q = [i \in 1..Len(t) |-> t[(Len(t) - i) + 1]]
  BY DEF Reverse
<1>a. s[1] \in S /\ s[2] \in S
  <2>1. \A i \in 1..2 : s[i] \in S
    BY SMTT(30)
  <2> QED
    BY <2>1
<1>2. r \in Seq(S) /\ Len(r) = 2 /\ r[2] = s[1] /\ r[1] = s[2]
  <2>1. \A i \in 1..2 : (2 - i) + 1 \in 1..2
    OBVIOUS
  <2>2. \A i \in 1..2 : r[i] \in S
    BY <1>1, <2>1, <1>a
  <2> QED
    BY <1>1, <2>2
<1>3. q \in Seq(S) /\ Len(q) = Len(t) /\ (Len(t) >= 2 => q[2] = t[Len(t) - 1] /\ q[1] = t[Len(t)])
  BY <1>1
<1> HIDE DEF r, q
<1>4. Len(r) <= Len(q) /\ SubSeq(r, 1, 2) = SubSeq(q, 1, 2)
  BY <1>2 DEF IsSuffix, IsPrefix, r, q
<1>5. /\ SubSeq(r, 1, 2)[2] = r[2] /\ SubSeq(q, 1, 2)[2] = q[2]
      /\ SubSeq(r, 1, 2)[1] = r[1] /\ SubSeq(q, 1, 2)[1] = q[1]
  BY <1>2, <1>3, <1>4
<1> QED
  BY <1>2, <1>3, <1>4, <1>5

\* A path that ends in dots loses them and the slash before them.
LEMMA DotsLess ==
    ASSUME NEW s \in Seq(Glyph)
    PROVE  \/ DotsGone(s) = s
           \/ /\ DotsGone(s) \in Seq(Glyph) /\ Len(DotsGone(s)) <= Len(s) - 2
              /\ Len(s) >= 2 /\ s[Len(s) - 1] = C("/")
<1>1. ASSUME NEW d \in {".", ".."}, IsSuffix(Plain(<<"/", d>>), s)
      PROVE  /\ Len(s) >= 2 /\ s[Len(s) - 1] = C("/")
             /\ Without(s) \in Seq(Glyph) /\ Len(Without(s)) = Len(s) - 2
             /\ Above(Without(s)) \in Seq(Glyph) /\ Len(Above(Without(s))) <= Len(s) - 2
  <2>1. /\ Plain(<<"/", d>>) \in Seq(Glyph) /\ Len(Plain(<<"/", d>>)) = 2
        /\ Plain(<<"/", d>>)[1] = C("/")
    BY PlainTwo, SafeWords
  <2>2. Len(s) >= 2 /\ s[Len(s) - 1] = C("/")
    BY <1>1, <2>1, SuffixTwo
  <2>a. Without(s) = SubSeq(s, 1, Len(s) - 2) /\ Len(s) \in Nat /\ Len(s) - 2 \in Int /\ Len(s) - 2 >= 0 /\ Len(s) - 2 <= Len(s)
    BY <2>2 DEF Without
  <2>3. Without(s) \in Seq(Glyph) /\ Len(Without(s)) = Len(s) - 2
    BY ZenonT(30), <2>a, Piece
  <2> QED
    BY <2>2, <2>3, AboveLess
<1>2. \/ DotsGone(s) = s
      \/ \E d \in {".", ".."} : /\ IsSuffix(Plain(<<"/", d>>), s)
                               /\ DotsGone(s) \in {Without(s), Above(Without(s))}
  BY DEF DotsGone
<1> QED
  BY <1>1, <1>2

\* A cleaned path is a path. One that was long and is changed is short.
LEMMA CleanIs ==
    ASSUME NEW s \in Seq(Glyph)
    PROVE  /\ Clean(s) \in Seq(Glyph)
           /\ Len(s) <= 4 => Len(Clean(s)) <= 4
           /\ DotsGone(s) # s /\ Len(s) <= 6 => Len(Clean(s)) <= 4
           /\ DotsGone(s) = s /\ Len(s) >= 5 => Clean(s) = s
<1>1. Plain(<<"/">>) \in Seq(Glyph) /\ Len(Plain(<<"/">>)) = 1
  BY PlainOne, SafeWords
<1>2. /\ Plain(<<"/", "api">>) \in Seq(Glyph) /\ Len(Plain(<<"/", "api">>)) = 2
  BY PlainTwo, SafeWords
<1>3. Plain(<<"/", "api", "/">>) \in Seq(Glyph) /\ Len(Plain(<<"/", "api", "/">>)) = 3
  BY PlainThree, SafeWords
<1>4. DotsGone(s) = s \/ (DotsGone(s) \in Seq(Glyph) /\ Len(DotsGone(s)) <= Len(s) - 2)
  BY DotsLess
<1>5. \/ Clean(s) = Plain(<<"/">>)
      \/ Clean(s) = Plain(<<"/", "api", "/">>)
      \/ Clean(s) = DotsGone(s)
  BY DEF Clean
<1> DEFINE one == Plain(<<"/">>)
           two == Plain(<<"/", "api">>)
           three == Plain(<<"/", "api", "/">>)
           dots == DotsGone(s)
           clean == Clean(s)
<1>6. clean = IF dots = <<>> /\ s # <<>> THEN one ELSE IF dots = two THEN three ELSE dots
  BY DEF Clean
<1> HIDE DEF one, two, three, dots, clean
<1>7. dots = s /\ Len(s) >= 5 => clean = s
  <2>0. Len(two) = 2 /\ two \in Seq(Glyph)
    BY <1>2 DEF two
  <2>1. Len(s) >= 5 => s # <<>> /\ s # two
    <3>0. \A n : n = 2 => ~(n >= 5)
      OBVIOUS
    <3>1. ASSUME Len(s) >= 5, s = two PROVE FALSE
      BY <2>0, <3>0, <3>1, Zenon
    <3>2. ASSUME Len(s) >= 5, s = <<>> PROVE FALSE
      BY <3>2
    <3> QED
      BY <3>1, <3>2, Zenon
  <2> QED
    BY <1>6, <2>1
<1>8. clean \in Seq(Glyph) /\ (Len(s) <= 4 => Len(clean) <= 4) /\ (dots # s /\ Len(s) <= 6 => Len(clean) <= 4)
  <2>1. one \in Seq(Glyph) /\ Len(one) = 1 /\ three \in Seq(Glyph) /\ Len(three) = 3
    BY <1>1, <1>3 DEF one, three
  <2>2. dots = s \/ (dots \in Seq(Glyph) /\ Len(dots) <= Len(s) - 2)
    BY <1>4 DEF dots
  <2>3. Len(s) \in Nat /\ (dots # s => Len(dots) \in Nat)
    BY <2>2
  <2>4. clean \in {one, three, dots}
    BY <1>6
  <2>5. CASE clean = dots
    BY <2>2, <2>3, <2>5
  <2>6. CASE clean \in {one, three}
    <3>1. clean \in Seq(Glyph)
      BY <2>1, <2>6
    <3>2. Len(clean) = 1 \/ Len(clean) = 3
      BY <2>1, <2>6
    <3>3. \A n : n = 1 \/ n = 3 => n <= 4
      OBVIOUS
    <3>4. Len(clean) <= 4
      BY <3>2, <3>3, Zenon
    <3> QED
      BY <3>1, <3>4
  <2> QED
    BY <2>4, <2>5, <2>6
<1> QED
  BY <1>7, <1>8 DEF dots, clean

\* The URL of a product is clean already, or too short to be one of a product
\* when it has been cleaned.
LEMMA CleanProduct ==
    ASSUME NEW id \in Seq(Alphabet)
    PROVE  Clean(ProductURL(id)) = ProductURL(id) \/ Len(Clean(ProductURL(id))) <= 4
<1> DEFINE s == ProductURL(id)
           n == Len(id)
<1>1. /\ s \in Seq(Glyph) /\ Len(s) = 5 + n
      /\ \A i \in 1..n : s[5 + i] = EncodePath(id)[i]
  BY ProductAddress
<1>2. n \in Nat /\ \A i \in 1..n : EncodePath(id)[i] # C("/")
  BY EncodedGlyphs
<1>3. DotsGone(s) = s \/ s[Len(s) - 1] = C("/")
  BY <1>1, DotsLess
<1>4. /\ DotsGone(s) # s /\ Len(s) <= 6 => Len(Clean(s)) <= 4
      /\ DotsGone(s) = s /\ Len(s) >= 5 => Clean(s) = s
  BY <1>1, CleanIs
<1> HIDE DEF s, n
<1>5. CASE n >= 2
  <2>1. Len(s) - 1 = 5 + (n - 1) /\ n - 1 \in 1..n
    BY <1>1, <1>2, <1>5
  <2>2. s[Len(s) - 1] # C("/")
    BY <1>1, <1>2, <2>1, Zenon
  <2>3. Len(s) >= 5
    BY <1>1, <1>2
  <2> QED
    BY <1>3, <1>4, <2>2, <2>3, Zenon DEF s
<1>6. CASE n < 2
  <2>1. Len(s) <= 6 /\ Len(s) >= 5
    BY <1>1, <1>2, <1>6
  <2> QED
    BY <1>4, <2>1, Zenon DEF s
<1> QED
  BY <1>2, <1>5, <1>6

----------------------------------------------------------------------------
(* Requests.                                                               *)

\* Every request has a well-formed path and an origin with a lower case, and
\* the product that the client asks for is in its path, unless a redirect has
\* taken that away.
Asked(e) ==
    /\ e.req.path \in Seq(Glyph)
    /\ e.call.op = "getProduct" => /\ e.call.arg \in Seq(Alphabet)
                                   /\ e.req.path = ProductURL(e.call.arg) \/ Len(e.req.path) <= 4
    /\ e.req.origin \in DOMAIN Lower \cup {Absent}

\* The inductive invariant of what is asked.
AskedInv == TellInv /\ Asked(ex) /\ \A c \in cache : Asked(c)

\* A new exchange asks what it is given.
LEMMA FreshAsked ==
    ASSUME NEW call, NEW req
    PROVE  Fresh(call, req).call = call /\ Fresh(call, req).req = req
  BY DEF Fresh

\* A GET without origin.
LEMMA GetAsked ==
    ASSUME NEW path
    PROVE  Get(path).path = path /\ Get(path).origin = Absent
  BY DEF Get

\* Nothing is asked at first.
LEMMA InitAsked == Init => AskedInv
<1> SUFFICES ASSUME Init PROVE AskedInv
  OBVIOUS
<1> DEFINE r == Get(<<>>)
           v == [op |-> "visit"]
           e == Fresh(v, r)
<1>1. ex = [e EXCEPT !.at = "idle"] /\ cache = {}
  BY DEF Init, Visit
<1>2. Shaped(e) /\ e.call = v /\ e.req = r
  BY FreshTold, FreshAsked
<1>3. r.path = <<>> /\ r.origin = Absent /\ v.op # "getProduct"
  BY GetAsked
<1> HIDE DEF e, r, v
<1>4. ex.call = v /\ ex.req = r
  BY <1>1, <1>2 DEF Shaped
<1>5. <<>> \in Seq(Glyph)
  OBVIOUS
<1> QED
  BY <1>1, <1>3, <1>4, <1>5, InitTold DEF AskedInv, Asked

\* A new request, of a client or of a browser.
LEMMA AskAsked ==
    ASSUME AskedInv, Ask
    PROVE  Asked(ex')
<1>1. CASE \E v \in Visits : ex' = Visit(v)
  <2>1. PICK v \in Visits : ex' = Visit(v)
    BY <1>1
  <2>2. v.path \in Seq(Glyph) /\ v.origin \in DOMAIN Lower
    BY VisitAssumption, GlyphPath DEF WellFormed, Path
  <2>3. ex'.req = v /\ ex'.call.op = "visit"
    BY <2>1, FreshAsked DEF Visit
  <2> QED
    BY <2>2, <2>3 DEF Asked
<1>2. CASE \E c \in Calls : ex' = Fresh(c, Request(c))
  <2>1. PICK c \in Calls : ex' = Fresh(c, Request(c))
    BY <1>2
  <2>2. ex'.req = Request(c) /\ ex'.call = c
    BY <2>1, FreshAsked
  <2>3. c.op \in {"getProduct", "listProducts", "placeOrder"} /\ (c.op = "getProduct" => c.arg \in Seq(Alphabet))
    BY CallAssumption
  <2>4. CASE c.op = "getProduct"
    <3>1. Request(c) = Get(ProductURL(c.arg))
      BY <2>4 DEF Request, sendGetProduct
    <3>2. ex'.req.path = ProductURL(c.arg) /\ ex'.req.origin = Absent
      BY <2>2, <3>1, GetAsked
    <3> QED
      BY <2>2, <2>3, <2>4, <3>2, ProductAddress DEF Asked
  <2>5. CASE c.op = "listProducts"
    <3>1. Request(c) = Get(ProductsURL)
      BY <2>5 DEF Request, sendListProducts
    <3>2. ex'.req.path = ProductsURL /\ ex'.req.origin = Absent
      BY <2>2, <3>1, GetAsked
    <3> QED
      BY <2>2, <2>5, <3>2, Addresses DEF Asked
  <2>6. CASE c.op = "placeOrder"
    <3>1. Request(c) = sendPlaceOrder(c.arg, c.key)
      BY <2>6 DEF Request
    <3>2. Request(c).path = OrderURL /\ Request(c).origin = Absent
      BY <3>1 DEF sendPlaceOrder, Get
    <3> QED
      BY <2>2, <2>6, <3>2, Addresses DEF Asked
  <2> QED
    BY <2>3, <2>4, <2>5, <2>6
<1> QED
  BY <1>1, <1>2 DEF Ask

\* A redirect that is followed.
LEMMA FollowAsked ==
    ASSUME AskedInv, Follow
    PROVE  Asked(ex')
<1> DEFINE p == ex.req.path
           q == Clean(p)
<1>1. ex' = Fresh(ex.call, Get(q))
  BY DEF Follow, Becomes
<1>2. ex'.call = ex.call /\ ex'.req.path = q /\ ex'.req.origin = Absent
  BY <1>1, FreshAsked, GetAsked
<1>3. Asked(ex)
  BY DEF AskedInv
<1>4. p \in Seq(Glyph)
  BY <1>3 DEF Asked
<1>5. q \in Seq(Glyph) /\ (Len(p) <= 4 => Len(q) <= 4)
  BY <1>4, CleanIs
<1>6. ASSUME ex.call.op = "getProduct" PROVE q = ProductURL(ex.call.arg) \/ Len(q) <= 4
  <2>1. ex.call.arg \in Seq(Alphabet) /\ (p = ProductURL(ex.call.arg) \/ Len(p) <= 4)
    BY <1>3, <1>6 DEF Asked
  <2> QED
    BY <1>5, <2>1, CleanProduct
<1> QED
  BY <1>2, <1>3, <1>5, <1>6 DEF Asked

\* Every step of an exchange.
Onward == CORS \/ RateLimit \/ RequestID \/ Labeler \/ Route \/ Security \/ DecodeParams \/ DecodeRequest
          \/ Handle \/ Encode \/ ErrorHandler \/ Recover \/ Deliver

\* The stages before CORS has written its headers.
Bare == {"idle", "cache", "cors"}

\* The steps, by what they do to the request.
LEMMA Kinds == Next <=> \/ Ask \/ Follow \/ FromCache \/ Onward
                        \/ Seed /\ UNCHANGED <<cors, ex, cache, exchanges>>
  BY DEF Next, Onward

\* No layer of the server changes the request.
LEMMA OnwardKeeps ==
    ASSUME TellInv, Onward
    PROVE  /\ ex'.req = ex.req /\ ex'.call = ex.call /\ (ex'.hit <=> ex.hit) /\ UNCHANGED <<cors, seedVars>>
           /\ ex'.at \notin Bare
           /\ ex.at \in Bare => CORS
           /\ ~CORS => ex'.hdr = ex.hdr
           /\ \A c \in cache' : c \in cache \/ c = ex
<1>1. ASSUME Becoming(ex, ex', {"at", "hdr", "status", "ctype", "docs", "id", "label", "op", "arg", "err",
                                "asked", "said", "fault", "rec", "got"})
      PROVE  ex'.req = ex.req /\ ex'.call = ex.call /\ (ex'.hit <=> ex.hit)
  <2>1. ex'.hit = ex.hit
    BY <1>1 DEF Becoming, Fields
  <2>2. ex'.req = ex.req /\ ex'.call = ex.call
    BY <1>1 DEF Becoming, Fields
  <2> QED
    BY <2>1, <2>2, Zenon
<1>2. ASSUME Becoming(ex, ex', {"at", "status", "ctype", "docs", "id", "label", "op", "arg", "err",
                                "asked", "said", "fault", "rec", "got"})
      PROVE  ex'.req = ex.req /\ ex'.call = ex.call /\ (ex'.hit <=> ex.hit) /\ ex'.hdr = ex.hdr
  <2>1. ex'.hdr = ex.hdr
    BY <1>2 DEF Becoming, Fields
  <2>2. Becoming(ex, ex', {"at", "hdr", "status", "ctype", "docs", "id", "label", "op", "arg", "err",
                                "asked", "said", "fault", "rec", "got"})
    BY <1>2 DEF Becoming
  <2> QED
    BY <1>1, <2>1, <2>2
<1> DEFINE Goal == /\ ex'.req = ex.req /\ ex'.call = ex.call /\ (ex'.hit <=> ex.hit)
                   /\ UNCHANGED <<cors, seedVars>>
                   /\ ex'.at \notin Bare
                   /\ ex.at \in Bare => CORS
                   /\ ~CORS => ex'.hdr = ex.hdr
                   /\ \A c \in cache' : c \in cache \/ c = ex
<1>3. CASE CORS
  <2>1. /\ ex'.at \in {"limit", "deliver"} /\ UNCHANGED <<cors, cache, seedVars>>
        /\ Becoming(ex, ex', {"at", "hdr", "status", "ctype", "docs"})
    BY <1>3, CorsMoves
  <2>2. Becoming(ex, ex', {"at", "hdr", "status", "ctype", "docs", "id", "label", "op", "arg", "err",
                                "asked", "said", "fault", "rec", "got"})
    BY <2>1 DEF Becoming
  <2> QED
    BY <1>1, <1>3, <2>1, <2>2 DEF Bare
<1>4. ASSUME Becoming(ex, ex', {"at", "status", "ctype", "docs", "id", "label", "op", "arg", "err",
                                "asked", "said", "fault", "rec", "got"}),
             UNCHANGED <<cors, cache, seedVars>>, ex.at \notin Bare, ex'.at \notin Bare
      PROVE  Goal
  BY <1>2, <1>4
<1>5. CASE RateLimit \/ RequestID \/ Labeler
  <2>1. Becoming(ex, ex', {"at", "status", "ctype", "docs", "id", "label", "op", "arg", "err",
                                "asked", "said", "fault", "rec", "got"})
    BY <1>5, LimitMoves, IdMoves, LabelMoves DEF Becoming
  <2> QED
    BY <1>4, <1>5, <2>1, LimitMoves, IdMoves, LabelMoves DEF Bare
<1>6. CASE Route
  <2>1. ex.at = "mux" /\ UNCHANGED <<cors, cache, seedVars>>
    BY <1>6, RouteMoves
  <2>2. CASE ex'.at = "deliver" /\ Becoming(ex, ex', {"at", "status", "ctype", "docs"})
    <3>1. Becoming(ex, ex', {"at", "status", "ctype", "docs", "id", "label", "op", "arg", "err",
                                "asked", "said", "fault", "rec", "got"})
      BY <2>2 DEF Becoming
    <3> QED
      BY <1>4, <2>1, <2>2, <3>1 DEF Bare
  <2>3. CASE \E leaf \in ServeHTTP(URL(ex.req.path)) :
                  Becoming(ex, ex', {"at", "op", "arg"}) /\ ex'.at = Steps(leaf.op)[1]
    <3>1. Becoming(ex, ex', {"at", "status", "ctype", "docs", "id", "label", "op", "arg", "err",
                                "asked", "said", "fault", "rec", "got"})
      BY <2>3 DEF Becoming
    <3>2. ex'.at \in Inner
      BY <2>3, FoundOps, FirstStep
    <3> QED
      BY <1>4, <2>1, <3>1, <3>2 DEF Bare, Inner
  <2> QED
    BY <1>6, <2>2, <2>3, RouteMoves
<1>7. CASE Security \/ DecodeParams \/ DecodeRequest
  <2>1. /\ UNCHANGED <<cors, cache, seedVars>> /\ ex.at \in {"security", "params", "decode"}
        /\ Becoming(ex, ex', {"at", "arg", "err"}) /\ ex'.at \in {"decode", "handle", "error"}
    BY <1>7, ChecksMove
  <2>2. Becoming(ex, ex', {"at", "status", "ctype", "docs", "id", "label", "op", "arg", "err",
                                "asked", "said", "fault", "rec", "got"})
    BY <2>1 DEF Becoming
  <2> QED
    BY <1>4, <2>1, <2>2 DEF Bare
<1>8. CASE Handle
  <2>1. /\ UNCHANGED <<cors, cache, seedVars>> /\ ex.at = "handle"
        /\ Becoming(ex, ex', {"at", "asked", "said", "fault", "err"}) /\ ex'.at \in {"encode", "panic", "error"}
    BY <1>8, HandleMoves
  <2>2. Becoming(ex, ex', {"at", "status", "ctype", "docs", "id", "label", "op", "arg", "err",
                                "asked", "said", "fault", "rec", "got"})
    BY <2>1 DEF Becoming
  <2> QED
    BY <1>4, <2>1, <2>2 DEF Bare
<1>9. CASE Encode \/ ErrorHandler \/ Recover
  <2>1. /\ UNCHANGED <<cors, cache, seedVars>> /\ ex.at \in {"encode", "error", "panic"}
        /\ Becoming(ex, ex', {"at", "rec", "status", "ctype", "docs", "fault", "err"})
        /\ ex'.at \in {"deliver", "error"}
    BY <1>9, EncodeMoves, LastMoves DEF Becoming
  <2>2. Becoming(ex, ex', {"at", "status", "ctype", "docs", "id", "label", "op", "arg", "err",
                                "asked", "said", "fault", "rec", "got"})
    BY <2>1 DEF Becoming
  <2> QED
    BY <1>4, <2>1, <2>2 DEF Bare
<1>10. CASE Deliver
  <2>1. /\ ex.at = "deliver" /\ ex'.at = "answered" /\ UNCHANGED <<cors, seedVars>>
        /\ Becoming(ex, ex', {"at", "got"}) /\ \A c \in cache' : c \in cache \/ c = ex
    BY <1>10, DeliverMoves
  <2>2. Becoming(ex, ex', {"at", "status", "ctype", "docs", "id", "label", "op", "arg", "err",
                                "asked", "said", "fault", "rec", "got"})
    BY <2>1 DEF Becoming
  <2> QED
    BY <1>2, <2>1, <2>2 DEF Bare
<1> QED
  BY <1>3, <1>5, <1>6, <1>7, <1>8, <1>9, <1>10 DEF Onward

\* Nor does the cache.
LEMMA CacheKeeps ==
    ASSUME TellInv, FromCache
    PROVE  ex'.req = ex.req /\ ex'.call = ex.call /\ UNCHANGED <<cors, cache, seedVars>>
<1>1. CASE Becoming(ex, ex', {"at"})
  BY <1>1, CacheMoves DEF Becoming, Fields
<1>2. CASE ex'.req = ex.req /\ ex'.call = ex.call
  BY <1>2, CacheMoves
<1> QED
  BY <1>1, <1>2, CacheMoves

\* Every step keeps it.
LEMMA StepAsked == AskedInv /\ [Next]_vars => AskedInv'
<1> SUFFICES ASSUME AskedInv, [Next]_vars PROVE AskedInv'
  OBVIOUS
<1>0. TellInv /\ TellInv' /\ Asked(ex) /\ \A c \in cache : Asked(c)
  BY StepTold DEF AskedInv
<1>1. CASE ex'.req = ex.req /\ ex'.call = ex.call /\ \A c \in cache' : c \in cache \/ c = ex
  BY <1>0, <1>1 DEF AskedInv, Asked
<1>2. CASE UNCHANGED <<ex, cache>>
  BY <1>1, <1>2
<1>3. CASE Onward
  BY <1>0, <1>1, <1>3, OnwardKeeps
<1>4. CASE FromCache
  BY <1>0, <1>1, <1>4, CacheKeeps
<1>5. CASE Ask
  BY <1>0, <1>5, AskAsked DEF AskedInv, Ask
<1>6. CASE Follow
  BY <1>0, <1>6, FollowAsked DEF AskedInv, Follow, Becomes
<1> QED
  BY <1>2, <1>3, <1>4, <1>5, <1>6, Kinds DEF vars

\* Every request that is made has a path the two routers can read.
THEOREM RequestsWellFormed == Spec => []AskedInv
  BY InitAsked, StepAsked, PTL DEF Spec

\* The route that telemetry names is the operation that is served, with the
\* same argument.
THEOREM LabelsTrue == Spec => []LabelIsRoute
<1>1. ASSUME WayInv, AskedInv PROVE LabelIsRoute
  <2> SUFFICES ASSUME ex.at \in {"deliver", "answered"}, Mux(ex.req.path) = "oas", ex.id
               PROVE  IF ex.op = "none" THEN ex.label = {}
                      ELSE \E l \in ex.label : l.op = ex.op /\
                           (ex.op = "getProduct" /\ ex.asked # {} => ex.asked = {<<l.op, l.arg>>})
    BY DEF LabelIsRoute
  <2>1. Way(ex) /\ WellFormed(ex.req.path)
    BY <1>1, GlyphPath DEF WayInv, AskedInv, Asked
  <2>2. ex.label = Labelled(ex.req)
    BY <2>1 DEF Way, Unmarked
  <2>3. CASE ex.op = "none"
    <3>1. Unserved(ex.req)
      BY <2>1, <2>3 DEF Way, Over
    <3> QED
      BY <2>1, <2>2, <2>3, <3>1, RoutersAgree
  <2>4. CASE ex.op # "none"
    <3>1. PICK leaf \in Found(ex.req) : Serves(leaf, ex)
      BY <2>1, <2>4 DEF Way
    <3>2. ex.label = {[op |-> leaf.op, arg |-> leaf.arg]}
      BY <2>1, <2>2, <3>1, RoutersAgree DEF Serves
    <3>3. ex.asked # {} => ex.asked = {<<ex.op, ex.arg>>}
      BY <2>1 DEF Way
    <3>4. leaf.op = ex.op /\ (ex.op = "getProduct" => ex.arg = leaf.arg)
      BY <3>1 DEF Serves
    <3>5. PICK l \in ex.label : l.op = leaf.op /\ l.arg = leaf.arg
      BY <3>2
    <3> QED
      BY <2>4, <3>3, <3>4, <3>5
  <2> QED
    BY <2>3, <2>4
<1> QED
  BY <1>1, RoutedRight, RequestsWellFormed, PTL

\* The path that is matched spells what the client wrote.
LEMMA ElemIs ==
    ASSUME NEW path \in Seq(Glyph)
    PROVE  /\ Elem(URL(path)) \in Path /\ DOMAIN Elem(URL(path)) = DOMAIN path
           /\ Len(Elem(URL(path))) = Len(path)
           /\ \A i \in DOMAIN path : Elem(URL(path))[i][1] = path[i][1]
           /\ Escaped(Elem(URL(path))) => \A i \in DOMAIN path : Elem(URL(path))[i] # C("%2F")
<1> DEFINE elem == Elem(URL(path))
<1> SUFFICES /\ elem \in Path /\ DOMAIN elem = DOMAIN path /\ Len(elem) = Len(path)
             /\ \A i \in DOMAIN path : elem[i][1] = path[i][1]
             /\ Escaped(elem) => \A i \in DOMAIN path : elem[i] # C("%2F")
  OBVIOUS
<1>0. WellFormed(path) /\ path \in Path
  BY GlyphPath DEF WellFormed
<1>1. /\ URL(path).path = Plain(Chars(path)) /\ elem \in Path
      /\ URL(path).raw = <<>> => ~Escaped(elem) /\ elem = Plain(Chars(path))
      /\ URL(path).raw # <<>> => elem = Normalized(path)
  BY <1>0, UrlType DEF Elem
<1>2. /\ Chars(path) \in Seq(Alphabet) /\ DOMAIN Chars(path) = DOMAIN path
      /\ \A i \in DOMAIN path : Chars(path)[i] = path[i][1]
  BY <1>0, CharsType DEF Chars
<1> HIDE DEF elem
<1>5. DOMAIN elem = DOMAIN path => Len(elem) = Len(path)
  BY <1>0, <1>1 DEF Path
<1>3. CASE URL(path).raw = <<>>
  <2> DEFINE c == Chars(path)
  <2>a. elem = Plain(c) /\ c \in Seq(Alphabet) /\ DOMAIN c = DOMAIN path /\ \A i \in DOMAIN path : c[i] = path[i][1]
    BY <1>1, <1>2, <1>3
  <2> HIDE DEF c
  <2>b. DOMAIN Plain(c) = DOMAIN c /\ \A i \in DOMAIN c : Plain(c)[i][1] = c[i]
    BY <2>a, PlainType
  <2>1. DOMAIN elem = DOMAIN path /\ \A i \in DOMAIN path : elem[i][1] = path[i][1]
    BY <2>a, <2>b
  <2> QED
    BY <1>1, <1>3, <1>5, <2>1, Zenon
<1>4. CASE URL(path).raw # <<>>
  <2>1. /\ DOMAIN elem = DOMAIN path
        /\ \A i \in DOMAIN path : elem[i][1] = path[i][1]
        /\ \A i \in DOMAIN path : elem[i][2] <=> path[i][2] /\ path[i][1] \in {"/", "%2F"}
    BY <1>0, <1>1, <1>4, NormalizedType
  <2>2. ASSUME NEW i \in DOMAIN path, elem[i] = C("%2F") PROVE FALSE
    <3>a. C("%2F")[1] = "%2F" /\ ~C("%2F")[2]
      BY Zenon DEF C
    <3>1. elem[i][1] = "%2F" /\ ~elem[i][2]
      BY <2>2, <3>a, Zenon
    <3>2. path[i][1] = "%2F" /\ ~path[i][2]
      BY <2>1, <3>1
    <3>3. path[i] \in Alphabet \X BOOLEAN
      BY <1>0 DEF Path
    <3>4. path[i] = <<"%2F", FALSE>>
      BY <3>2, <3>3, FlagIs
    <3> QED
      BY <1>0, <3>4 DEF WellFormed
  <2> QED
    BY <1>1, <1>5, <2>1, <2>2, Zenon
<1> QED
  BY <1>3, <1>4

\* The leaf of a product takes the rest of the path.
LEMMA ProductRest ==
    ASSUME NEW S, NEW elem \in Seq(S), Server \in Seq(S), Len(Server) = 2,
           NEW l \in Leaf(CutPrefix(elem)), l.op = "getProduct"
    PROVE  /\ Len(elem) >= 5 /\ l.arg \in Seq(S) /\ Len(l.arg) = Len(elem) - 5
           /\ \A i \in 1..Len(l.arg) : l.arg[i] = elem[5 + i]
<1> DEFINE cut == CutPrefix(elem)
           slash == Plain(<<"/", "product", "/">>)
<1>1. IsPrefix(slash, cut) /\ l.arg = SubSeq(cut, 4, Len(cut))
  BY DEF Leaf
<1>2. Len(slash) = 3
  BY PlainThree, SafeWords
<1> HIDE DEF slash
<1>3. cut = SubSeq(elem, 3, Len(elem)) \/ cut = <<>>
  BY DEF CutPrefix
<1> HIDE DEF cut
<1>4. 3 <= Len(cut)
  BY <1>1, <1>2 DEF IsPrefix
<1>5. cut # <<>>
  BY <1>4
<1>6. Len(elem) \in Nat /\ cut = SubSeq(elem, 3, Len(elem))
  BY <1>3, <1>5
<1>7. cut \in Seq(S) /\ Len(elem) >= 5 /\ Len(cut) = Len(elem) - 2 /\ \A i \in 1..Len(cut) : cut[i] = elem[2 + i]
  BY <1>4, <1>6
<1> DEFINE a == l.arg
           n == Len(elem) - 5
<1>8. a \in Seq(S) /\ Len(a) = Len(cut) - 3 /\ \A i \in 1..Len(a) : a[i] = cut[3 + i]
  BY SMTT(30), <1>1, <1>4, <1>7
<1> HIDE DEF a
<1>9. Len(a) = n /\ n \in Nat /\ Len(cut) = n + 3
  BY <1>6, <1>7, <1>8
<1>10. ASSUME NEW i \in 1..n PROVE a[i] = elem[5 + i]
  <2>1. i \in Int /\ 3 + i \in 1..Len(cut) /\ 2 + (3 + i) = 5 + i
    BY <1>9
  <2>2. a[i] = cut[3 + i] /\ cut[3 + i] = elem[2 + (3 + i)]
    BY <1>7, <1>8, <1>9, <2>1
  <2> QED
    BY <2>1, <2>2
<1> QED
  BY <1>7, <1>8, <1>9, <1>10 DEF a

\* Whatever the path, a product is asked for by the letters after its fifth.
LEMMA ProductArgument ==
    ASSUME NEW path \in Seq(Glyph), NEW l \in Leaf(CutPrefix(Elem(URL(path)))), l.op = "getProduct"
    PROVE  /\ Len(path) >= 5
           /\ DOMAIN Argument(l.arg, Elem(URL(path))) = 1..(Len(path) - 5)
           /\ \A i \in 1..(Len(path) - 5) : Argument(l.arg, Elem(URL(path)))[i] = path[5 + i][1]
           /\ Argument(l.arg, Elem(URL(path))) \in Seq(Alphabet)
<1> DEFINE elem == Elem(URL(path))
           a == l.arg
           n == Len(path) - 5
           arg == Argument(a, elem)
           P == Alphabet \X BOOLEAN
<1>1. /\ elem \in Seq(P) /\ DOMAIN elem = DOMAIN path /\ Len(elem) = Len(path)
      /\ \A i \in DOMAIN path : elem[i][1] = path[i][1]
      /\ Escaped(elem) => \A i \in DOMAIN path : elem[i] # C("%2F")
  BY ElemIs DEF Path
<1>2. Server \in Seq(P) /\ Len(Server) = 2
  BY Addresses, GlyphPath DEF WellFormed, Path
<1>3. l \in Leaf(CutPrefix(elem))
  OBVIOUS
<1>4. arg = IF Escaped(elem) THEN Chars(PathUnescape(a)) ELSE Chars(a)
  BY DEF Argument
<1>5. a \in Seq(P) => a \in Path
  BY DEF Path
<1> SUFFICES Len(path) >= 5 /\ DOMAIN arg = 1..n /\ arg \in Seq(Alphabet) /\ \A i \in 1..n : arg[i] = path[5 + i][1]
  OBVIOUS
<1> HIDE DEF elem, P, arg
<1>6. /\ Len(elem) >= 5 /\ a \in Seq(P) /\ Len(a) = Len(elem) - 5
      /\ \A i \in 1..Len(a) : a[i] = elem[5 + i]
  BY <1>1, <1>2, <1>3, ProductRest
<1> HIDE DEF a
<1>7. DOMAIN a = 1..n /\ n \in Nat /\ Len(path) >= 5 /\ DOMAIN path = 1..Len(path)
  BY <1>1, <1>6
<1>8. \A i \in 1..n : 5 + i \in DOMAIN path
  BY <1>7
<1>9. \A i \in 1..n : a[i] = elem[5 + i] /\ a[i][1] = path[5 + i][1]
  BY <1>1, <1>6, <1>7, <1>8
<1>10. Escaped(elem) => Chars(PathUnescape(a)) = Chars(a)
  <2> SUFFICES ASSUME Escaped(elem) PROVE Chars(PathUnescape(a)) = Chars(a)
    OBVIOUS
  <2>1. \A i \in DOMAIN a : a[i] # C("%2F")
    BY <1>1, <1>7, <1>8, <1>9
  <2> QED
    BY <1>5, <1>6, <2>1, UnescapedChars, Zenon DEF C
<1>11. arg = Chars(a)
  BY <1>4, <1>10
<1>12. Chars(a) \in Seq(Alphabet) /\ DOMAIN Chars(a) = DOMAIN a /\ \A i \in DOMAIN a : Chars(a)[i] = a[i][1]
  BY <1>5, <1>6, CharsType DEF Chars
<1> QED
  BY <1>7, <1>9, <1>11, <1>12

\* Whatever the id, the product asked of the repository is the one the caller
\* named: it is escaped once and unescaped once on its way.
THEOREM IdsSurvive == Spec => []IdSurvives
<1>1. ASSUME WayInv, AskedInv PROVE IdSurvives
  <2> SUFFICES ASSUME ex.call.op = "getProduct", ex.op = "getProduct", ex.asked # {}
               PROVE  ex.asked = {<<"getProduct", ex.call.arg>>}
    BY DEF IdSurvives
  <2> DEFINE id == ex.call.arg
             path == ex.req.path
  <2>1. Way(ex) /\ path \in Seq(Glyph) /\ id \in Seq(Alphabet) /\ (path = ProductURL(id) \/ Len(path) <= 4)
    BY <1>1 DEF WayInv, AskedInv, Asked
  <2>2. ex.asked = {<<ex.op, ex.arg>>}
    BY <2>1 DEF Way
  <2>3. PICK leaf \in Found(ex.req) : Serves(leaf, ex)
    BY <2>1 DEF Way
  <2>4. PICK l \in Leaf(CutPrefix(Elem(URL(path)))) :
            leaf = [op |-> l.op, method |-> l.method, arg |-> Argument(l.arg, Elem(URL(path)))]
    BY DEF Found, ServeHTTP, Elem
  <2>5. l.op = "getProduct" /\ ex.arg = Argument(l.arg, Elem(URL(path)))
    BY <2>3, <2>4 DEF Serves
  <2> DEFINE arg == ex.arg
             n == Len(path) - 5
  <2>6. /\ Len(path) >= 5 /\ DOMAIN arg = 1..n /\ arg \in Seq(Alphabet)
        /\ \A i \in 1..n : arg[i] = path[5 + i][1]
    BY <2>1, <2>5, ProductArgument
  <2>7. path = ProductURL(id)
    BY <2>1, <2>6
  <2>8. /\ Len(path) = 5 + Len(id) /\ \A i \in 1..Len(id) : path[5 + i] = EncodePath(id)[i]
    BY <2>1, <2>7, ProductAddress
  <2>9. \A i \in 1..Len(id) : EncodePath(id)[i][1] = id[i]
    BY <2>1, EncodedGlyphs
  <2> HIDE DEF path, id, arg
  <2>10. n = Len(id) /\ DOMAIN arg = 1..Len(id) /\ \A i \in 1..Len(id) : arg[i] = id[i]
    BY <2>1, <2>6, <2>8, <2>9
  <2>11. arg = id
    BY SMTT(30), <2>1, <2>6, <2>10
  <2> QED
    BY <2>2, <2>11 DEF arg, id
<1> QED
  BY <1>1, RoutedRight, RequestsWellFormed, PTL

----------------------------------------------------------------------------
(* CORS.                                                                   *)

\* A preflight request.
Asks(req) == req.preflight /\ req.method = "OPTIONS" /\ req.origin # Absent

\* The headers are the ones of the request's own origin, or, out of a cache,
\* the ones that are the same for everybody.
Framed(e) == e.at \notin Bare => (e.hit /\ AllowAll(cors)) \/ e.hdr = CorsHeaders(cors, e.req.origin, Asks(e.req))

\* The inductive invariant of the CORS headers.
FramedInv == TellInv /\ cors \in Configs /\ Framed(ex) /\ \A c \in cache : Framed(c)

\* Two requests without a preflight get the same headers where the first
\* answer's Vary lets it stand for the second.
LEMMA SameHeaders ==
    ASSUME NEW cfg, ~AllowAll(cfg), NEW o, NEW q, NEW asks, asks = FALSE,
           CorsHeaders(cfg, o, asks).vary => o = q
    PROVE  o = q
<1>1. CorsHeaders(cfg, o, asks).vary
  <2>1. CASE o = Absent
    BY <2>1 DEF CorsHeaders, WithoutOrigin, NoHeaders
  <2>2. CASE o # Absent
    <3>1. CorsHeaders(cfg, o, asks) = WithOrigin(cfg, o, asks \/ ~AllowAll(cfg))
      BY <2>2 DEF CorsHeaders
    <3>2. ASSUME NEW v \in BOOLEAN PROVE WithOrigin(cfg, o, v).vary = v
      BY DEF WithOrigin
    <3>3. (asks \/ ~AllowAll(cfg)) = TRUE
      OBVIOUS
    <3>4. TRUE \in BOOLEAN
      OBVIOUS
    <3> QED
      BY <3>1, <3>2, <3>3, <3>4, Zenon
  <2> QED
    BY <2>1, <2>2
<1> QED
  BY <1>1

\* An entry that fits has the headers that this origin would be given.
LEMMA FramedFromCache ==
    ASSUME FramedInv, FromCache
    PROVE  Framed(ex')
<1>0. TellInv
  BY DEF FramedInv
<1>1. CASE ex'.at = "cors"
  BY <1>1 DEF Framed, Bare
<1>2. CASE \E c \in cache : /\ Fits(c) /\ Becoming(c, ex', {"req", "call", "hit"})
                            /\ ex'.req = ex.req /\ ex'.hit
  <2>1. PICK c \in cache : /\ Fits(c) /\ Becoming(c, ex', {"req", "call", "hit"})
                           /\ ex'.req = ex.req /\ ex'.hit
    BY <1>2
  <2>2. Kept(c) /\ Framed(c)
    BY DEF FramedInv, TellInv
  <2>3. c.at = "deliver" /\ ~c.hit /\ c.req.method = "GET" /\ ex.req.method = "GET"
    BY <2>1, <2>2 DEF Kept, Fits
  <2>4. c.hdr = CorsHeaders(cors, c.req.origin, Asks(c.req))
    BY <2>2, <2>3 DEF Framed, Bare
  <2>5. ~Asks(c.req) /\ ~Asks(ex.req)
    BY <2>3 DEF Asks
  <2>6. Asks(c.req) = FALSE /\ Asks(ex.req) = FALSE
    BY <2>5 DEF Asks
  <2>7. ex'.hdr = c.hdr
    BY <2>1 DEF Becoming, Fields
  <2>8. CASE AllowAll(cors)
    BY <2>1, <2>8 DEF Framed
  <2>9. CASE ~AllowAll(cors)
    <3>1. c.req.origin = ex.req.origin
      <4>1. CorsHeaders(cors, c.req.origin, Asks(c.req)).vary => c.req.origin = ex.req.origin
        BY <2>1, <2>4 DEF Fits
      <4> QED
        BY <2>6, <2>9, <4>1, SameHeaders, Zenon
    <3>2. ex'.hdr = CorsHeaders(cors, ex'.req.origin, Asks(ex'.req))
      BY <2>1, <2>4, <2>6, <2>7, <3>1
    <3> QED
      BY <3>2 DEF Framed
  <2> QED
    BY <2>8, <2>9
<1> QED
  BY <1>0, <1>1, <1>2, CacheMoves

\* There are no headers at first.
LEMMA InitFramed == Init => FramedInv
<1> SUFFICES ASSUME Init PROVE FramedInv
  OBVIOUS
<1> DEFINE r == Get(<<>>)
           v == [op |-> "visit"]
           e == Fresh(v, r)
<1>1. ex = [e EXCEPT !.at = "idle"] /\ cache = {} /\ cors \in Configs
  BY DEF Init, Visit
<1>2. Shaped(e)
  BY FreshTold
<1> HIDE DEF e
<1>3. ex.at = "idle"
  BY <1>1, <1>2 DEF Shaped
<1> QED
  BY <1>1, <1>3, InitTold DEF FramedInv, Framed, Bare

\* Every step keeps it.
LEMMA StepFramed == FramedInv /\ [Next]_vars => FramedInv'
<1> SUFFICES ASSUME FramedInv, [Next]_vars PROVE FramedInv'
  OBVIOUS
<1>0. TellInv /\ TellInv' /\ cors \in Configs /\ Framed(ex) /\ \A c \in cache : Framed(c)
  BY StepTold DEF FramedInv
<1>1. ASSUME UNCHANGED cors, Framed(ex'), \A c \in cache' : c \in cache \/ c = ex PROVE FramedInv'
  BY <1>0, <1>1 DEF FramedInv, Framed
<1>2. CASE UNCHANGED <<cors, ex, cache>>
  BY <1>0, <1>2 DEF FramedInv, Framed
<1>3. CASE Onward
  <2>1. /\ ex'.req = ex.req /\ (ex'.hit <=> ex.hit) /\ UNCHANGED cors
        /\ ex.at \in Bare => CORS
        /\ ~CORS => ex'.hdr = ex.hdr
        /\ \A c \in cache' : c \in cache \/ c = ex
    BY <1>0, <1>3, OnwardKeeps
  <2>2. CASE CORS
    BY <1>0, <1>1, <2>1, <2>2, CorsMoves DEF Framed, Asks
  <2>3. CASE ~CORS
    BY <1>0, <1>1, <2>1, <2>3 DEF Framed
  <2> QED
    BY <2>2, <2>3
<1>4. CASE FromCache
  BY <1>0, <1>1, <1>4, CacheKeeps, FramedFromCache
<1>5. CASE Ask \/ Follow
  <2>1. ex'.at = "cache" /\ UNCHANGED <<cors, cache>>
    BY <1>5, FreshTold DEF Ask, Follow, Becomes, At, Visit
  <2> QED
    BY <1>1, <2>1 DEF Framed, Bare
<1> QED
  BY <1>2, <1>3, <1>4, <1>5, Kinds DEF vars

\* Min is the least element.
LEMMA LeastOf ==
    ASSUME NEW s, s \subseteq Int, s # {}, IsFiniteSet(s)
    PROVE  Min(s) \in s /\ \A x \in s : Min(s) <= x
<1>1. PICK m \in s : \A x \in s : m <= x
  BY FiniteMin
<1>2. m \in s /\ \A y \in s : m =< y
  BY <1>1
<1> QED
  BY <1>2 DEF Min

\* The listed origins are the ones before the first wildcard.
LEMMA ListedIs ==
    ASSUME NEW cfg, NEW D, cfg.origins \in Seq(D)
    PROVE  /\ Listed(cfg) \in Seq(D)
           /\ \A i \in DOMAIN Listed(cfg) : /\ i \in DOMAIN cfg.origins /\ Listed(cfg)[i] = cfg.origins[i]
                                            /\ \A j \in 1..i : cfg.origins[j] # "*"
           /\ \A i \in DOMAIN cfg.origins :
                 (\A j \in 1..i : cfg.origins[j] # "*") => i \in DOMAIN Listed(cfg)
<1> DEFINE s == cfg.origins
           stars == {i \in DOMAIN s : s[i] = "*"}
           n == IF stars = {} THEN Len(s) ELSE Min(stars) - 1
           l == Listed(cfg)
<1>1. l = SubSeq(s, 1, n)
  BY DEF Listed
<1>2. s \in Seq(D)
  OBVIOUS
<1>a. \A i \in DOMAIN s : i \in stars <=> s[i] = "*"
  OBVIOUS
<1>b. stars \subseteq DOMAIN s
  OBVIOUS
<1> HIDE DEF stars, s
<1>3. Len(s) \in Nat /\ DOMAIN s = 1..Len(s) /\ IsFiniteSet(stars) /\ stars \subseteq Int
  <2>1. Len(s) \in Nat /\ DOMAIN s = 1..Len(s)
    BY <1>2
  <2>2. IsFiniteSet(1..Len(s))
    BY <2>1, FS_Interval
  <2> QED
    BY <1>b, <2>1, <2>2, FS_Subset
<1>4. /\ n \in Nat /\ n <= Len(s)
      /\ \A i \in 1..n : i \notin stars
      /\ \A i \in DOMAIN s : i > n => n + 1 \in stars
  <2>1. CASE stars = {}
    BY <1>3, <2>1
  <2>2. CASE stars # {}
    <3> DEFINE m == Min(stars)
    <3>1. m \in stars /\ \A x \in stars : m <= x
      BY <1>3, <2>2, LeastOf
    <3>2. n = m - 1
      BY <2>2
    <3> HIDE DEF m, n
    <3>3. m \in 1..Len(s)
      BY <1>b, <1>3, <3>1
    <3>4. n \in Nat /\ n <= Len(s) /\ n + 1 = m
      BY <1>3, <3>2, <3>3
    <3>5. ASSUME NEW i \in 1..n, i \in stars PROVE FALSE
      BY <3>1, <3>3, <3>4, <3>5
    <3> QED
      BY <3>1, <3>4, <3>5
  <2> QED
    BY <2>1, <2>2
<1> HIDE DEF n, l
<1>5. l \in Seq(D) /\ DOMAIN l = 1..n /\ \A i \in 1..n : l[i] = s[i]
  BY <1>1, <1>2, <1>4
<1>6. ASSUME NEW i \in DOMAIN l
      PROVE  i \in DOMAIN s /\ l[i] = s[i] /\ \A j \in 1..i : s[j] # "*"
  <2>1. i \in 1..n /\ i \in DOMAIN s /\ l[i] = s[i]
    BY <1>3, <1>4, <1>5
  <2>2. ASSUME NEW j \in 1..i PROVE j \in 1..n /\ j \in DOMAIN s
    BY <1>3, <1>4, <2>1
  <2> QED
    BY <1>a, <1>4, <2>1, <2>2
<1>7. ASSUME NEW i \in DOMAIN s, \A j \in 1..i : s[j] # "*" PROVE i \in DOMAIN l
  <2>1. CASE i > n
    <3>1. n + 1 \in stars /\ n + 1 \in 1..i /\ n + 1 \in DOMAIN s
      BY <1>3, <1>4, <2>1
    <3> QED
      BY <1>a, <1>7, <3>1
  <2>2. CASE ~(i > n)
    BY <1>3, <1>4, <1>5, <2>2
  <2> QED
    BY <2>1, <2>2
<1> QED
  BY <1>5, <1>6, <1>7 DEF s, l

\* The origin that is answered is the last that names it, in its spelling.
LEMMA MatchIs ==
    ASSUME NEW cfg, cfg.origins \in Seq(DOMAIN Lower), NEW o \in DOMAIN Lower, o # Absent, ~AllowAll(cfg)
    PROVE  IF Named(cfg, o) = {} THEN MatchOrigin(cfg, o) = Absent
           ELSE /\ MatchOrigin(cfg, o) # Absent /\ MatchOrigin(cfg, o) # "*"
                /\ \E i \in Named(cfg, o) : /\ MatchOrigin(cfg, o) = cfg.origins[i]
                                          /\ \A j \in Named(cfg, o) : j <= i
<1> DEFINE l == Listed(cfg)
           s == cfg.origins
           same == {i \in DOMAIN l : Lower[l[i]] = Lower[o]}
           D == DOMAIN Lower
<1>1. MatchOrigin(cfg, o) = IF same = {} THEN Absent ELSE l[Max(same)]
  BY DEF MatchOrigin
<1>2. /\ l \in Seq(D) /\ s \in Seq(D)
      /\ \A i \in DOMAIN l : i \in DOMAIN s /\ l[i] = s[i] /\ \A j \in 1..i : s[j] # "*"
      /\ \A i \in DOMAIN s : (\A j \in 1..i : s[j] # "*") => i \in DOMAIN l
  BY ListedIs
<1>3. Named(cfg, o) = {i \in DOMAIN s : (\A j \in 1..i : s[j] # "*") /\ Lower[s[i]] = Lower[o]}
  BY DEF Named
<1>4. \A e \in D : Lower[e] = Absent <=> e = Absent
  BY LowerAssumption
<1>a. same \subseteq DOMAIN l /\ \A i \in DOMAIN l : i \in same <=> Lower[l[i]] = Lower[o]
  OBVIOUS
<1> HIDE DEF l, s, same, D
<1>5. same = Named(cfg, o)
  BY <1>2, <1>3, <1>a
<1>6. CASE same # {}
  <2>1. DOMAIN l = 1..Len(l) /\ Len(l) \in Nat
    BY <1>2
  <2>2. IsFiniteSet(1..Len(l))
    BY <2>1, FS_Interval
  <2>3. IsFiniteSet(same) /\ same \subseteq Int
    BY <1>a, <2>1, <2>2, FS_Subset
  <2> DEFINE m == Max(same)
  <2>4. m \in same /\ \A x \in same : x <= m
    BY <1>6, <2>3, GreatestOf
  <2> HIDE DEF m
  <2>5. m \in DOMAIN l /\ Lower[l[m]] = Lower[o] /\ m \in 1..m
    BY <1>a, <2>1, <2>4
  <2>6. l[m] = s[m] /\ s[m] # "*" /\ l[m] \in D
    BY <1>2, <2>1, <2>5
  <2>7. l[m] # Absent
    BY <1>4, <2>5, <2>6 DEF D
  <2> QED
    BY <1>1, <1>5, <1>6, <2>4, <2>6, <2>7 DEF m, l, s
<1> QED
  BY <1>1, <1>5, <1>6

\* The headers of an origin are readable for it.
LEMMA HeadersReadable ==
    ASSUME cors \in Configs, NEW e, e.req.origin \in DOMAIN Lower \cup {Absent}, e.req.origin # Absent, NEW p,
           e.hdr = CorsHeaders(cors, e.req.origin, p)
    PROVE  Readable(e)
<1> DEFINE o == e.req.origin
           m == MatchOrigin(cors, o)
           h == e.hdr
<1>1. /\ cors.origins \in Seq(DOMAIN Lower) /\ o \in DOMAIN Lower /\ o # Absent
  BY ConfigAssumption
<1>2. h.acao = m /\ (h.cred <=> m # Absent /\ cors.credentials)
  <2>1. h = WithOrigin(cors, o, p \/ ~AllowAll(cors))
    BY <1>1 DEF CorsHeaders
  <2>2. ASSUME NEW c \in BOOLEAN, NEW v, h = [acao |-> m, cred |-> c, vary |-> v]
        PROVE  h.acao = m /\ (h.cred <=> c)
    BY <2>2
  <2>3. (m # Absent /\ cors.credentials) \in BOOLEAN
    OBVIOUS
  <2>4. h = [acao |-> m, cred |-> m # Absent /\ cors.credentials, vary |-> p \/ ~AllowAll(cors)]
    BY <2>1 DEF WithOrigin
  <2> HIDE DEF h, m
  <2>5. h.acao = m /\ (h.cred <=> (m # Absent /\ cors.credentials))
    BY <2>2, <2>3, <2>4, Zenon
  <2> QED
    BY <2>5
<1>3. CASE AllowAll(cors)
  <2>1. m = "*" /\ ~cors.credentials /\ Permitted(o)
    BY <1>3 DEF MatchOrigin, AllowAll, Permitted
  <2>2. h.acao = "*" /\ ~h.cred
    BY <1>2, <2>1
  <2>3. "*" # Absent
    BY DEF Absent
  <2> HIDE DEF m
  <2>4. Reads(e) /\ e.hdr.acao # Absent /\ e.hdr.acao = "*" /\ ~e.hdr.cred
    BY <2>2, <2>3 DEF Reads
  <2> QED
    BY <1>3, <2>1, <2>4, Zenon DEF Readable
<1>4. CASE ~AllowAll(cors)
  <2> DEFINE n == Named(cors, o)
  <2>1. Permitted(o) <=> \E i \in n : cors.origins[i] = o /\ \A j \in n : j <= i
    BY <1>4 DEF Permitted
  <2>2. IF n = {} THEN m = Absent
        ELSE m # Absent /\ m # "*" /\ \E i \in n : m = cors.origins[i] /\ \A j \in n : j <= i
    BY <1>1, <1>4, MatchIs
  <2>3. n \subseteq Nat
    BY <1>1 DEF Named
  <2> HIDE DEF m, n, h
  <2>4. CASE n = {}
    <3>1. h.acao = Absent /\ ~h.cred /\ ~Permitted(o)
      BY <1>2, <2>1, <2>2, <2>4
    <3>2. h.acao # "*" /\ h.acao # o
      BY <1>1, <3>1 DEF Absent
    <3> QED
      BY <3>1, <3>2 DEF Readable, Reads, h
  <2>5. CASE n # {}
    <3>1. PICK i \in n : m = cors.origins[i] /\ \A j \in n : j <= i
      BY <2>2, <2>5
    <3>2. ASSUME NEW k \in n, \A j \in n : j <= k PROVE k = i
      BY <2>3, <3>1, <3>2
    <3>3. Permitted(o) <=> m = o
      BY <2>1, <3>1, <3>2
    <3>4. m # Absent /\ m # "*"
      BY <2>2, <2>5
    <3> QED
      BY <1>2, <2>5, <3>3, <3>4 DEF Readable, Reads, h, n
  <2> QED
    BY <2>4, <2>5
<1> QED
  BY <1>3, <1>4

\* Every answer of the server, whichever layer gives it, can be read by a
\* browser whose origin is permitted in its very spelling, and by no other.
THEOREM AnswersAreReadable == Spec => []AnswersReadable
<1>1. ASSUME FramedInv, AskedInv PROVE AnswersReadable
  <2> SUFFICES ASSUME ex.at = "answered", ~ex.hit, ex.req.origin # Absent PROVE Readable(ex)
    BY DEF AnswersReadable, Answered
  <2>1. ex.hdr = CorsHeaders(cors, ex.req.origin, Asks(ex.req))
    BY <1>1 DEF FramedInv, Framed, Bare
  <2>2. cors \in Configs /\ ex.req.origin \in DOMAIN Lower \cup {Absent}
    BY <1>1 DEF FramedInv, AskedInv, Asked
  <2> QED
    BY <2>1, <2>2, HeadersReadable
<1>2. Spec => []FramedInv
  BY InitFramed, StepFramed, PTL DEF Spec
<1> QED
  BY <1>1, <1>2, RequestsWellFormed, PTL

\* Where origins are listed, an answer from a shared cache is as readable as
\* the server's own would have been.
THEOREM CacheReadable == Spec => []CacheNeverStale
<1>1. ASSUME FramedInv, AskedInv PROVE CacheNeverStale
  <2> SUFFICES ASSUME ex.at = "answered", ~AllowAll(cors), ex.req.origin # Absent PROVE Readable(ex)
    BY DEF CacheNeverStale, Answered
  <2>1. ex.hdr = CorsHeaders(cors, ex.req.origin, Asks(ex.req))
    BY <1>1 DEF FramedInv, Framed, Bare
  <2>2. cors \in Configs /\ ex.req.origin \in DOMAIN Lower \cup {Absent}
    BY <1>1 DEF FramedInv, AskedInv, Asked
  <2> QED
    BY <2>1, <2>2, HeadersReadable
<1>2. Spec => []FramedInv
  BY InitFramed, StepFramed, PTL DEF Spec
<1> QED
  BY <1>1, <1>2, RequestsWellFormed, PTL

----------------------------------------------------------------------------
(* The catalogue and the key.                                              *)

\* The rows of the catalogue that a run has passed are stored, and a key that
\* is stored came after all of them.
SeedInv ==
    /\ db = [products |-> db.products, keys |-> db.keys]
    /\ db.products \subseteq DOMAIN Catalog /\ db.keys \subseteq SeedKeys
    /\ db.keys # {} => db.products = DOMAIN Catalog
    /\ seed # NotSeeding => /\ seed = [at |-> seed.at, key |-> seed.key]
                            /\ seed.at \in 1..(Len(Catalog) + 2) /\ seed.key \in SeedKeys
                            /\ \A row \in DOMAIN Catalog : row < seed.at => row \in db.products

\* The statements of seed-db: the products, the coupons, the key.
LEMMA UpsertsAre ==
    /\ Len(Catalog) \in Nat /\ DOMAIN Catalog = 1..Len(Catalog)
    /\ Len(upserts) = Len(Catalog) + 2
    /\ \A row \in DOMAIN Catalog : upserts[row] = <<"product", row>>
    /\ upserts[Len(Catalog) + 1] = <<"coupons">> /\ upserts[Len(Catalog) + 2] = <<"key">>
<1> DEFINE n == Len(Catalog)
           U == {<<"product", row>> : row \in DOMAIN Catalog} \cup {<<"coupons">>, <<"key">>}
           c == <<"coupons">>
           k == <<"key">>
<1>1. n \in Nat /\ DOMAIN Catalog = 1..n
  BY CatalogAssumption
<1>2. seedProducts \in Seq(U) /\ Len(seedProducts) = n /\ \A row \in 1..n : seedProducts[row] = <<"product", row>>
  BY <1>1 DEF seedProducts
<1>3. seedCoupons = <<c>> /\ seedAPIKey = <<k>> /\ c \in U /\ k \in U
  BY DEF seedCoupons, seedAPIKey
<1> HIDE DEF U, n, c, k
<1>4. upserts = (seedProducts \o seedCoupons) \o seedAPIKey
  BY DEF upserts
<1> DEFINE f == seedProducts \o seedCoupons
<1>5. /\ f \in Seq(U) /\ Len(f) = n + 1 /\ f[n + 1] = c
      /\ \A row \in 1..n : f[row] = seedProducts[row]
  BY <1>1, <1>2, <1>3
<1> HIDE DEF f
<1>6. Len(upserts) = n + 2 /\ upserts[n + 2] = k /\ \A row \in 1..(n + 1) : upserts[row] = f[row]
  BY <1>1, <1>3, <1>4, <1>5 DEF f
<1>7. \A row \in 1..n : upserts[row] = <<"product", row>>
  BY <1>1, <1>2, <1>5, <1>6
<1>8. upserts[n + 1] = c
  BY <1>1, <1>5, <1>6
<1> QED
  BY <1>1, <1>6, <1>7, <1>8 DEF n, c, k

\* What is stored after the upsert number k of a run with this key.
StoredAt(k, key, d) ==
    /\ d = [products |-> d.products, keys |-> d.keys]
    /\ k <= Len(Catalog) => d.products = db.products \cup {k} /\ d.keys = db.keys
    /\ k = Len(Catalog) + 1 => d = db
    /\ k = Len(Catalog) + 2 => d.products = db.products /\ d.keys = {key}

\* What each statement stores.
LEMMA StoredIs ==
    ASSUME SeedInv, NEW k, k \in 1..(Len(Catalog) + 2), NEW key, NEW d, d = Stored(upserts[k], key)
    PROVE  StoredAt(k, key, d)
<1> USE DEF StoredAt
<1>1. Len(Catalog) \in Nat /\ db = [products |-> db.products, keys |-> db.keys]
  BY UpsertsAre DEF SeedInv
<1>2. CASE k <= Len(Catalog)
  <2>1. upserts[k] = <<"product", k>>
    BY <1>1, <1>2, UpsertsAre
  <2>2. upserts[k][1] = "product" /\ upserts[k][2] = k
    BY <2>1
  <2>3. Stored(upserts[k], key) = [db EXCEPT !.products = @ \cup {k}]
    BY <2>2 DEF Stored
  <2>4. d = [products |-> db.products \cup {k}, keys |-> db.keys]
    BY <1>1, <2>3
  <2>5. k # Len(Catalog) + 1 /\ k # Len(Catalog) + 2
    BY <1>1, <1>2
  <2> QED
    BY <2>4, <2>5
<1>3. CASE k = Len(Catalog) + 1
  <2>1. upserts[k][1] = "coupons"
    BY <1>1, <1>3, UpsertsAre
  <2>2. Stored(upserts[k], key) = db
    BY <2>1 DEF Stored
  <2> QED
    BY <1>1, <1>3, <2>2
<1>4. CASE k = Len(Catalog) + 2
  <2>1. upserts[k][1] = "key"
    BY <1>1, <1>4, UpsertsAre
  <2>2. Stored(upserts[k], key) = [db EXCEPT !.keys = {key}]
    BY <2>1 DEF Stored
  <2>3. d = [products |-> db.products, keys |-> {key}]
    BY <1>1, <2>2
  <2>4. k # Len(Catalog) + 1 /\ ~(k <= Len(Catalog))
    BY <1>1, <1>4
  <2> QED
    BY <2>3, <2>4
<1> QED
  BY <1>1, <1>2, <1>3, <1>4

\* The database is empty at first.
LEMMA InitSeed == Init => SeedInv
  BY DEF Init, SeedInit, SeedInv

\* One statement of seed-db keeps the order: products, then the key.
LEMMA StoreSeed ==
    ASSUME SeedInv, seed # NotSeeding, NEW d, d = Stored(upserts[seed.at], seed.key)
    PROVE  /\ d = [products |-> d.products, keys |-> d.keys]
           /\ d.products \subseteq DOMAIN Catalog /\ d.keys \subseteq SeedKeys
           /\ d.keys # {} => d.products = DOMAIN Catalog
           /\ \A row \in DOMAIN Catalog : row < seed.at + 1 => row \in d.products
           /\ db.keys # {} => d.keys # {}
<1> DEFINE n == Len(Catalog)
           k == seed.at
           p == db.products
           q == d.products
<1>0. n \in Nat /\ DOMAIN Catalog = 1..n
  BY UpsertsAre
<1>1. /\ p \subseteq 1..n /\ db.keys \subseteq SeedKeys
      /\ db.keys # {} => p = 1..n
      /\ seed.at \in 1..(Len(Catalog) + 2) /\ seed.key \in SeedKeys
      /\ \A row \in 1..n : row < k => row \in p
  BY <1>0 DEF SeedInv
<1>a. StoredAt(seed.at, seed.key, d)
  BY <1>1, StoredIs
<1>2. /\ d = [products |-> d.products, keys |-> d.keys]
      /\ seed.at <= Len(Catalog) => d.products = db.products \cup {seed.at} /\ d.keys = db.keys
      /\ seed.at = Len(Catalog) + 1 => d = db
      /\ seed.at = Len(Catalog) + 2 => d.products = db.products /\ d.keys = {seed.key}
  BY <1>a, Zenon DEF StoredAt
<1>3. k \in 1..(n + 2)
  BY <1>1
<1>4. /\ k <= n => q = p \cup {k} /\ d.keys = db.keys
      /\ k = n + 1 => q = p /\ d.keys = db.keys
      /\ k = n + 2 => q = p /\ d.keys = {seed.key}
  BY <1>2, Zenon
<1> SUFFICES /\ q \subseteq 1..n /\ d.keys \subseteq SeedKeys
             /\ d.keys # {} => q = 1..n
             /\ \A row \in 1..n : row < k + 1 => row \in q
             /\ db.keys # {} => d.keys # {}
  BY <1>0, <1>2
<1> HIDE DEF n, k, p, q
<1>5. CASE k <= n
  <2>1. q = p \cup {k} /\ d.keys = db.keys /\ k \in 1..n
    BY <1>0, <1>3, <1>4, <1>5
  <2>2. ASSUME NEW row \in 1..n, row < k + 1 PROVE row \in q
    BY <1>0, <1>1, <1>3, <2>1, <2>2
  <2> QED
    BY <1>1, <2>1, <2>2
<1>6. CASE k = n + 1
  <2>1. q = p /\ d.keys = db.keys
    BY <1>4, <1>6
  <2>2. \A row \in 1..n : row < k
    BY <1>0, <1>6
  <2> QED
    BY <1>1, <2>1, <2>2
<1>7. CASE k = n + 2
  <2>1. \A row \in 1..n : row \in p
    BY <1>0, <1>1, <1>7
  <2>2. p = 1..n
    BY <1>1, <2>1
  <2> QED
    BY <1>1, <1>4, <1>7, <2>2
<1> QED
  BY <1>0, <1>3, <1>5, <1>6, <1>7

\* Every step keeps it, and a key that is stored stays.
LEMMA StepSeed == SeedInv /\ [Next]_vars => SeedInv' /\ (db.keys # {} => db'.keys # {})
<1> SUFFICES ASSUME SeedInv, [Next]_vars PROVE SeedInv' /\ (db.keys # {} => db'.keys # {})
  OBVIOUS
<1>0. Len(Catalog) \in Nat /\ Len(upserts) = Len(Catalog) + 2 /\ DOMAIN Catalog = 1..Len(Catalog)
  BY UpsertsAre
<1>1. CASE UNCHANGED seedVars
  BY <1>1 DEF SeedInv, seedVars
<1>2. CASE StartSeed
  <2>1. PICK key \in SeedKeys : seed' = [at |-> 1, key |-> key]
    BY <1>2 DEF StartSeed
  <2>2. UNCHANGED db
    BY <1>2 DEF StartSeed
  <2>3. seed' = [at |-> seed'.at, key |-> seed'.key] /\ seed'.at = 1 /\ seed'.key \in SeedKeys
    BY <2>1
  <2>4. 1 \in 1..(Len(Catalog) + 2) /\ \A row \in DOMAIN Catalog : ~(row < 1)
    BY <1>0
  <2> QED
    BY <2>2, <2>3, <2>4 DEF SeedInv
<1>3. CASE Upsert
  <2>1. seed # NotSeeding /\ db' = Stored(upserts[seed.at], seed.key)
        /\ seed' = IF seed.at = Len(upserts) THEN NotSeeding ELSE [seed EXCEPT !.at = @ + 1]
    BY <1>3 DEF Upsert
  <2>2. /\ db' = [products |-> db'.products, keys |-> db'.keys]
        /\ db'.products \subseteq DOMAIN Catalog /\ db'.keys \subseteq SeedKeys
        /\ db'.keys # {} => db'.products = DOMAIN Catalog
        /\ \A row \in DOMAIN Catalog : row < seed.at + 1 => row \in db'.products
        /\ db.keys # {} => db'.keys # {}
    BY <2>1, StoreSeed
  <2>3. seed = [at |-> seed.at, key |-> seed.key] /\ seed.at \in 1..(Len(Catalog) + 2) /\ seed.key \in SeedKeys
    BY <2>1 DEF SeedInv
  <2>4. CASE seed' = NotSeeding
    BY <2>2, <2>4 DEF SeedInv
  <2>5. CASE seed.at # Len(upserts) /\ seed' = [seed EXCEPT !.at = @ + 1]
    <3>1. seed' = [at |-> seed.at + 1, key |-> seed.key]
      BY <2>3, <2>5
    <3>2. seed.at + 1 \in 1..(Len(Catalog) + 2)
      BY <1>0, <2>3, <2>5
    <3>3. seed' = [at |-> seed'.at, key |-> seed'.key] /\ seed'.at = seed.at + 1 /\ seed'.key = seed.key
      BY <3>1
    <3> QED
      BY <2>2, <2>3, <3>2, <3>3 DEF SeedInv
  <2> QED
    BY <2>1, <2>4, <2>5
<1>4. CASE SeedFails
  <2>1. seed # NotSeeding /\ seed' = NotSeeding /\ (db' = db \/ db' = Stored(upserts[seed.at], seed.key))
    BY <1>4 DEF SeedFails
  <2>2. CASE db' = db
    BY <2>1, <2>2 DEF SeedInv
  <2>3. CASE db' = Stored(upserts[seed.at], seed.key)
    BY <2>1, <2>3, StoreSeed DEF SeedInv
  <2> QED
    BY <2>1, <2>2, <2>3
<1>5. Ask \/ Follow \/ Deliver \/ FromCache \/ CORS \/ RateLimit \/ RequestID \/ Labeler \/ Route
      \/ Security \/ DecodeParams \/ DecodeRequest \/ Handle \/ Encode \/ ErrorHandler \/ Recover
      => UNCHANGED seedVars
  BY DEF Ask, Follow, Deliver, FromCache, CORS, RateLimit, RequestID, Labeler, Route, Security, DecodeParams,
         DecodeRequest, Handle, Encode, ErrorHandler, Recover, At
<1> QED
  BY <1>1, <1>2, <1>3, <1>4, <1>5 DEF Next, Seed, vars

\* In every behaviour, also where seed-db breaks off and is run again, a key is
\* stored only when every product of the file is (cmd/seed-db 94-102).
THEOREM KeyComesLast == Spec => []SeedInv
  BY InitSeed, StepSeed, PTL DEF Spec

\* An order is decoded, handled or asked for only where a key is stored.
Keyed(e) == e.op = "placeOrder" /\ (e.at \in {"decode", "handle"} \/ e.asked # {}) => db.keys # {}

\* The inductive invariant of authorised requests.
KeyedInv == WayInv /\ SeedInv /\ Keyed(ex) /\ \A c \in cache : Keyed(c)

\* Nobody is authorised at first.
LEMMA InitKeyed == Init => KeyedInv
<1> SUFFICES ASSUME Init PROVE KeyedInv
  OBVIOUS
<1>1. ex.op = "none" /\ cache = {}
  BY DEF Init, Visit, Fresh
<1> QED
  BY <1>1, InitWay, InitSeed DEF KeyedInv, Keyed

\* A request that is let in has found a key in the database.
LEMMA OnwardKeyed ==
    ASSUME KeyedInv, Onward
    PROVE  Keyed(ex')
<1>0. TellInv /\ Told(ex) /\ Keyed(ex) /\ SeedInv
  BY DEF KeyedInv, WayInv, TellInv
<1>1. UNCHANGED seedVars
  BY <1>0, OnwardKeeps
<1>2. UNCHANGED db
  BY <1>1 DEF seedVars
<1>3. ASSUME ex'.op = ex.op, ex'.asked = ex.asked,
             ex'.at \in {"decode", "handle"} => ex.at \in {"decode", "handle"}
      PROVE  Keyed(ex')
  BY <1>0, <1>2, <1>3 DEF Keyed
<1>4. CASE CORS \/ RateLimit \/ RequestID \/ Labeler
  <2>1. ex'.op = ex.op /\ ex'.asked = ex.asked
    BY <1>0, <1>4, CorsMoves, LimitMoves, IdMoves, LabelMoves DEF Becoming, Fields
  <2>2. ex'.at \in {"limit", "deliver", "id", "label", "mux"}
    BY <1>0, <1>4, CorsMoves, LimitMoves, IdMoves, LabelMoves
  <2> QED
    BY <1>3, <2>1, <2>2
<1>5. CASE Route
  <2>1. ex.at = "mux" /\ ex.asked = {}
    BY <1>0, <1>5, RouteMoves DEF Told, Outer, Silent
  <2>2. CASE ex'.at = "deliver" /\ Becoming(ex, ex', {"at", "status", "ctype", "docs"})
    BY <1>3, <2>2 DEF Becoming, Fields
  <2>3. CASE \E leaf \in ServeHTTP(URL(ex.req.path)) :
                  Becoming(ex, ex', {"at", "op", "arg"}) /\ ex'.op = leaf.op /\ ex'.at = Steps(leaf.op)[1]
    <3>1. ex'.asked = {}
      BY <2>1, <2>3 DEF Becoming, Fields
    <3>2. ex'.op = "placeOrder" => ex'.at = "security"
      BY <2>3, StepsFollow
    <3> QED
      BY <3>1, <3>2 DEF Keyed
  <2> QED
    BY <1>0, <1>5, <2>2, <2>3, RouteMoves
<1>6. CASE Security \/ DecodeParams \/ DecodeRequest
  <2>1. /\ ex'.op = ex.op /\ ex'.asked = ex.asked
    BY <1>0, <1>6, ChecksMove DEF Becoming, Fields
  <2>2. CASE ex.at = "security" /\ ex'.at = "decode"
    <3>1. db.keys # {}
      BY <1>0, <1>6, <2>2, ChecksMove
    <3> QED
      BY <1>2, <3>1 DEF Keyed
  <2>3. CASE ex.at # "security" \/ ex'.at # "decode"
    <3>1. ex.at \in {"decode", "params"} \/ ex'.at = "error"
      BY <1>0, <1>6, <2>3, ChecksMove
    <3>2. ex.at = "params" => ex.op = "getProduct"
      BY <1>0 DEF Told
    <3>3. CASE ex.at = "params"
      BY <2>1, <3>2, <3>3 DEF Keyed
    <3> QED
      BY <1>3, <2>1, <3>1, <3>3
  <2> QED
    BY <2>2, <2>3
<1>7. CASE Handle
  <2>1. ex.at = "handle" /\ ex'.op = ex.op /\ ex'.at \in {"encode", "error", "panic"}
    BY <1>0, <1>7, HandleMoves DEF Becoming, Fields
  <2> QED
    BY <1>0, <1>2, <2>1 DEF Keyed
<1>8. CASE Encode \/ ErrorHandler \/ Recover
  <2>1. ex'.op = ex.op /\ ex'.asked = ex.asked /\ ex'.at \in {"deliver", "error"}
    BY <1>0, <1>8, EncodeMoves, LastMoves DEF Becoming, Fields
  <2> QED
    BY <1>3, <2>1
<1>9. CASE Deliver
  <2>1. ex'.op = ex.op /\ ex'.asked = ex.asked /\ ex'.at = "answered"
    BY <1>0, <1>9, DeliverMoves DEF Becoming, Fields
  <2> QED
    BY <1>3, <2>1
<1> QED
  BY <1>4, <1>5, <1>6, <1>7, <1>8, <1>9 DEF Onward

\* Every step keeps it.
LEMMA StepKeyed == KeyedInv /\ [Next]_vars => KeyedInv'
<1> SUFFICES ASSUME KeyedInv, [Next]_vars PROVE KeyedInv'
  OBVIOUS
<1>0. /\ TellInv /\ Keyed(ex) /\ \A c \in cache : Keyed(c)
      /\ WayInv' /\ SeedInv' /\ (db.keys # {} => db'.keys # {})
  BY StepWay, StepSeed DEF KeyedInv, WayInv
<1>1. ASSUME NEW e, Keyed(e) PROVE e.op = "placeOrder" /\ (e.at \in {"decode", "handle"} \/ e.asked # {}) => db'.keys # {}
  BY <1>0, <1>1 DEF Keyed
<1>2. ASSUME Keyed(ex'), \A c \in cache' : c \in cache \/ c = ex PROVE KeyedInv'
  BY <1>0, <1>1, <1>2 DEF KeyedInv, Keyed
<1>3. CASE UNCHANGED <<ex, cache>>
  BY <1>0, <1>1, <1>3 DEF KeyedInv, Keyed
<1>4. CASE Onward
  BY <1>0, <1>2, <1>4, OnwardKeyed, OnwardKeeps
<1>5. CASE FromCache
  <2>1. UNCHANGED <<cache, seedVars>>
    BY <1>0, <1>5, CacheKeeps
  <2>2. CASE ex'.at = "cors" /\ Becoming(ex, ex', {"at"})
    <3>1. ex'.op = ex.op /\ ex'.asked = ex.asked
      BY <2>2 DEF Becoming, Fields
    <3> QED
      BY <1>0, <1>2, <2>1, <2>2, <3>1 DEF Keyed, seedVars
  <2>3. CASE \E c \in cache : Becoming(c, ex', {"req", "call", "hit"})
    <3>1. PICK c \in cache : Becoming(c, ex', {"req", "call", "hit"})
      BY <2>3
    <3>2. ex'.op = c.op /\ ex'.asked = c.asked /\ ex'.at = c.at
      BY <3>1 DEF Becoming, Fields
    <3> QED
      BY <1>0, <1>2, <2>1, <3>2 DEF Keyed, seedVars
  <2> QED
    BY <1>0, <1>5, <2>2, <2>3, CacheMoves
<1>6. CASE Ask \/ Follow
  <2>1. ex'.op = "none" /\ UNCHANGED cache
    BY <1>6 DEF Ask, Follow, Becomes, Visit, Fresh
  <2> QED
    BY <1>2, <2>1 DEF Keyed
<1> QED
  BY <1>3, <1>4, <1>5, <1>6, Kinds DEF vars

\* seed-db writes the key last, so whoever is authorised finds every product
\* of the file, also while the tool runs and after a run that broke off.
THEOREM CatalogSeen == Spec => []AuthorisedSeesCatalog
<1>1. ASSUME KeyedInv PROVE AuthorisedSeesCatalog
  <2> SUFFICES ASSUME NEW a \in ex.asked, a[1] = "placeOrder", NEW i \in DOMAIN Catalog
               PROVE  With(Catalog[i].id) # {}
    BY DEF AuthorisedSeesCatalog
  <2>1. Way(ex) /\ Keyed(ex) /\ SeedInv
    BY <1>1 DEF KeyedInv, WayInv
  <2>2. a = <<ex.op, ex.arg>>
    BY <2>1 DEF Way
  <2>3. ex.op = "placeOrder"
    BY <2>2
  <2>4. i \in db.products
    BY <2>1, <2>3 DEF Keyed, SeedInv
  <2> QED
    BY <2>4 DEF With
<1>2. Spec => []KeyedInv
  BY InitKeyed, StepKeyed, PTL DEF Spec
<1> QED
  BY <1>1, <1>2, PTL

----------------------------------------------------------------------------
(* The codecs.  A decoder is a fold over the pairs of an object or the    *)
(* elements of a list; what it folds to is said here without the fold.     *)

\* The last element is folded last.
Greatest(n) == [s \in SUBSET (1..n) |-> Max(s)]

\* A fold from the left, one element after the other.
Chained(r, n, B, base, G) ==
    /\ r \in [0..n -> B]
    /\ r[0] = base
    /\ \A i \in 1..n : r[i] = G[i][r[i - 1]]

\* Max is the greatest element.
LEMMA GreatestIn ==
    ASSUME NEW n \in Nat, NEW s \in SUBSET (1..n), s # {}
    PROVE  Max(s) \in s /\ \A x \in s : x <= Max(s)
<1>1. IsFiniteSet(s) /\ s \subseteq Int
  <2>1. IsFiniteSet(1..n)
    BY FS_Interval
  <2>2. IsFiniteSet(s)
    BY <2>1, FS_Subset
  <2>3. \A x \in 1..n : x \in Int
    OBVIOUS
  <2> QED
    BY <2>2, <2>3
<1>2. \E m \in s : \A x \in s : x <= m
  BY <1>1, FiniteMax
<1> QED
  BY <1>1, <1>2 DEF Max

\* A fold from the left is a chain.
LEMMA ChainOf ==
    ASSUME NEW n \in Nat, NEW B, NEW base \in B, NEW G \in [1..n -> [B -> B]]
    PROVE  \E f, r : /\ IsFold(f, 1..n, B, base, Greatest(n), G)
                     /\ Chained(r, n, B, base, G)
                     /\ r[n] = f[1..n]
<1>1. Foldable(1..n, B, base, Greatest(n), G)
  <2>1. \A s \in SUBSET (1..n) : s # {} => Greatest(n)[s] \in s
    BY GreatestIn DEF Greatest
  <2>2. IsFiniteSet(1..n)
    BY FS_Interval
  <2> QED
    BY <2>1, <2>2 DEF Foldable
<1>2. PICK f : IsFold(f, 1..n, B, base, Greatest(n), G)
  BY <1>1, FoldExists
<1> DEFINE r == [i \in 0..n |-> f[1..i]]
<1>3. f \in [SUBSET (1..n) -> B] /\ f[{}] = base
      /\ \A s \in SUBSET (1..n) : s # {} => f[s] = G[Max(s)][f[s \ {Max(s)}]]
  BY <1>2 DEF IsFold, Unfolds, Greatest
<1>4. ASSUME NEW i \in 1..n PROVE r[i] = G[i][r[i - 1]]
  <2>1. 1..i \in SUBSET (1..n) /\ i \in 1..i /\ i - 1 \in 0..n /\ (1..i) \ {i} = 1..(i - 1)
    OBVIOUS
  <2>2. Max(1..i) = i
    <3>1. Max(1..i) \in 1..i /\ \A x \in 1..i : x <= Max(1..i)
      BY <2>1, GreatestIn
    <3> QED
      BY <2>1, <3>1
  <2>3. f[1..i] = G[i][f[1..(i - 1)]]
    BY <1>3, <2>1, <2>2
  <2> QED
    BY <2>1, <2>3
<1>5. r \in [0..n -> B]
  <2>1. \A i \in 0..n : 1..i \in SUBSET (1..n)
    OBVIOUS
  <2> QED
    BY <1>3, <2>1
<1>6. r[0] = base /\ r[n] = f[1..n]
  <2>1. 1..0 = {}
    OBVIOUS
  <2> QED
    BY <1>3, <2>1
<1>7. Chained(r, n, B, base, G)
  BY <1>4, <1>5, <1>6 DEF Chained
<1> QED
  BY <1>2, <1>6, <1>7

----------------------------------------------------------------------------
(* Lists.  el[i] is the set of values that the i-th element decodes to.    *)

\* What an element may decode to, and the sets of lists of that.
Elements(el) == UNION {el[i] : i \in DOMAIN el}
Lists(el)    == SUBSET Seq(Elements(el))

\* Every list with one more element.
Longer(done, values) == {Append(s, e) : s \in done, e \in values}

\* The steps of DecodeList.
Appending(el) == [i \in DOMAIN el |-> [done \in Lists(el) |-> Longer(done, el[i])]]

\* The lists of m values.
Listings(el, m) == {s \in Seq(Elements(el)) : Len(s) = m /\ \A i \in 1..m : s[i] \in el[i]}

\* They keep to lists of values.
LEMMA AppendingType ==
    ASSUME NEW n \in Nat, NEW el, DOMAIN el = 1..n
    PROVE  /\ Appending(el) \in [1..n -> [Lists(el) -> Lists(el)]]
           /\ {<<>>} \in Lists(el)
<1>1. ASSUME NEW i \in 1..n, NEW done \in Lists(el), NEW s \in done, NEW e \in el[i]
      PROVE  Append(s, e) \in Seq(Elements(el))
  <2>1. s \in Seq(Elements(el)) /\ e \in Elements(el)
    BY <1>1 DEF Lists, Elements
  <2> QED
    BY <2>1
<1>2. \A i \in 1..n : \A done \in Lists(el) : Longer(done, el[i]) \in Lists(el)
  BY <1>1 DEF Lists, Longer
<1>3. <<>> \in Seq(Elements(el))
  OBVIOUS
<1> QED
  BY <1>2, <1>3 DEF Appending, Lists

\* Decoding a list element by element gives the lists of their values.
LEMMA ListChain ==
    ASSUME NEW n \in Nat, NEW el, DOMAIN el = 1..n, NEW r, Chained(r, n, Lists(el), {<<>>}, Appending(el))
    PROVE  r[n] = Listings(el, n)
<1> DEFINE T == {m \in Nat : m <= n => r[m] = Listings(el, m)}
<1>1. 0 \in T
  <2>1. r[0] = {<<>>}
    BY DEF Chained
  <2>2. \A s \in Seq(Elements(el)) : Len(s) = 0 => s = <<>>
    OBVIOUS
  <2>3. <<>> \in Listings(el, 0)
    BY DEF Listings
  <2>4. \A s \in Listings(el, 0) : s = <<>>
    BY <2>2 DEF Listings
  <2> QED
    BY <2>1, <2>3, <2>4
<1>2. ASSUME NEW m \in Nat, m \in T PROVE m + 1 \in T
  <2> SUFFICES ASSUME m + 1 <= n PROVE r[m + 1] = Listings(el, m + 1)
    OBVIOUS
  <2>1. r[m] = Listings(el, m) /\ r[m] \in Lists(el) /\ m + 1 \in 1..n
    BY <1>2 DEF Chained
  <2>2. r[m + 1] = Longer(r[m], el[m + 1])
    <3>1. r[m + 1] = Appending(el)[m + 1][r[(m + 1) - 1]] /\ (m + 1) - 1 = m
      BY <2>1 DEF Chained
    <3> QED
      BY <2>1, <3>1 DEF Appending
  <2>3. \A e \in el[m + 1] : e \in Elements(el)
    BY <2>1 DEF Elements
  <2>4. ASSUME NEW s \in Listings(el, m), NEW e \in el[m + 1]
        PROVE  Append(s, e) \in Listings(el, m + 1)
    <3>1. s \in Seq(Elements(el)) /\ e \in Elements(el) /\ Len(s) = m
      BY <2>3, <2>4 DEF Listings
    <3>2. Append(s, e) \in Seq(Elements(el)) /\ Len(Append(s, e)) = m + 1
      BY <3>1
    <3>3. \A i \in 1..(m + 1) : Append(s, e)[i] = IF i = m + 1 THEN e ELSE s[i]
      BY <3>1
    <3>4. \A i \in 1..(m + 1) : i # m + 1 => i \in 1..m
      OBVIOUS
    <3>5. \A i \in 1..(m + 1) : Append(s, e)[i] \in el[i]
      BY <2>4, <3>3, <3>4 DEF Listings
    <3> QED
      BY <3>2, <3>5 DEF Listings
  <2>5. ASSUME NEW t \in Listings(el, m + 1)
        PROVE  \E s \in Listings(el, m) : \E e \in el[m + 1] : t = Append(s, e)
    <3> DEFINE s == SubSeq(t, 1, m)
    <3>1. t \in Seq(Elements(el)) /\ Len(t) = m + 1 /\ t[m + 1] \in el[m + 1]
      BY <2>5 DEF Listings
    <3>2. s \in Seq(Elements(el)) /\ Len(s) = m /\ \A i \in 1..m : s[i] = t[i]
      BY <3>1
    <3>3. t = Append(s, t[m + 1])
      BY <3>1, <3>2
    <3>4. \A i \in 1..m : s[i] \in el[i]
      BY <2>5, <3>2 DEF Listings
    <3>5. s \in Listings(el, m)
      BY <3>2, <3>4 DEF Listings
    <3> QED
      BY <3>1, <3>3, <3>5
  <2>6. Longer(Listings(el, m), el[m + 1]) = Listings(el, m + 1)
    <3> DEFINE L == Longer(Listings(el, m), el[m + 1])
    <3>1. \A t : t \in L <=> \E s \in Listings(el, m) : \E e \in el[m + 1] : t = Append(s, e)
      BY DEF Longer
    <3> HIDE DEF L
    <3>2. \A t : t \in L => t \in Listings(el, m + 1)
      <4> SUFFICES ASSUME NEW t \in L PROVE t \in Listings(el, m + 1)
        OBVIOUS
      <4>1. PICK s \in Listings(el, m), e \in el[m + 1] : t = Append(s, e)
        BY <3>1
      <4>2. Append(s, e) \in Listings(el, m + 1)
        BY <2>4
      <4> QED
        BY <4>1, <4>2
    <3>3. \A t : t \in Listings(el, m + 1) => t \in L
      BY <2>5, <3>1
    <3>4. L = Listings(el, m + 1)
      BY <3>2, <3>3
    <3> QED
      BY <3>4 DEF L
  <2> QED
    BY <2>1, <2>2, <2>6
<1>3. Nat \subseteq T
  <2> HIDE DEF T
  <2> QED
    BY <1>1, <1>2, NatSet
<1> QED
  BY <1>3

----------------------------------------------------------------------------
(* Objects.  val[f][i] is the set of values that the i-th pair decodes to   *)
(* if it is one of the field f.                                            *)

\* The keys of a schema.
Keys(fields) == {f.key : f \in Range(fields)}

\* No two fields of a schema have one key.
KeysDiffer(fields) == \A f, g \in Range(fields) : f.key = g.key => f = g

\* What the pairs of an object may decode to.
Held(fields, n, val) == UNION {val[f][i] : f \in Range(fields), i \in 1..n}

\* The structs that can be made of that.
Structs(fields, n, val) == [Keys(fields) -> {<<>>} \cup {<<v>> : v \in Held(fields, n, val)}]

\* What one pair does to a struct.
Put(fields, pairs, val, i, s) ==
    IF \E f \in Range(fields) : f.key = pairs[i][1]
    THEN UNION {{[s EXCEPT ![f.key] = <<v>>] : v \in val[f][i]} :
                   f \in {g \in Range(fields) : g.key = pairs[i][1]}}
    ELSE {s}

\* The steps of DecodeObject.
Putting(fields, pairs, n, val) ==
    [i \in 1..n |-> [done \in SUBSET Structs(fields, n, val) |->
                        UNION {Put(fields, pairs, val, i, s) : s \in done}]]

\* The pair i is the last of the first m with the key k.
LastNamed(pairs, k, i, m) ==
    /\ i \in 1..m /\ pairs[i][1] = k
    /\ \A j \in (i + 1)..m : pairs[j][1] # k

\* The slot of f after m pairs.
Slot(f, pairs, val, m, slot) ==
    \/ (\A i \in 1..m : pairs[i][1] # f.key) /\ slot = <<>>
    \/ \E i \in 1..m : LastNamed(pairs, f.key, i, m) /\ \E v \in val[f][i] : slot = <<v>>

\* Every known pair among the first m decodes to something.
Sound(fields, pairs, val, m) ==
    \A i \in 1..m : \A f \in Range(fields) : f.key = pairs[i][1] => val[f][i] # {}

\* The structs after m pairs.
Readings(fields, pairs, n, val, m) ==
    {s \in Structs(fields, n, val) :
        Sound(fields, pairs, val, m) /\ \A f \in Range(fields) : Slot(f, pairs, val, m, s[f.key])}

\* They keep to structs.
LEMMA PuttingType ==
    ASSUME NEW fields, NEW pairs, NEW n \in Nat, NEW val
    PROVE  /\ Putting(fields, pairs, n, val)
                \in [1..n -> [SUBSET Structs(fields, n, val) -> SUBSET Structs(fields, n, val)]]
           /\ {Zero(fields)} \in SUBSET Structs(fields, n, val)
<1> DEFINE S == Structs(fields, n, val)
<1>1. ASSUME NEW i \in 1..n, NEW s \in S, NEW f \in Range(fields), NEW v \in val[f][i]
      PROVE  [s EXCEPT ![f.key] = <<v>>] \in S
  <2>1. v \in Held(fields, n, val) /\ f.key \in Keys(fields)
    BY <1>1 DEF Held, Keys
  <2> QED
    BY <2>1 DEF Structs
<1>2. \A i \in 1..n : \A s \in S : Put(fields, pairs, val, i, s) \in SUBSET S
  <2> HIDE DEF S
  <2> QED
    BY <1>1 DEF Put
<1>3. Zero(fields) \in S
  BY DEF Zero, Structs, Keys, Range
<1> HIDE DEF S
<1>4. \A i \in 1..n : \A done \in SUBSET S : UNION {Put(fields, pairs, val, i, s) : s \in done} \in SUBSET S
  BY <1>2
<1> QED
  BY <1>3, <1>4 DEF Putting, S

\* A key that is named is named for a last time.
LEMMA LastOne ==
    ASSUME NEW pairs, NEW k, NEW m \in Nat, NEW i \in 1..m, pairs[i][1] = k
    PROVE  \E j \in 1..m : LastNamed(pairs, k, j, m)
<1> DEFINE S == {j \in 1..m : pairs[j][1] = k}
<1>1. IsFiniteSet(S) /\ S # {}
  <2>1. IsFiniteSet(1..m)
    BY FS_Interval
  <2> QED
    BY <2>1, FS_Subset
<1>2. PICK j \in S : \A x \in S : x <= j
  <2>1. S \subseteq Int
    OBVIOUS
  <2> HIDE DEF S
  <2> QED
    BY <1>1, <2>1, FiniteMax
<1> QED
  BY <1>2 DEF LastNamed

\* One more pair, of another field.
LEMMA SlotKept ==
    ASSUME NEW f, NEW pairs, NEW val, NEW m \in Nat \ {0}, NEW slot, pairs[m][1] # f.key
    PROVE  Slot(f, pairs, val, m, slot) <=> Slot(f, pairs, val, m - 1, slot)
<1>1. \A i : i \in 1..m <=> i \in 1..(m - 1) \/ i = m
  OBVIOUS
<1>2. ASSUME NEW i \in 1..(m - 1)
      PROVE  LastNamed(pairs, f.key, i, m) <=> LastNamed(pairs, f.key, i, m - 1)
  <2>1. \A j : j \in (i + 1)..m <=> j \in (i + 1)..(m - 1) \/ j = m
    BY <1>2
  <2> QED
    BY <1>1, <2>1 DEF LastNamed
<1>3. ~LastNamed(pairs, f.key, m, m)
  BY DEF LastNamed
<1> QED
  BY <1>1, <1>2, <1>3 DEF Slot

\* Some slot is left after any number of pairs that all decode.
LEMMA SlotLeft ==
    ASSUME NEW fields, NEW pairs, NEW n \in Nat, NEW val, NEW m \in 0..n, Sound(fields, pairs, val, m),
           NEW g \in Range(fields)
    PROVE  \E x \in {<<>>} \cup {<<v>> : v \in Held(fields, n, val)} : Slot(g, pairs, val, m, x)
<1>1. CASE \A i \in 1..m : pairs[i][1] # g.key
  <2>1. Slot(g, pairs, val, m, <<>>)
    BY <1>1 DEF Slot
  <2> QED
    BY <2>1
<1>2. CASE \E i \in 1..m : pairs[i][1] = g.key
  <2>1. PICK i \in 1..m : pairs[i][1] = g.key
    BY <1>2
  <2>2. PICK j \in 1..m : LastNamed(pairs, g.key, j, m)
    BY <2>1, LastOne
  <2>3. val[g][j] # {}
    BY <2>2 DEF LastNamed, Sound
  <2>4. PICK v \in val[g][j] : TRUE
    BY <2>3
  <2>5. j \in 1..n
    BY <2>2
  <2>6. v \in Held(fields, n, val)
    BY <2>4, <2>5 DEF Held
  <2>7. Slot(g, pairs, val, m, <<v>>)
    BY <2>2, <2>4 DEF Slot
  <2> QED
    BY <2>6, <2>7
<1> QED
  BY <1>1, <1>2

\* One more pair, of no field.
LEMMA ReadUnknown ==
    ASSUME NEW fields, NEW pairs, NEW n \in Nat, NEW val, NEW m \in 1..n,
           \A f \in Range(fields) : f.key # pairs[m][1]
    PROVE  Readings(fields, pairs, n, val, m) = Readings(fields, pairs, n, val, m - 1)
<1>1. Sound(fields, pairs, val, m) <=> Sound(fields, pairs, val, m - 1)
  <2>1. \A i : i \in 1..m <=> i \in 1..(m - 1) \/ i = m
    OBVIOUS
  <2> QED
    BY <2>1 DEF Sound
<1>2. \A f \in Range(fields) : \A slot : Slot(f, pairs, val, m, slot) <=> Slot(f, pairs, val, m - 1, slot)
  BY SlotKept
<1> QED
  BY <1>1, <1>2 DEF Readings

\* One more pair, of a field.
LEMMA ReadKnown ==
    ASSUME NEW fields, KeysDiffer(fields), NEW pairs, NEW n \in Nat, NEW val, NEW m \in 1..n,
           NEW g \in Range(fields), g.key = pairs[m][1], NEW t
    PROVE  t \in Readings(fields, pairs, n, val, m)
             <=> \E s \in Readings(fields, pairs, n, val, m - 1) : \E v \in val[g][m] : t = [s EXCEPT ![g.key] = <<v>>]
<1> DEFINE R(k) == Readings(fields, pairs, n, val, k)
           S == Structs(fields, n, val)
<1>0. \A s \in S : DOMAIN s = Keys(fields)
  BY DEF Structs
<1>1. \A f \in Range(fields) : f.key \in Keys(fields) /\ (f.key = pairs[m][1] => f = g)
  BY DEF Keys, KeysDiffer
<1>2. Sound(fields, pairs, val, m) <=> Sound(fields, pairs, val, m - 1) /\ val[g][m] # {}
  <2>1. \A i : i \in 1..m <=> i \in 1..(m - 1) \/ i = m
    OBVIOUS
  <2> QED
    BY <1>1, <2>1 DEF Sound
<1>3. \A f \in Range(fields) : f # g => \A slot : Slot(f, pairs, val, m, slot) <=> Slot(f, pairs, val, m - 1, slot)
  <2> SUFFICES ASSUME NEW f \in Range(fields), f # g, NEW slot
               PROVE  Slot(f, pairs, val, m, slot) <=> Slot(f, pairs, val, m - 1, slot)
    OBVIOUS
  <2>1. pairs[m][1] # f.key
    BY <1>1
  <2> QED
    BY <2>1, SlotKept
<1>4. \A slot : Slot(g, pairs, val, m, slot) <=> \E v \in val[g][m] : slot = <<v>>
  <2>1. m \in 1..m /\ \A i \in 1..m : i # m => m \in (i + 1)..m
    OBVIOUS
  <2>2. LastNamed(pairs, g.key, m, m)
    BY <2>1 DEF LastNamed
  <2>3. ASSUME NEW i \in 1..m, LastNamed(pairs, g.key, i, m) PROVE i = m
    BY <2>1, <2>3 DEF LastNamed
  <2> QED
    BY <2>1, <2>2, <2>3 DEF Slot
<1>5. ASSUME NEW s \in R(m - 1), NEW v \in val[g][m], t = [s EXCEPT ![g.key] = <<v>>]
      PROVE  t \in R(m)
  <2>1. s \in S /\ Sound(fields, pairs, val, m - 1) /\ \A f \in Range(fields) : Slot(f, pairs, val, m - 1, s[f.key])
    BY <1>5 DEF Readings
  <2>2. v \in Held(fields, n, val)
    <3>1. m \in 1..n
      OBVIOUS
    <3> QED
      BY <1>5, <3>1 DEF Held
  <2>3. t \in S
    BY <1>1, <1>5, <2>1, <2>2 DEF Structs
  <2>4. t[g.key] = <<v>> /\ \A f \in Range(fields) : f # g => t[f.key] = s[f.key]
    <3>1. \A f \in Range(fields) : f # g => f.key # g.key
      BY <1>1
    <3> QED
      BY <1>0, <1>1, <1>5, <2>1, <3>1
  <2>5. \A f \in Range(fields) : Slot(f, pairs, val, m, t[f.key])
    <3> SUFFICES ASSUME NEW f \in Range(fields) PROVE Slot(f, pairs, val, m, t[f.key])
      OBVIOUS
    <3>1. CASE f = g
      BY <1>4, <1>5, <2>4, <3>1
    <3>2. CASE f # g
      BY <1>3, <2>1, <2>4, <3>2
    <3> QED
      BY <3>1, <3>2
  <2> QED
    BY <1>2, <1>5, <2>1, <2>3, <2>5 DEF Readings
<1>6. ASSUME t \in R(m)
      PROVE  \E s \in R(m - 1) : \E v \in val[g][m] : t = [s EXCEPT ![g.key] = <<v>>]
  <2>1. /\ t \in S /\ Sound(fields, pairs, val, m - 1)
        /\ \A f \in Range(fields) : Slot(f, pairs, val, m, t[f.key])
    BY <1>2, <1>6 DEF Readings
  <2>2. PICK v \in val[g][m] : t[g.key] = <<v>>
    BY <1>4, <2>1
  <2>3. m - 1 \in 0..n
    OBVIOUS
  <2>4. PICK x \in {<<>>} \cup {<<w>> : w \in Held(fields, n, val)} : Slot(g, pairs, val, m - 1, x)
    BY <2>1, <2>3, SlotLeft
  <2> DEFINE s == [t EXCEPT ![g.key] = x]
  <2>5. s \in S
    BY <1>1, <2>1 DEF Structs
  <2>6. s[g.key] = x /\ \A f \in Range(fields) : f # g => s[f.key] = t[f.key]
    <3>1. \A f \in Range(fields) : f # g => f.key # g.key
      BY <1>1
    <3> QED
      BY <1>0, <1>1, <2>1, <3>1
  <2>7. t = [s EXCEPT ![g.key] = <<v>>]
    <3>1. t = [k \in Keys(fields) |-> t[k]] /\ g.key \in Keys(fields)
      BY <1>1, <2>1 DEF Structs
    <3>2. [s EXCEPT ![g.key] = <<v>>] = [k \in Keys(fields) |-> IF k = g.key THEN <<v>> ELSE t[k]]
      BY <3>1
    <3>3. \A k \in Keys(fields) : t[k] = IF k = g.key THEN <<v>> ELSE t[k]
      BY <2>2
    <3> HIDE DEF s
    <3> QED
      BY <3>1, <3>2, <3>3
  <2> HIDE DEF s
  <2>8. \A f \in Range(fields) : Slot(f, pairs, val, m - 1, s[f.key])
    <3> SUFFICES ASSUME NEW f \in Range(fields) PROVE Slot(f, pairs, val, m - 1, s[f.key])
      OBVIOUS
    <3>1. CASE f = g
      BY <2>4, <2>6, <3>1
    <3>2. CASE f # g
      BY <1>3, <2>1, <2>6, <3>2
    <3> QED
      BY <3>1, <3>2
  <2>9. s \in R(m - 1)
    BY <2>1, <2>5, <2>8 DEF Readings
  <2> QED
    BY <2>7, <2>9
<1> QED
  BY <1>5, <1>6

\* Decoding an object pair by pair gives the structs in which every field has
\* what the last of its pairs says.
LEMMA ObjectChain ==
    ASSUME NEW fields, KeysDiffer(fields), NEW pairs, NEW n \in Nat, NEW val, NEW r,
           Chained(r, n, SUBSET Structs(fields, n, val), {Zero(fields)}, Putting(fields, pairs, n, val))
    PROVE  r[n] = Readings(fields, pairs, n, val, n)
<1> DEFINE R(k) == Readings(fields, pairs, n, val, k)
           S == Structs(fields, n, val)
           T == {m \in Nat : m <= n => r[m] = R(m)}
<1>0. \A m \in 0..n : R(m) \in SUBSET S
  BY DEF Readings
<1>1. 0 \in T
  <2>1. r[0] = {Zero(fields)}
    BY DEF Chained
  <2>2. Zero(fields) \in S /\ Zero(fields) = [k \in Keys(fields) |-> <<>>]
    <3>1. {Zero(fields)} \in SUBSET S
      BY PuttingType
    <3>2. {fields[i].key : i \in DOMAIN fields} = Keys(fields)
      BY DEF Keys, Range
    <3> QED
      BY <3>1, <3>2 DEF Zero
  <2>3. Sound(fields, pairs, val, 0) /\ \A f \in Range(fields) : \A slot : Slot(f, pairs, val, 0, slot) <=> slot = <<>>
    BY DEF Sound, Slot
  <2>4. \A s \in S : (\A f \in Range(fields) : s[f.key] = <<>>) <=> s = Zero(fields)
    <3> SUFFICES ASSUME NEW s \in S PROVE (\A f \in Range(fields) : s[f.key] = <<>>) <=> s = Zero(fields)
      OBVIOUS
    <3>1. s = [k \in Keys(fields) |-> s[k]]
      BY DEF Structs
    <3>2. \A k \in Keys(fields) : \E f \in Range(fields) : k = f.key
      BY DEF Keys
    <3>3. \A f \in Range(fields) : f.key \in Keys(fields)
      BY DEF Keys
    <3> HIDE DEF S
    <3> QED
      BY <2>2, <3>1, <3>2, <3>3
  <2>5. R(0) = {Zero(fields)}
    BY <2>2, <2>3, <2>4 DEF Readings
  <2> QED
    BY <2>1, <2>5
<1>2. ASSUME NEW k \in Nat, k \in T PROVE k + 1 \in T
  <2> SUFFICES ASSUME NEW m \in 1..n, m - 1 = k PROVE r[m] = R(m)
    OBVIOUS
  <2>1. r[m - 1] = R(m - 1) /\ R(m - 1) \in SUBSET S
    <3>1. m - 1 \in 0..n
      OBVIOUS
    <3> QED
      BY <1>0, <1>2, <3>1
  <2>2. r[m] = UNION {Put(fields, pairs, val, m, s) : s \in R(m - 1)}
    <3>1. r[m] = Putting(fields, pairs, n, val)[m][r[m - 1]]
      BY DEF Chained
    <3> HIDE DEF S
    <3> QED
      BY <2>1, <3>1 DEF Putting, S
  <2>3. CASE \A f \in Range(fields) : f.key # pairs[m][1]
    <3>1. \A s : Put(fields, pairs, val, m, s) = {s}
      BY <2>3 DEF Put
    <3>2. R(m) = R(m - 1)
      BY ZenonT(30), <2>3, ReadUnknown
    <3> HIDE DEF R
    <3> QED
      BY <2>2, <3>1, <3>2
  <2>4. CASE \E f \in Range(fields) : f.key = pairs[m][1]
    <3>1. PICK g \in Range(fields) : g.key = pairs[m][1]
      BY <2>4
    <3>2. {f \in Range(fields) : f.key = pairs[m][1]} = {g}
      BY <3>1 DEF KeysDiffer
    <3>3. \A s : \A t : t \in Put(fields, pairs, val, m, s) <=> \E v \in val[g][m] : t = [s EXCEPT ![g.key] = <<v>>]
      BY <2>4, <3>2 DEF Put
    <3>4. \A t : t \in R(m) <=> \E s \in R(m - 1) : \E v \in val[g][m] : t = [s EXCEPT ![g.key] = <<v>>]
      BY <3>1, ReadKnown
    <3> HIDE DEF R
    <3>5. \A t : t \in r[m] <=> \E s \in R(m - 1) : t \in Put(fields, pairs, val, m, s)
      BY <2>2
    <3>6. \A t : t \in r[m] <=> t \in R(m)
      BY <3>3, <3>4, <3>5
    <3> QED
      BY <3>6
  <2> QED
    BY <2>3, <2>4
<1>3. Nat \subseteq T
  <2> HIDE DEF T
  <2> QED
    BY <1>1, <1>2, NatSet
<1> QED
  BY <1>3

----------------------------------------------------------------------------
(* The folds of Wire.                                                      *)

\* What DecodeObject folds.
Objects(f, fields, pairs, n, val) ==
    f = [s \in SUBSET (1..n) |-> IF s = {} THEN {Zero(fields)}
                                 ELSE UNION {Put(fields, pairs, val, Max(s), d) : d \in f[s \ {Max(s)}]}]

\* What DecodeList folds.
Rows(f, n, el) ==
    f = [s \in SUBSET (1..n) |-> IF s = {} THEN {<<>>}
                                 ELSE Longer(f[s \ {Max(s)}], el[Max(s)])]

\* The fold of an object exists, and comes to the readings of all pairs.
LEMMA ObjectFold ==
    ASSUME NEW fields, KeysDiffer(fields), NEW pairs, NEW n \in Nat, NEW val
    PROVE  /\ \E f : Objects(f, fields, pairs, n, val)
           /\ \A h : Objects(h, fields, pairs, n, val) => h[1..n] = Readings(fields, pairs, n, val, n)
<1> DEFINE B == SUBSET Structs(fields, n, val)
           G == Putting(fields, pairs, n, val)
           z == {Zero(fields)}
           S == 1..n
<1>1. G \in [1..n -> [B -> B]] /\ z \in B
  BY PuttingType
<1>2. \A i \in 1..n : \A done \in B : G[i][done] = UNION {Put(fields, pairs, val, i, s) : s \in done}
  <2> HIDE DEF B
  <2> QED
    BY DEF Putting, B
<1>3. \A s \in SUBSET (1..n) : s # {} => Max(s) \in 1..n /\ Greatest(n)[s] = Max(s)
  BY GreatestIn DEF Greatest
<1> HIDE DEF B, G
<1>4. PICK f, r : IsFold(f, S, B, z, Greatest(n), G) /\ Chained(r, n, B, z, G) /\ r[n] = f[1..n]
  BY <1>1, ChainOf
<1>5. f[1..n] = Readings(fields, pairs, n, val, n)
  <2>1. Chained(r, n, B, z, G) /\ r[n] = f[1..n]
    BY <1>4
  <2>2. r[n] = Readings(fields, pairs, n, val, n)
    BY <2>1, ObjectChain DEF B, G
  <2> QED
    BY <2>1, <2>2
<1>6. Objects(f, fields, pairs, n, val)
  <2>1. f \in [SUBSET (1..n) -> B] /\ f = [s \in SUBSET (1..n) |-> IF s = {} THEN z ELSE G[Greatest(n)[s]][f[s \ {Greatest(n)[s]}]]]
    BY <1>4 DEF IsFold, Unfolds
  <2>2. \A s \in SUBSET (1..n) : s # {} => f[s] = UNION {Put(fields, pairs, val, Max(s), d) : d \in f[s \ {Max(s)}]}
    <3> SUFFICES ASSUME NEW s \in SUBSET (1..n), s # {}
                 PROVE  f[s] = UNION {Put(fields, pairs, val, Max(s), d) : d \in f[s \ {Max(s)}]}
      OBVIOUS
    <3>1. f[s] = G[Max(s)][f[s \ {Max(s)}]] /\ f[s \ {Max(s)}] \in B /\ Max(s) \in 1..n
      BY <1>3, <2>1
    <3> QED
      BY <1>2, <3>1
  <2>3. f[{}] = {Zero(fields)} /\ f = [s \in SUBSET (1..n) |-> f[s]]
    BY <2>1
  <2> QED
    BY <2>2, <2>3 DEF Objects
<1>7. ASSUME NEW h, Objects(h, fields, pairs, n, val) PROVE h[1..n] = f[1..n]
  <2>1. h[{}] = z
    BY <1>7 DEF Objects
  <2>2. \A s \in SUBSET (1..n) : s # {} /\ h[s \ {Greatest(n)[s]}] \in B => h[s] = G[Greatest(n)[s]][h[s \ {Greatest(n)[s]}]]
    <3> SUFFICES ASSUME NEW s \in SUBSET (1..n), s # {}, h[s \ {Greatest(n)[s]}] \in B
                 PROVE  h[s] = G[Greatest(n)[s]][h[s \ {Greatest(n)[s]}]]
      OBVIOUS
    <3>1. Greatest(n)[s] = Max(s) /\ Max(s) \in 1..n
      BY <1>3
    <3>2. h[s] = UNION {Put(fields, pairs, val, Max(s), d) : d \in h[s \ {Max(s)}]}
      BY <1>7 DEF Objects
    <3> QED
      BY <1>2, <3>1, <3>2
  <2>3. Resembles(h, S, B, z, Greatest(n), G)
    BY <2>1, <2>2 DEF Resembles
  <2>4. IsFold(f, S, B, z, Greatest(n), G)
    BY <1>4
  <2>5. \A s \in SUBSET S : h[s] = f[s]
    <3> HIDE DEF S, z
    <3> QED
      BY <2>3, <2>4, FoldIs
  <2> QED
    BY <2>5
<1> QED
  BY <1>5, <1>6, <1>7

\* The fold of a list exists, and comes to the lists of its values.
LEMMA ListFold ==
    ASSUME NEW n \in Nat, NEW el, DOMAIN el = 1..n
    PROVE  /\ \E f : Rows(f, n, el)
           /\ \A h : Rows(h, n, el) => h[1..n] = Listings(el, n)
<1> DEFINE B == Lists(el)
           G == Appending(el)
           z == {<<>>}
           S == 1..n
<1>1. G \in [1..n -> [B -> B]] /\ z \in B
  BY AppendingType
<1>2. \A i \in 1..n : \A done \in B : G[i][done] = Longer(done, el[i])
  <2> HIDE DEF B
  <2> QED
    BY DEF Appending, B
<1>3. \A s \in SUBSET (1..n) : s # {} => Max(s) \in 1..n /\ Greatest(n)[s] = Max(s)
  BY GreatestIn DEF Greatest
<1> HIDE DEF B, G
<1>4. PICK f, r : IsFold(f, S, B, z, Greatest(n), G) /\ Chained(r, n, B, z, G) /\ r[n] = f[1..n]
  BY <1>1, ChainOf
<1>5. f[1..n] = Listings(el, n)
  <2>1. Chained(r, n, B, z, G) /\ r[n] = f[1..n]
    BY <1>4
  <2>2. r[n] = Listings(el, n)
    BY <2>1, ListChain DEF B, G
  <2> QED
    BY <2>1, <2>2
<1>6. Rows(f, n, el)
  <2>1. f \in [SUBSET (1..n) -> B] /\ f = [s \in SUBSET (1..n) |-> IF s = {} THEN z ELSE G[Greatest(n)[s]][f[s \ {Greatest(n)[s]}]]]
    BY <1>4 DEF IsFold, Unfolds
  <2>2. \A s \in SUBSET (1..n) : s # {} => f[s] = Longer(f[s \ {Max(s)}], el[Max(s)])
    <3> SUFFICES ASSUME NEW s \in SUBSET (1..n), s # {}
                 PROVE  f[s] = Longer(f[s \ {Max(s)}], el[Max(s)])
      OBVIOUS
    <3>1. f[s] = G[Max(s)][f[s \ {Max(s)}]] /\ f[s \ {Max(s)}] \in B /\ Max(s) \in 1..n
      BY <1>3, <2>1
    <3> QED
      BY <1>2, <3>1
  <2>3. f[{}] = {<<>>} /\ f = [s \in SUBSET (1..n) |-> f[s]]
    BY <2>1
  <2> QED
    BY <2>2, <2>3 DEF Rows
<1>7. ASSUME NEW h, Rows(h, n, el) PROVE h[1..n] = f[1..n]
  <2>1. h[{}] = z
    BY <1>7 DEF Rows
  <2>2. \A s \in SUBSET (1..n) : s # {} /\ h[s \ {Greatest(n)[s]}] \in B => h[s] = G[Greatest(n)[s]][h[s \ {Greatest(n)[s]}]]
    <3> SUFFICES ASSUME NEW s \in SUBSET (1..n), s # {}, h[s \ {Greatest(n)[s]}] \in B
                 PROVE  h[s] = G[Greatest(n)[s]][h[s \ {Greatest(n)[s]}]]
      OBVIOUS
    <3>1. Greatest(n)[s] = Max(s) /\ Max(s) \in 1..n
      BY <1>3
    <3>2. h[s] = Longer(h[s \ {Max(s)}], el[Max(s)])
      BY <1>7 DEF Rows
    <3> QED
      BY <1>2, <3>1, <3>2
  <2>3. Resembles(h, S, B, z, Greatest(n), G)
    BY <2>1, <2>2 DEF Resembles
  <2>4. IsFold(f, S, B, z, Greatest(n), G)
    BY <1>4
  <2>5. \A s \in SUBSET S : h[s] = f[s]
    <3> HIDE DEF S, z
    <3> QED
      BY <2>3, <2>4, FoldIs
  <2> QED
    BY <2>5
<1> QED
  BY <1>5, <1>6, <1>7

\* What the pairs hold, where the fields are scalars.
Scalars(fields, pairs, n) ==
    [f \in Range(fields) |-> [i \in 1..n |-> DecodeScalar(f.kind, <<>>, pairs[i][2])]]

\* The structs that an object decodes to.
ObjectReadings(fields, pairs, n, val) == {s \in Readings(fields, pairs, n, val, n) : Complete(fields, s)}

\* DecodeFlat, without its fold.
LEMMA FlatIs ==
    ASSUME NEW fields, KeysDiffer(fields), NEW json, json[1] = "obj", NEW n \in Nat, DOMAIN json[2] = 1..n
    PROVE  DecodeFlat(fields, Zero(fields), json)
             = ObjectReadings(fields, json[2], n, Scalars(fields, json[2], n))
<1> DEFINE pairs == json[2]
           val == Scalars(fields, pairs, n)
           One(i, d) == IF {f \in Range(fields) : f.key = pairs[i][1]} = {} THEN {d}
                        ELSE UNION {{[d EXCEPT ![f.key] = <<v>>] : v \in DecodeScalar(f.kind, Reset(d[f.key]), pairs[i][2])} :
                                       f \in {g \in Range(fields) : g.key = pairs[i][1]}}
           It(g) == g = [s \in SUBSET (DOMAIN pairs) |->
                           IF s = {} THEN {Zero(fields)} ELSE UNION {One(Max(s), d) : d \in g[s \ {Max(s)}]}]
           h == CHOOSE g : It(g)
<1>1. DecodeFlat(fields, Zero(fields), json) = {s \in h[DOMAIN pairs] : Complete(fields, s)}
  BY DEF DecodeFlat, DecodeObject, DecodePair, FoldLeft, MapThenFoldSet
<1>2. \A i \in 1..n : \A d : One(i, d) = Put(fields, pairs, val, i, d)
  <2> SUFFICES ASSUME NEW i \in 1..n, NEW d PROVE One(i, d) = Put(fields, pairs, val, i, d)
    OBVIOUS
  <2>1. \A f \in Range(fields) : DecodeScalar(f.kind, Reset(d[f.key]), pairs[i][2]) = val[f][i]
    BY DEF Scalars, Reset
  <2> DEFINE K == {f \in Range(fields) : f.key = pairs[i][1]}
  <2> HIDE DEF val
  <2>2. CASE K = {}
    BY <2>2 DEF Put
  <2>3. CASE K # {}
    <3> DEFINE V(f) == {[d EXCEPT ![f.key] = <<v>>] : v \in DecodeScalar(f.kind, Reset(d[f.key]), pairs[i][2])}
               W(f) == {[d EXCEPT ![f.key] = <<v>>] : v \in val[f][i]}
    <3>1. One(i, d) = UNION {V(f) : f \in K}
      BY <2>3
    <3>2. Put(fields, pairs, val, i, d) = UNION {W(f) : f \in K}
      BY <2>3 DEF Put
    <3>3. \A f \in K : V(f) = W(f)
      BY <2>1
    <3> HIDE DEF One, K, V, W
    <3> QED
      BY <3>1, <3>2, <3>3
  <2> QED
    BY <2>2, <2>3
<1>3. \A g : It(g) <=> Objects(g, fields, pairs, n, val)
  <2> SUFFICES ASSUME NEW g PROVE It(g) <=> Objects(g, fields, pairs, n, val)
    OBVIOUS
  <2>1. \A s \in SUBSET (1..n) : s # {} => Max(s) \in 1..n
    BY GreatestIn
  <2> HIDE DEF One, val
  <2>2. \A s \in SUBSET (1..n) : s # {} => UNION {One(Max(s), d) : d \in g[s \ {Max(s)}]}
                                             = UNION {Put(fields, pairs, val, Max(s), d) : d \in g[s \ {Max(s)}]}
    BY <1>2, <2>1
  <2>3. [s \in SUBSET (DOMAIN pairs) |->
           IF s = {} THEN {Zero(fields)} ELSE UNION {One(Max(s), d) : d \in g[s \ {Max(s)}]}]
          = [s \in SUBSET (1..n) |-> IF s = {} THEN {Zero(fields)}
                                 ELSE UNION {Put(fields, pairs, val, Max(s), d) : d \in g[s \ {Max(s)}]}]
    BY <2>2
  <2> QED
    BY <2>3 DEF Objects
<1> HIDE DEF One, It, val
<1>4. Objects(h, fields, pairs, n, val)
  BY <1>3, ObjectFold
<1>5. h[DOMAIN pairs] = Readings(fields, pairs, n, val, n)
  BY <1>4, ObjectFold
<1> QED
  BY <1>1, <1>5 DEF ObjectReadings, val

\* No two fields of a schema have the same key.
LEMMA SchemaKeys ==
    /\ KeysDiffer(ErrorFields) /\ KeysDiffer(OrderItemFields) /\ KeysDiffer(ReqItemFields)
    /\ KeysDiffer(ImageFields) /\ KeysDiffer(OrderReqFields) /\ KeysDiffer(ProductFields)
    /\ KeysDiffer(OrderFields)
  BY DEF KeysDiffer, Range, Opt, Required, ErrorFields, OrderItemFields, ReqItemFields, ImageFields,
         OrderReqFields, ProductFields, OrderFields

\* What the pairs of a product hold.
ProductValues(pairs, n) ==
    [f \in Range(ProductFields) |-> [i \in 1..n |-> IF f.kind = "image" THEN DecodeImage(<<>>, pairs[i][2]) ELSE DecodeScalar(f.kind, <<>>, pairs[i][2])]]

\* DecodeProduct, without its fold.
LEMMA DecodeProductIs ==
    ASSUME NEW json, json[1] = "obj", NEW n \in Nat, DOMAIN json[2] = 1..n
    PROVE  DecodeProduct(json) = ObjectReadings(ProductFields, json[2], n, ProductValues(json[2], n))
<1> DEFINE fields == ProductFields
           pairs == json[2]
           val == ProductValues(pairs, n)
           X(f, d, i) == IF f.kind = "image" THEN DecodeImage(Reset(d[f.key]), pairs[i][2]) ELSE DecodeScalar(f.kind, Reset(d[f.key]), pairs[i][2])
           One(i, d) == IF {f \in Range(fields) : f.key = pairs[i][1]} = {} THEN {d}
                        ELSE UNION {{[d EXCEPT ![f.key] = <<v>>] : v \in X(f, d, i)} :
                                       f \in {g \in Range(fields) : g.key = pairs[i][1]}}
           It(g) == g = [s \in SUBSET (DOMAIN pairs) |->
                           IF s = {} THEN {Zero(fields)} ELSE UNION {One(Max(s), d) : d \in g[s \ {Max(s)}]}]
           h == CHOOSE g : It(g)
<1>1. DecodeProduct(json) = {s \in h[DOMAIN pairs] : Complete(fields, s)}
  BY DEF DecodeProduct, NoProduct, DecodeObject, DecodePair, FoldLeft, MapThenFoldSet
<1>2. \A i \in 1..n : \A d : One(i, d) = Put(fields, pairs, val, i, d)
  <2> SUFFICES ASSUME NEW i \in 1..n, NEW d PROVE One(i, d) = Put(fields, pairs, val, i, d)
    OBVIOUS
  <2>1. \A f \in Range(fields) : X(f, d, i) = val[f][i]
    BY DEF ProductValues, Reset
  <2> DEFINE K == {f \in Range(fields) : f.key = pairs[i][1]}
             V(f) == {[d EXCEPT ![f.key] = <<v>>] : v \in X(f, d, i)}
             W(f) == {[d EXCEPT ![f.key] = <<v>>] : v \in val[f][i]}
  <2> HIDE DEF val, fields, X
  <2>2. CASE K = {}
    BY <2>2 DEF Put
  <2>3. CASE K # {}
    <3>1. One(i, d) = UNION {V(f) : f \in K}
      BY <2>3
    <3>2. Put(fields, pairs, val, i, d) = UNION {W(f) : f \in K}
      BY <2>3 DEF Put
    <3>3. \A f \in K : V(f) = W(f)
      BY <2>1
    <3> HIDE DEF One, K, V, W
    <3> QED
      BY <3>1, <3>2, <3>3
  <2> QED
    BY <2>2, <2>3
<1> HIDE DEF fields, val
<1>3. \A g : It(g) <=> Objects(g, fields, pairs, n, val)
  <2> SUFFICES ASSUME NEW g PROVE It(g) <=> Objects(g, fields, pairs, n, val)
    OBVIOUS
  <2>1. \A s \in SUBSET (1..n) : s # {} => Max(s) \in 1..n
    BY GreatestIn
  <2> HIDE DEF One
  <2>2. \A s \in SUBSET (1..n) : s # {} => UNION {One(Max(s), d) : d \in g[s \ {Max(s)}]}
                                             = UNION {Put(fields, pairs, val, Max(s), d) : d \in g[s \ {Max(s)}]}
    BY <1>2, <2>1
  <2>3. [s \in SUBSET (DOMAIN pairs) |->
           IF s = {} THEN {Zero(fields)} ELSE UNION {One(Max(s), d) : d \in g[s \ {Max(s)}]}]
          = [s \in SUBSET (1..n) |-> IF s = {} THEN {Zero(fields)}
                                 ELSE UNION {Put(fields, pairs, val, Max(s), d) : d \in g[s \ {Max(s)}]}]
    BY <2>2
  <2> QED
    BY <2>3 DEF Objects
<1> HIDE DEF It
<1>4. KeysDiffer(fields)
  BY SchemaKeys DEF fields
<1>5. Objects(h, fields, pairs, n, val)
  BY <1>3, <1>4, ObjectFold
<1>6. h[DOMAIN pairs] = Readings(fields, pairs, n, val, n)
  BY <1>4, <1>5, ObjectFold
<1> QED
  BY <1>1, <1>6 DEF ObjectReadings, val, fields

\* What the pairs of an order hold.
OrderValues(pairs, n) ==
    [f \in Range(OrderFields) |-> [i \in 1..n |-> CASE f.kind = "orderItems" -> DecodeOrderItems(<<>>, pairs[i][2])
                [] f.kind = "products" -> DecodeProducts(<<>>, pairs[i][2])
                [] OTHER -> DecodeScalar(f.kind, <<>>, pairs[i][2])]]

\* DecodeOrder, without its fold.
LEMMA DecodeOrderIs ==
    ASSUME NEW json, json[1] = "obj", NEW n \in Nat, DOMAIN json[2] = 1..n
    PROVE  DecodeOrder(json) = ObjectReadings(OrderFields, json[2], n, OrderValues(json[2], n))
<1> DEFINE fields == OrderFields
           pairs == json[2]
           val == OrderValues(pairs, n)
           X(f, d, i) == CASE f.kind = "orderItems" -> DecodeOrderItems(Reset(d[f.key]), pairs[i][2])
                [] f.kind = "products" -> DecodeProducts(Reset(d[f.key]), pairs[i][2])
                [] OTHER -> DecodeScalar(f.kind, Reset(d[f.key]), pairs[i][2])
           One(i, d) == IF {f \in Range(fields) : f.key = pairs[i][1]} = {} THEN {d}
                        ELSE UNION {{[d EXCEPT ![f.key] = <<v>>] : v \in X(f, d, i)} :
                                       f \in {g \in Range(fields) : g.key = pairs[i][1]}}
           It(g) == g = [s \in SUBSET (DOMAIN pairs) |->
                           IF s = {} THEN {Zero(fields)} ELSE UNION {One(Max(s), d) : d \in g[s \ {Max(s)}]}]
           h == CHOOSE g : It(g)
<1>1. DecodeOrder(json) = {s \in h[DOMAIN pairs] : Complete(fields, s)}
  BY DEF DecodeOrder, NoOrder, DecodeObject, DecodePair, FoldLeft, MapThenFoldSet
<1>2. \A i \in 1..n : \A d : One(i, d) = Put(fields, pairs, val, i, d)
  <2> SUFFICES ASSUME NEW i \in 1..n, NEW d PROVE One(i, d) = Put(fields, pairs, val, i, d)
    OBVIOUS
  <2>1. \A f \in Range(fields) : X(f, d, i) = val[f][i]
    BY DEF OrderValues, Reset
  <2> DEFINE K == {f \in Range(fields) : f.key = pairs[i][1]}
             V(f) == {[d EXCEPT ![f.key] = <<v>>] : v \in X(f, d, i)}
             W(f) == {[d EXCEPT ![f.key] = <<v>>] : v \in val[f][i]}
  <2> HIDE DEF val, fields, X
  <2>2. CASE K = {}
    BY <2>2 DEF Put
  <2>3. CASE K # {}
    <3>1. One(i, d) = UNION {V(f) : f \in K}
      BY <2>3
    <3>2. Put(fields, pairs, val, i, d) = UNION {W(f) : f \in K}
      BY <2>3 DEF Put
    <3>3. \A f \in K : V(f) = W(f)
      BY <2>1
    <3> HIDE DEF One, K, V, W
    <3> QED
      BY <3>1, <3>2, <3>3
  <2> QED
    BY <2>2, <2>3
<1> HIDE DEF fields, val
<1>3. \A g : It(g) <=> Objects(g, fields, pairs, n, val)
  <2> SUFFICES ASSUME NEW g PROVE It(g) <=> Objects(g, fields, pairs, n, val)
    OBVIOUS
  <2>1. \A s \in SUBSET (1..n) : s # {} => Max(s) \in 1..n
    BY GreatestIn
  <2> HIDE DEF One
  <2>2. \A s \in SUBSET (1..n) : s # {} => UNION {One(Max(s), d) : d \in g[s \ {Max(s)}]}
                                             = UNION {Put(fields, pairs, val, Max(s), d) : d \in g[s \ {Max(s)}]}
    BY <1>2, <2>1
  <2>3. [s \in SUBSET (DOMAIN pairs) |->
           IF s = {} THEN {Zero(fields)} ELSE UNION {One(Max(s), d) : d \in g[s \ {Max(s)}]}]
          = [s \in SUBSET (1..n) |-> IF s = {} THEN {Zero(fields)}
                                 ELSE UNION {Put(fields, pairs, val, Max(s), d) : d \in g[s \ {Max(s)}]}]
    BY <2>2
  <2> QED
    BY <2>3 DEF Objects
<1> HIDE DEF It
<1>4. KeysDiffer(fields)
  BY SchemaKeys DEF fields
<1>5. Objects(h, fields, pairs, n, val)
  BY <1>3, <1>4, ObjectFold
<1>6. h[DOMAIN pairs] = Readings(fields, pairs, n, val, n)
  BY <1>4, <1>5, ObjectFold
<1> QED
  BY <1>1, <1>6 DEF ObjectReadings, val, fields

\* What the pairs of an order request hold.
OrderReqValues(pairs, n) ==
    [f \in Range(OrderReqFields) |-> [i \in 1..n |-> IF f.kind = "reqItems" THEN DecodeReqItems(<<>>, pairs[i][2]) ELSE DecodeScalar(f.kind, <<>>, pairs[i][2])]]

\* DecodeOrderReq, without its fold.
LEMMA DecodeOrderReqIs ==
    ASSUME NEW json, json[1] = "obj", NEW n \in Nat, DOMAIN json[2] = 1..n
    PROVE  DecodeOrderReq(json) = ObjectReadings(OrderReqFields, json[2], n, OrderReqValues(json[2], n))
<1> DEFINE fields == OrderReqFields
           pairs == json[2]
           val == OrderReqValues(pairs, n)
           X(f, d, i) == IF f.kind = "reqItems" THEN DecodeReqItems(Reset(d[f.key]), pairs[i][2]) ELSE DecodeScalar(f.kind, Reset(d[f.key]), pairs[i][2])
           One(i, d) == IF {f \in Range(fields) : f.key = pairs[i][1]} = {} THEN {d}
                        ELSE UNION {{[d EXCEPT ![f.key] = <<v>>] : v \in X(f, d, i)} :
                                       f \in {g \in Range(fields) : g.key = pairs[i][1]}}
           It(g) == g = [s \in SUBSET (DOMAIN pairs) |->
                           IF s = {} THEN {Zero(fields)} ELSE UNION {One(Max(s), d) : d \in g[s \ {Max(s)}]}]
           h == CHOOSE g : It(g)
<1>1. DecodeOrderReq(json) = {s \in h[DOMAIN pairs] : Complete(fields, s)}
  BY DEF DecodeOrderReq, NoOrderReq, DecodeObject, DecodePair, FoldLeft, MapThenFoldSet
<1>2. \A i \in 1..n : \A d : One(i, d) = Put(fields, pairs, val, i, d)
  <2> SUFFICES ASSUME NEW i \in 1..n, NEW d PROVE One(i, d) = Put(fields, pairs, val, i, d)
    OBVIOUS
  <2>1. \A f \in Range(fields) : X(f, d, i) = val[f][i]
    BY DEF OrderReqValues, Reset
  <2> DEFINE K == {f \in Range(fields) : f.key = pairs[i][1]}
             V(f) == {[d EXCEPT ![f.key] = <<v>>] : v \in X(f, d, i)}
             W(f) == {[d EXCEPT ![f.key] = <<v>>] : v \in val[f][i]}
  <2> HIDE DEF val, fields, X
  <2>2. CASE K = {}
    BY <2>2 DEF Put
  <2>3. CASE K # {}
    <3>1. One(i, d) = UNION {V(f) : f \in K}
      BY <2>3
    <3>2. Put(fields, pairs, val, i, d) = UNION {W(f) : f \in K}
      BY <2>3 DEF Put
    <3>3. \A f \in K : V(f) = W(f)
      BY <2>1
    <3> HIDE DEF One, K, V, W
    <3> QED
      BY <3>1, <3>2, <3>3
  <2> QED
    BY <2>2, <2>3
<1> HIDE DEF fields, val
<1>3. \A g : It(g) <=> Objects(g, fields, pairs, n, val)
  <2> SUFFICES ASSUME NEW g PROVE It(g) <=> Objects(g, fields, pairs, n, val)
    OBVIOUS
  <2>1. \A s \in SUBSET (1..n) : s # {} => Max(s) \in 1..n
    BY GreatestIn
  <2> HIDE DEF One
  <2>2. \A s \in SUBSET (1..n) : s # {} => UNION {One(Max(s), d) : d \in g[s \ {Max(s)}]}
                                             = UNION {Put(fields, pairs, val, Max(s), d) : d \in g[s \ {Max(s)}]}
    BY <1>2, <2>1
  <2>3. [s \in SUBSET (DOMAIN pairs) |->
           IF s = {} THEN {Zero(fields)} ELSE UNION {One(Max(s), d) : d \in g[s \ {Max(s)}]}]
          = [s \in SUBSET (1..n) |-> IF s = {} THEN {Zero(fields)}
                                 ELSE UNION {Put(fields, pairs, val, Max(s), d) : d \in g[s \ {Max(s)}]}]
    BY <2>2
  <2> QED
    BY <2>3 DEF Objects
<1> HIDE DEF It
<1>4. KeysDiffer(fields)
  BY SchemaKeys DEF fields
<1>5. Objects(h, fields, pairs, n, val)
  BY <1>3, <1>4, ObjectFold
<1>6. h[DOMAIN pairs] = Readings(fields, pairs, n, val, n)
  BY <1>4, <1>5, ObjectFold
<1> QED
  BY <1>1, <1>6 DEF ObjectReadings, val, fields

\* DecodeProducts, without its fold.
LEMMA DecodeProductsIs ==
    ASSUME NEW json, json[1] = "arr", NEW n \in Nat, DOMAIN json[2] = 1..n
    PROVE  DecodeProducts(<<>>, json) = Listings([i \in 1..n |-> DecodeProduct(json[2][i])], n)
<1> DEFINE list == json[2]
           el == [i \in 1..n |-> DecodeProduct(list[i])]
           It(g) == g = [s \in SUBSET (DOMAIN list) |->
                           IF s = {} THEN {<<>>}
                           ELSE {Append(d, e) : d \in g[s \ {Max(s)}], e \in DecodeProduct(list[Max(s)])}]
           h == CHOOSE g : It(g)
<1>1. DecodeProducts(<<>>, json) = h[DOMAIN list]
  BY DEF DecodeProducts, DecodeList, FoldLeft, MapThenFoldSet
<1> HIDE DEF It
<1>2. \A g : It(g) <=> Rows(g, n, el)
  <2> SUFFICES ASSUME NEW g PROVE It(g) <=> Rows(g, n, el)
    OBVIOUS
  <2> DEFINE L(s) == {Append(d, e) : d \in g[s \ {Max(s)}], e \in DecodeProduct(list[Max(s)])}
  <2>1. \A s \in SUBSET (1..n) : s # {} => Max(s) \in 1..n
    BY GreatestIn
  <2>2. ASSUME NEW s \in SUBSET (1..n), s # {} PROVE L(s) = Longer(g[s \ {Max(s)}], el[Max(s)])
    <3>1. el[Max(s)] = DecodeProduct(list[Max(s)])
      BY <2>1, <2>2
    <3>2. L(s) = Longer(g[s \ {Max(s)}], DecodeProduct(list[Max(s)]))
      BY DEF Longer
    <3> HIDE DEF el, L
    <3> QED
      BY <3>1, <3>2
  <2>3. It(g) <=> g = [s \in SUBSET (1..n) |-> IF s = {} THEN {<<>>} ELSE L(s)]
    BY DEF It
  <2> HIDE DEF L, el
  <2>4. [s \in SUBSET (1..n) |-> IF s = {} THEN {<<>>} ELSE L(s)]
          = [s \in SUBSET (1..n) |-> IF s = {} THEN {<<>>} ELSE Longer(g[s \ {Max(s)}], el[Max(s)])]
    BY <2>2
  <2> QED
    BY <2>3, <2>4 DEF Rows
<1>3. DOMAIN el = 1..n
  OBVIOUS
<1> HIDE DEF el
<1>4. Rows(h, n, el)
  BY <1>2, <1>3, ListFold
<1>5. h[DOMAIN list] = Listings(el, n)
  BY <1>3, <1>4, ListFold
<1> QED
  BY <1>1, <1>5 DEF el

\* DecodeOrderItems, without its fold.
LEMMA DecodeOrderItemsIs ==
    ASSUME NEW json, json[1] = "arr", NEW n \in Nat, DOMAIN json[2] = 1..n
    PROVE  DecodeOrderItems(<<>>, json) = Listings([i \in 1..n |-> DecodeOrderItem(json[2][i])], n)
<1> DEFINE list == json[2]
           el == [i \in 1..n |-> DecodeOrderItem(list[i])]
           It(g) == g = [s \in SUBSET (DOMAIN list) |->
                           IF s = {} THEN {<<>>}
                           ELSE {Append(d, e) : d \in g[s \ {Max(s)}], e \in DecodeOrderItem(list[Max(s)])}]
           h == CHOOSE g : It(g)
<1>1. DecodeOrderItems(<<>>, json) = h[DOMAIN list]
  BY DEF DecodeOrderItems, DecodeList, FoldLeft, MapThenFoldSet
<1> HIDE DEF It
<1>2. \A g : It(g) <=> Rows(g, n, el)
  <2> SUFFICES ASSUME NEW g PROVE It(g) <=> Rows(g, n, el)
    OBVIOUS
  <2> DEFINE L(s) == {Append(d, e) : d \in g[s \ {Max(s)}], e \in DecodeOrderItem(list[Max(s)])}
  <2>1. \A s \in SUBSET (1..n) : s # {} => Max(s) \in 1..n
    BY GreatestIn
  <2>2. ASSUME NEW s \in SUBSET (1..n), s # {} PROVE L(s) = Longer(g[s \ {Max(s)}], el[Max(s)])
    <3>1. el[Max(s)] = DecodeOrderItem(list[Max(s)])
      BY <2>1, <2>2
    <3>2. L(s) = Longer(g[s \ {Max(s)}], DecodeOrderItem(list[Max(s)]))
      BY DEF Longer
    <3> HIDE DEF el, L
    <3> QED
      BY <3>1, <3>2
  <2>3. It(g) <=> g = [s \in SUBSET (1..n) |-> IF s = {} THEN {<<>>} ELSE L(s)]
    BY DEF It
  <2> HIDE DEF L, el
  <2>4. [s \in SUBSET (1..n) |-> IF s = {} THEN {<<>>} ELSE L(s)]
          = [s \in SUBSET (1..n) |-> IF s = {} THEN {<<>>} ELSE Longer(g[s \ {Max(s)}], el[Max(s)])]
    BY <2>2
  <2> QED
    BY <2>3, <2>4 DEF Rows
<1>3. DOMAIN el = 1..n
  OBVIOUS
<1> HIDE DEF el
<1>4. Rows(h, n, el)
  BY <1>2, <1>3, ListFold
<1>5. h[DOMAIN list] = Listings(el, n)
  BY <1>3, <1>4, ListFold
<1> QED
  BY <1>1, <1>5 DEF el

\* DecodeReqItems, without its fold.
LEMMA DecodeReqItemsIs ==
    ASSUME NEW json, json[1] = "arr", NEW n \in Nat, DOMAIN json[2] = 1..n
    PROVE  DecodeReqItems(<<>>, json) = Listings([i \in 1..n |-> DecodeReqItem(json[2][i])], n)
<1> DEFINE list == json[2]
           el == [i \in 1..n |-> DecodeReqItem(list[i])]
           It(g) == g = [s \in SUBSET (DOMAIN list) |->
                           IF s = {} THEN {<<>>}
                           ELSE {Append(d, e) : d \in g[s \ {Max(s)}], e \in DecodeReqItem(list[Max(s)])}]
           h == CHOOSE g : It(g)
<1>1. DecodeReqItems(<<>>, json) = h[DOMAIN list]
  BY DEF DecodeReqItems, DecodeList, FoldLeft, MapThenFoldSet
<1> HIDE DEF It
<1>2. \A g : It(g) <=> Rows(g, n, el)
  <2> SUFFICES ASSUME NEW g PROVE It(g) <=> Rows(g, n, el)
    OBVIOUS
  <2> DEFINE L(s) == {Append(d, e) : d \in g[s \ {Max(s)}], e \in DecodeReqItem(list[Max(s)])}
  <2>1. \A s \in SUBSET (1..n) : s # {} => Max(s) \in 1..n
    BY GreatestIn
  <2>2. ASSUME NEW s \in SUBSET (1..n), s # {} PROVE L(s) = Longer(g[s \ {Max(s)}], el[Max(s)])
    <3>1. el[Max(s)] = DecodeReqItem(list[Max(s)])
      BY <2>1, <2>2
    <3>2. L(s) = Longer(g[s \ {Max(s)}], DecodeReqItem(list[Max(s)]))
      BY DEF Longer
    <3> HIDE DEF el, L
    <3> QED
      BY <3>1, <3>2
  <2>3. It(g) <=> g = [s \in SUBSET (1..n) |-> IF s = {} THEN {<<>>} ELSE L(s)]
    BY DEF It
  <2> HIDE DEF L, el
  <2>4. [s \in SUBSET (1..n) |-> IF s = {} THEN {<<>>} ELSE L(s)]
          = [s \in SUBSET (1..n) |-> IF s = {} THEN {<<>>} ELSE Longer(g[s \ {Max(s)}], el[Max(s)])]
    BY <2>2
  <2> QED
    BY <2>3, <2>4 DEF Rows
<1>3. DOMAIN el = 1..n
  OBVIOUS
<1> HIDE DEF el
<1>4. Rows(h, n, el)
  BY <1>2, <1>3, ListFold
<1>5. h[DOMAIN list] = Listings(el, n)
  BY <1>3, <1>4, ListFold
<1> QED
  BY <1>1, <1>5 DEF el

----------------------------------------------------------------------------
(* Encoding.                                                               *)

\* The steps of FlattenSeq.
Joining(P, seqs) == [i \in DOMAIN seqs |-> [s \in Seq(P) |-> s \o seqs[i]]]

\* The elements of a chain of joins are those of the sequences joined.
LEMMA JoinChain ==
    ASSUME NEW P, NEW seqs \in Seq(Seq(P)), NEW r, Chained(r, Len(seqs), Seq(P), <<>>, Joining(P, seqs))
    PROVE  Range(r[Len(seqs)]) = UNION {Range(seqs[i]) : i \in DOMAIN seqs}
<1> DEFINE n == Len(seqs)
           U(m) == UNION {Range(seqs[i]) : i \in 1..m}
           T == {m \in Nat : m <= n => Range(r[m]) = U(m)}
<1>0. n \in Nat /\ DOMAIN seqs = 1..n /\ \A i \in 1..n : seqs[i] \in Seq(P)
  OBVIOUS
<1>1. 0 \in T
  <2>1. r[0] = <<>>
    BY DEF Chained
  <2>2. Range(<<>>) = {} /\ U(0) = {}
    BY DEF Range
  <2> QED
    BY <2>1, <2>2
<1>2. ASSUME NEW k \in Nat, k \in T PROVE k + 1 \in T
  <2> SUFFICES ASSUME NEW m \in 1..n, m - 1 = k PROVE Range(r[m]) = U(m)
    <3> HIDE DEF n, U
    <3> QED
      BY <1>0
  <2>1. Range(r[m - 1]) = U(m - 1) /\ r[m - 1] \in Seq(P)
    <3>1. m - 1 \in 0..n /\ m - 1 <= n
      BY <1>0
    <3>2. r \in [0..n -> Seq(P)]
      BY DEF Chained
    <3> HIDE DEF n, U
    <3> QED
      BY <1>2, <3>1, <3>2
  <2>2. r[m] = r[m - 1] \o seqs[m] /\ seqs[m] \in Seq(P)
    BY <1>0, <2>1 DEF Chained, Joining
  <2>3. \A a, b \in Seq(P) : Range(a \o b) = Range(a) \cup Range(b)
    <3> SUFFICES ASSUME NEW a \in Seq(P), NEW b \in Seq(P) PROVE Range(a \o b) = Range(a) \cup Range(b)
      OBVIOUS
    <3>1. a \o b \in Seq(P) /\ Len(a \o b) = Len(a) + Len(b)
      OBVIOUS
    <3>2. \A i \in 1..Len(a) : (a \o b)[i] = a[i] /\ i \in DOMAIN (a \o b)
      BY <3>1
    <3>3. \A i \in 1..Len(b) : (a \o b)[Len(a) + i] = b[i] /\ Len(a) + i \in DOMAIN (a \o b)
      BY <3>1
    <3>4. \A i \in DOMAIN (a \o b) : i \in 1..Len(a) \/ \E j \in 1..Len(b) : i = Len(a) + j
      <4> SUFFICES ASSUME NEW i \in DOMAIN (a \o b), i \notin 1..Len(a) PROVE \E j \in 1..Len(b) : i = Len(a) + j
        OBVIOUS
      <4>1. i - Len(a) \in 1..Len(b) /\ i = Len(a) + (i - Len(a))
        BY <3>1
      <4> QED
        BY <4>1
    <3>5. DOMAIN a = 1..Len(a) /\ DOMAIN b = 1..Len(b)
      OBVIOUS
    <3>6. Range(a) \subseteq Range(a \o b)
      BY <3>2, <3>5 DEF Range
    <3>7. Range(b) \subseteq Range(a \o b)
      BY <3>3, <3>5 DEF Range
    <3>8. \A i \in DOMAIN (a \o b) : (a \o b)[i] \in Range(a) \cup Range(b)
      BY <3>2, <3>3, <3>4, <3>5 DEF Range
    <3>9. Range(a \o b) \subseteq Range(a) \cup Range(b)
      BY <3>8 DEF Range
    <3> QED
      BY <3>6, <3>7, <3>9
  <2>4. U(m) = U(m - 1) \cup Range(seqs[m])
    <3>1. \A i : i \in 1..m <=> i \in 1..(m - 1) \/ i = m
      OBVIOUS
    <3> QED
      BY <3>1
  <2> QED
    BY <2>1, <2>2, <2>3, <2>4
<1>3. Nat \subseteq T
  <2> HIDE DEF T
  <2> QED
    BY <1>1, <1>2, NatSet
<1>4. n \in T
  BY <1>0, <1>3
<1> QED
  BY <1>0, <1>4

\* FlattenSeq holds what the sequences hold.
LEMMA FlattenIs ==
    ASSUME NEW P, NEW seqs \in Seq(Seq(P)), seqs # <<>>
    PROVE  /\ FlattenSeq(seqs) \in Seq(P)
           /\ Range(FlattenSeq(seqs)) = UNION {Range(seqs[i]) : i \in DOMAIN seqs}
<1> DEFINE n == Len(seqs)
           B == Seq(P)
           G == Joining(P, seqs)
           It(g) == g = [i \in 1..n |-> IF i = 1 THEN seqs[i] ELSE g[i - 1] \o seqs[i]]
           h == CHOOSE g : It(g)
<1>1. n \in Nat /\ n # 0 /\ DOMAIN seqs = 1..n /\ \A i \in 1..n : seqs[i] \in B
  OBVIOUS
<1>2. FlattenSeq(seqs) = h[n]
  BY <1>1 DEF FlattenSeq
<1>3. <<>> \in B /\ G \in [1..n -> [B -> B]]
  <2>1. \A i \in 1..n : \A s \in B : s \o seqs[i] \in B
    BY <1>1
  <2> QED
    BY <1>1, <2>1 DEF Joining
<1>4. \A i \in 1..n : \A s \in B : G[i][s] = s \o seqs[i]
  BY <1>1 DEF Joining
<1> HIDE DEF G, B, n
<1>5. PICK r : Chained(r, n, B, <<>>, G)
  BY <1>1, <1>3, ChainOf
<1>6. r \in [0..n -> B] /\ r[0] = <<>> /\ \A i \in 1..n : r[i] = r[i - 1] \o seqs[i]
  <2>1. \A i \in 1..n : i - 1 \in 0..n
    BY <1>1
  <2> QED
    BY <1>4, <1>5, <2>1 DEF Chained
<1>7. It([i \in 1..n |-> r[i]])
  <2>1. ASSUME 1 \in 1..n PROVE r[1] = seqs[1]
    <3>1. r[1] = r[0] \o seqs[1]
      <4>1. 1 - 1 = 0
        OBVIOUS
      <4> QED
        BY <1>6, <2>1, <4>1
    <3>2. seqs[1] \in Seq(P)
      BY <1>1, <2>1 DEF B
    <3> QED
      BY <1>6, <3>1, <3>2
  <2>2. \A i \in 1..n : i # 1 => i - 1 \in 1..n
    BY <1>1
  <2> QED
    BY <1>6, <2>1, <2>2
<1>8. It(h)
  <2> HIDE DEF It
  <2> QED
    BY <1>7
<1> HIDE DEF h
<1> DEFINE T == {m \in Nat : m + 1 <= n => h[m + 1] = r[m + 1]}
<1>9. 0 \in T
  <2>1. ASSUME 1 \in 1..n PROVE h[1] = seqs[1] /\ r[1] = seqs[1]
    BY <1>7, <1>8, <2>1
  <2> QED
    BY <1>1, <2>1
<1>10. ASSUME NEW m \in Nat, m \in T PROVE m + 1 \in T
  <2> SUFFICES ASSUME NEW k \in 1..n, k = m + 2 PROVE h[k] = r[k]
    BY <1>1
  <2>1. k - 1 = m + 1 /\ k # 1 /\ k - 1 \in 1..n
    BY <1>1
  <2>2. h[k] = h[k - 1] \o seqs[k]
    BY <1>8, <2>1
  <2>3. h[k - 1] = r[k - 1]
    BY <1>1, <1>10, <2>1
  <2> QED
    BY <1>6, <2>2, <2>3
<1>11. Nat \subseteq T
  <2> HIDE DEF T
  <2> QED
    BY <1>9, <1>10, NatSet
<1>12. h[n] = r[n] /\ r[n] \in B
  <2>1. n - 1 \in T /\ (n - 1) + 1 = n
    BY <1>1, <1>11
  <2> QED
    BY <1>1, <1>6, <2>1
<1>13. Range(r[n]) = UNION {Range(seqs[i]) : i \in DOMAIN seqs}
  BY <1>5, JoinChain DEF n, B, G
<1> QED
  BY <1>2, <1>12, <1>13 DEF B

\* The pairs of a struct, field by field.
Slots(fields, s, enc) ==
    [i \in DOMAIN fields |-> IF s[fields[i].key] # <<>> THEN <<<<fields[i].key, enc[fields[i]]>>>>
                             ELSE IF fields[i].required THEN <<<<fields[i].key, Arr(<<>>)>>>>
                             ELSE <<>>]

\* A schema has some fields.
Schema(fields) == fields # <<>> /\ fields \in Seq(Range(fields))

\* The schemas are schemas.
LEMMA Schemas ==
    /\ Schema(ErrorFields) /\ Schema(OrderItemFields) /\ Schema(ReqItemFields) /\ Schema(ImageFields)
    /\ Schema(OrderReqFields) /\ Schema(ProductFields) /\ Schema(OrderFields)
<1>1. \A a, b : <<a, b>> \in Seq(Range(<<a, b>>)) /\ <<a, b>> # <<>>
  BY DEF Range
<1>2. \A a, b, c, d : <<a, b, c, d>> \in Seq(Range(<<a, b, c, d>>)) /\ <<a, b, c, d>> # <<>>
  BY DEF Range
<1>3. \A a, b, c, d, e : <<a, b, c, d, e>> \in Seq(Range(<<a, b, c, d, e>>)) /\ <<a, b, c, d, e>> # <<>>
  BY DEF Range
<1> QED
  BY <1>1, <1>2, <1>3 DEF Schema, ErrorFields, OrderItemFields, ReqItemFields, ImageFields, OrderReqFields,
                          ProductFields, OrderFields

\* The pairs of an encoded object.
LEMMA SlotsAre ==
    ASSUME NEW fields, Schema(fields), NEW s, NEW enc
    PROVE  LET pairs == FlattenSeq(Slots(fields, s, enc)) IN
           /\ \E n \in Nat : DOMAIN pairs = 1..n
           /\ \A x \in Range(pairs) : \E f \in Range(fields) :
                 \/ s[f.key] # <<>> /\ x = <<f.key, enc[f]>>
                 \/ s[f.key] = <<>> /\ f.required /\ x = <<f.key, Arr(<<>>)>>
           /\ \A f \in Range(fields) : s[f.key] # <<>> => <<f.key, enc[f]>> \in Range(pairs)
<1> DEFINE P == {<<f.key, enc[f]>> : f \in Range(fields)} \cup {<<f.key, Arr(<<>>)>> : f \in Range(fields)}
           W(f) == IF s[f.key] # <<>> THEN <<<<f.key, enc[f]>>>>
                   ELSE IF f.required THEN <<<<f.key, Arr(<<>>)>>>> ELSE <<>>
           seqs == [i \in DOMAIN fields |-> W(fields[i])]
<1>1. Slots(fields, s, enc) = seqs
  BY DEF Slots
<1>2. \A f \in Range(fields) : W(f) \in Seq(P)
  OBVIOUS
<1>3. \A i \in DOMAIN fields : fields[i] \in Range(fields)
  BY DEF Range
<1>4. seqs \in Seq(Seq(P)) /\ seqs # <<>> /\ DOMAIN seqs = DOMAIN fields
  <2>1. fields \in Seq(Range(fields)) /\ fields # <<>>
    BY DEF Schema
  <2>2. DOMAIN fields = 1..Len(fields) /\ Len(fields) \in Nat /\ Len(fields) # 0
    BY <2>1
  <2> HIDE DEF W, P
  <2> QED
    BY <1>2, <1>3, <2>2
<1>5. \A f \in Range(fields) : \A x : x \in Range(W(f)) <=> \/ s[f.key] # <<>> /\ x = <<f.key, enc[f]>>
                                                            \/ s[f.key] = <<>> /\ f.required /\ x = <<f.key, Arr(<<>>)>>
  <2>1. \A x : Range(<<x>>) = {x}
    BY DEF Range
  <2>2. Range(<<>>) = {}
    BY DEF Range
  <2> QED
    BY <2>1, <2>2
<1> HIDE DEF P, W
<1>6. FlattenSeq(seqs) \in Seq(P) /\ Range(FlattenSeq(seqs)) = UNION {Range(seqs[i]) : i \in DOMAIN seqs}
  <2> HIDE DEF seqs
  <2> QED
    BY <1>4, FlattenIs
<1>7. \A x : x \in Range(FlattenSeq(seqs)) <=> \E f \in Range(fields) : x \in Range(W(f))
  <2>1. \A x : x \in Range(FlattenSeq(seqs)) <=> \E i \in DOMAIN fields : x \in Range(seqs[i])
    <3> HIDE DEF seqs
    <3> QED
      BY <1>4, <1>6
  <2>2. \A i \in DOMAIN fields : seqs[i] = W(fields[i])
    OBVIOUS
  <2>3. \A f \in Range(fields) : \E i \in DOMAIN fields : f = fields[i]
    BY DEF Range
  <2> HIDE DEF seqs
  <2> QED
    BY <1>3, <2>1, <2>2, <2>3
<1>8. \E n \in Nat : DOMAIN FlattenSeq(seqs) = 1..n
  <2>1. Len(FlattenSeq(seqs)) \in Nat /\ DOMAIN FlattenSeq(seqs) = 1..Len(FlattenSeq(seqs))
    BY <1>6
  <2> QED
    BY <2>1
<1> HIDE DEF seqs
<1> QED
  BY <1>1, <1>5, <1>7, <1>8

\* A struct of a schema: each slot is unset or holds one value.
Struct(fields, s) ==
    /\ s = [k \in Keys(fields) |-> s[k]]
    /\ \A f \in Range(fields) : s[f.key] = <<>> \/ \E v : s[f.key] = <<v>>
    /\ Complete(fields, s)

\* If every pair decodes to what its field holds, the object decodes to the
\* struct and to nothing else.
LEMMA ReadBack ==
    ASSUME NEW fields, Schema(fields), KeysDiffer(fields), NEW s, Struct(fields, s), NEW enc,
           NEW pairs, pairs = FlattenSeq(Slots(fields, s, enc)), NEW n \in Nat, DOMAIN pairs = 1..n, NEW val,
           \A f \in Range(fields) : \A i \in 1..n : \A v :
              s[f.key] = <<v>> /\ pairs[i][2] = enc[f] => val[f][i] = {v}
    PROVE  ObjectReadings(fields, pairs, n, val) = {s}
<1>0. \A f, g \in Range(fields) : f.key = g.key => f = g
  BY DEF KeysDiffer
<1>1. \A i \in 1..n : \E f \in Range(fields) : \E v : s[f.key] = <<v>> /\ pairs[i] = <<f.key, enc[f]>>
  <2> SUFFICES ASSUME NEW i \in 1..n
               PROVE  \E f \in Range(fields) : \E v : s[f.key] = <<v>> /\ pairs[i] = <<f.key, enc[f]>>
    OBVIOUS
  <2>1. pairs[i] \in Range(pairs)
    BY DEF Range
  <2>2. PICK f \in Range(fields) : \/ s[f.key] # <<>> /\ pairs[i] = <<f.key, enc[f]>>
                                   \/ s[f.key] = <<>> /\ f.required /\ pairs[i] = <<f.key, Arr(<<>>)>>
    BY <2>1, SlotsAre
  <2>3. s[f.key] # <<>>
    BY <2>2 DEF Struct, Complete
  <2> QED
    BY <2>2, <2>3 DEF Struct
<1>2. \A f \in Range(fields) : s[f.key] # <<>> => \E i \in 1..n : pairs[i][1] = f.key
  <2> SUFFICES ASSUME NEW f \in Range(fields), s[f.key] # <<>> PROVE \E i \in 1..n : pairs[i][1] = f.key
    OBVIOUS
  <2>1. <<f.key, enc[f]>> \in Range(pairs)
    BY SlotsAre
  <2>2. PICK i \in 1..n : pairs[i] = <<f.key, enc[f]>>
    BY <2>1 DEF Range
  <2> QED
    BY <2>2
<1>3. \A i \in 1..n : \A f \in Range(fields) : f.key = pairs[i][1] => \E v : s[f.key] = <<v>> /\ val[f][i] = {v}
  <2> SUFFICES ASSUME NEW i \in 1..n, NEW f \in Range(fields), f.key = pairs[i][1]
               PROVE  \E v : s[f.key] = <<v>> /\ val[f][i] = {v}
    OBVIOUS
  <2>1. PICK g \in Range(fields) : \E v : s[g.key] = <<v>> /\ pairs[i] = <<g.key, enc[g]>>
    BY <1>1
  <2>2. g = f
    BY <1>0, <2>1
  <2>3. pairs[i][2] = enc[f]
    BY <2>1, <2>2
  <2> QED
    BY <2>1, <2>2, <2>3
<1>4. Sound(fields, pairs, val, n)
  BY <1>3 DEF Sound
<1>5. \A f \in Range(fields) : \A x : Slot(f, pairs, val, n, x) <=> x = s[f.key]
  <2> SUFFICES ASSUME NEW f \in Range(fields), NEW x PROVE Slot(f, pairs, val, n, x) <=> x = s[f.key]
    OBVIOUS
  <2>1. CASE \A i \in 1..n : pairs[i][1] # f.key
    <3>1. s[f.key] = <<>>
      BY <1>2, <2>1
    <3>2. \A i : ~LastNamed(pairs, f.key, i, n)
      BY <2>1 DEF LastNamed
    <3> QED
      BY <2>1, <3>1, <3>2 DEF Slot
  <2>2. CASE \E i \in 1..n : pairs[i][1] = f.key
    <3>1. PICK i \in 1..n : pairs[i][1] = f.key
      BY <2>2
    <3>2. PICK v : s[f.key] = <<v>>
      BY <1>3, <3>1
    <3>3. \A j \in 1..n : pairs[j][1] = f.key => val[f][j] = {v}
      BY <1>3, <3>2
    <3>4. PICK j \in 1..n : LastNamed(pairs, f.key, j, n)
      BY <3>1, LastOne
    <3>5. \A k \in 1..n : LastNamed(pairs, f.key, k, n) => val[f][k] = {v}
      BY <3>3 DEF LastNamed
    <3> QED
      BY <2>2, <3>2, <3>4, <3>5 DEF Slot
  <2> QED
    BY <2>1, <2>2
<1>6. s \in Structs(fields, n, val)
  <2>1. \A f \in Range(fields) : s[f.key] \in {<<>>} \cup {<<v>> : v \in Held(fields, n, val)}
    <3> SUFFICES ASSUME NEW f \in Range(fields), s[f.key] # <<>>
                 PROVE  s[f.key] \in {<<v>> : v \in Held(fields, n, val)}
      OBVIOUS
    <3>1. PICK i \in 1..n : pairs[i][1] = f.key
      BY <1>2
    <3>2. PICK v : s[f.key] = <<v>> /\ val[f][i] = {v}
      BY <1>3, <3>1
    <3>3. v \in Held(fields, n, val)
      BY <3>2 DEF Held
    <3> QED
      BY <3>2, <3>3
  <2>2. \A k \in Keys(fields) : s[k] \in {<<>>} \cup {<<v>> : v \in Held(fields, n, val)}
    BY <2>1 DEF Keys
  <2>3. s = [k \in Keys(fields) |-> s[k]]
    BY DEF Struct
  <2> QED
    BY <2>2, <2>3 DEF Structs
<1>7. \A t \in Structs(fields, n, val) : (\A f \in Range(fields) : t[f.key] = s[f.key]) => t = s
  <2> SUFFICES ASSUME NEW t \in Structs(fields, n, val), \A f \in Range(fields) : t[f.key] = s[f.key] PROVE t = s
    OBVIOUS
  <2>1. t = [k \in Keys(fields) |-> t[k]]
    BY DEF Structs
  <2>2. \A k \in Keys(fields) : t[k] = s[k]
    BY DEF Keys
  <2>3. s = [k \in Keys(fields) |-> s[k]]
    BY DEF Struct
  <2> QED
    BY <2>1, <2>2, <2>3
<1>8. Complete(fields, s)
  BY DEF Struct
<1> QED
  BY <1>4, <1>5, <1>6, <1>7, <1>8 DEF ObjectReadings, Readings

\* What the slots of a struct of scalars are written as.
FlatJSON(fields, s) ==
    [f \in Range(fields) |-> EncodeScalar(f.kind, s[f.key][1])]

\* EncodeFlat(fields, s), field by field.
LEMMA EncodeFlatIs ==
    ASSUME NEW fields, NEW s
    PROVE  EncodeFlat(fields, s) = Obj(FlattenSeq(Slots(fields, s, FlatJSON(fields, s))))
<1> DEFINE enc == FlatJSON(fields, s)
           W(f) == IF s[f.key] # <<>> THEN <<<<f.key, EncodeScalar(f.kind, s[f.key][1])>>>>
                   ELSE IF f.required THEN <<<<f.key, Arr(<<>>)>>>> ELSE <<>>
           seqs == [i \in DOMAIN fields |-> W(fields[i])]
<1>1. EncodeFlat(fields, s) = Obj(FlattenSeq(seqs))
  BY DEF EncodeFlat, EncodeObject
<1>2. \A i \in DOMAIN fields : fields[i] \in Range(fields)
  BY DEF Range
<1>3. \A f \in Range(fields) : enc[f] = EncodeScalar(f.kind, s[f.key][1])
  BY DEF FlatJSON
<1> HIDE DEF enc
<1>4. Slots(fields, s, enc) = seqs
  BY <1>2, <1>3 DEF Slots
<1> QED
  BY <1>1, <1>4 DEF enc

\* What the slots of a product are written as.
ProductJSON(s) ==
    [f \in Range(ProductFields) |-> IF f.kind = "image" THEN EncodeFlat(ImageFields, s[f.key][1]) ELSE EncodeScalar(f.kind, s[f.key][1])]

\* EncodeProduct(s), field by field.
LEMMA EncodeProductIs ==
    ASSUME NEW s
    PROVE  EncodeProduct(s) = Obj(FlattenSeq(Slots(ProductFields, s, ProductJSON(s))))
<1> DEFINE fields == ProductFields
           enc == ProductJSON(s)
           W(f) == IF s[f.key] # <<>> THEN <<<<f.key, IF f.kind = "image" THEN EncodeFlat(ImageFields, s[f.key][1]) ELSE EncodeScalar(f.kind, s[f.key][1])>>>>
                   ELSE IF f.required THEN <<<<f.key, Arr(<<>>)>>>> ELSE <<>>
           seqs == [i \in DOMAIN fields |-> W(fields[i])]
<1>1. EncodeProduct(s) = Obj(FlattenSeq(seqs))
  BY DEF EncodeProduct, EncodeObject
<1>2. \A i \in DOMAIN fields : fields[i] \in Range(fields)
  BY DEF Range
<1>3. \A f \in Range(fields) : enc[f] = IF f.kind = "image" THEN EncodeFlat(ImageFields, s[f.key][1]) ELSE EncodeScalar(f.kind, s[f.key][1])
  BY DEF ProductJSON
<1> HIDE DEF fields, enc
<1>4. Slots(fields, s, enc) = seqs
  BY <1>2, <1>3 DEF Slots
<1> QED
  BY <1>1, <1>4 DEF fields, enc

\* What the slots of an order are written as.
OrderJSON(s) ==
    [f \in Range(OrderFields) |-> CASE f.kind = "orderItems" -> EncodeOrderItems(s[f.key][1]) [] f.kind = "products" -> EncodeProducts(s[f.key][1]) [] OTHER -> EncodeScalar(f.kind, s[f.key][1])]

\* EncodeOrder(s), field by field.
LEMMA EncodeOrderIs ==
    ASSUME NEW s
    PROVE  EncodeOrder(s) = Obj(FlattenSeq(Slots(OrderFields, s, OrderJSON(s))))
<1> DEFINE fields == OrderFields
           enc == OrderJSON(s)
           W(f) == IF s[f.key] # <<>> THEN <<<<f.key, CASE f.kind = "orderItems" -> EncodeOrderItems(s[f.key][1]) [] f.kind = "products" -> EncodeProducts(s[f.key][1]) [] OTHER -> EncodeScalar(f.kind, s[f.key][1])>>>>
                   ELSE IF f.required THEN <<<<f.key, Arr(<<>>)>>>> ELSE <<>>
           seqs == [i \in DOMAIN fields |-> W(fields[i])]
<1>1. EncodeOrder(s) = Obj(FlattenSeq(seqs))
  BY DEF EncodeOrder, EncodeObject
<1>2. \A i \in DOMAIN fields : fields[i] \in Range(fields)
  BY DEF Range
<1>3. \A f \in Range(fields) : enc[f] = CASE f.kind = "orderItems" -> EncodeOrderItems(s[f.key][1]) [] f.kind = "products" -> EncodeProducts(s[f.key][1]) [] OTHER -> EncodeScalar(f.kind, s[f.key][1])
  BY DEF OrderJSON
<1> HIDE DEF fields, enc
<1>4. Slots(fields, s, enc) = seqs
  BY <1>2, <1>3 DEF Slots
<1> QED
  BY <1>1, <1>4 DEF fields, enc

\* What the slots of an order request are written as.
OrderReqJSON(s) ==
    [f \in Range(OrderReqFields) |-> IF f.kind = "reqItems" THEN EncodeReqItems(s[f.key][1]) ELSE EncodeScalar(f.kind, s[f.key][1])]

\* EncodeOrderReq(s), field by field.
LEMMA EncodeOrderReqIs ==
    ASSUME NEW s
    PROVE  EncodeOrderReq(s) = Obj(FlattenSeq(Slots(OrderReqFields, s, OrderReqJSON(s))))
<1> DEFINE fields == OrderReqFields
           enc == OrderReqJSON(s)
           W(f) == IF s[f.key] # <<>> THEN <<<<f.key, IF f.kind = "reqItems" THEN EncodeReqItems(s[f.key][1]) ELSE EncodeScalar(f.kind, s[f.key][1])>>>>
                   ELSE IF f.required THEN <<<<f.key, Arr(<<>>)>>>> ELSE <<>>
           seqs == [i \in DOMAIN fields |-> W(fields[i])]
<1>1. EncodeOrderReq(s) = Obj(FlattenSeq(seqs))
  BY DEF EncodeOrderReq, EncodeObject
<1>2. \A i \in DOMAIN fields : fields[i] \in Range(fields)
  BY DEF Range
<1>3. \A f \in Range(fields) : enc[f] = IF f.kind = "reqItems" THEN EncodeReqItems(s[f.key][1]) ELSE EncodeScalar(f.kind, s[f.key][1])
  BY DEF OrderReqJSON
<1> HIDE DEF fields, enc
<1>4. Slots(fields, s, enc) = seqs
  BY <1>2, <1>3 DEF Slots
<1> QED
  BY <1>1, <1>4 DEF fields, enc

----------------------------------------------------------------------------
(* What is encoded is decoded.                                             *)

\* A struct of scalars.
LEMMA FlatTrip ==
    ASSUME NEW fields, Schema(fields), KeysDiffer(fields), NEW s, Struct(fields, s)
    PROVE  DecodeFlat(fields, Zero(fields), EncodeFlat(fields, s)) = {s}
<1> DEFINE enc == FlatJSON(fields, s)
           pairs == FlattenSeq(Slots(fields, s, enc))
           json == EncodeFlat(fields, s)
<1>1. json = Obj(pairs)
  BY EncodeFlatIs
<1>2. json[1] = "obj" /\ json[2] = pairs
  BY <1>1 DEF Obj
<1>3. PICK n \in Nat : DOMAIN pairs = 1..n
  BY SlotsAre
<1> DEFINE val == Scalars(fields, pairs, n)
<1>4. ASSUME NEW f \in Range(fields), NEW i \in 1..n, NEW v, s[f.key] = <<v>>, pairs[i][2] = enc[f]
      PROVE  val[f][i] = {v}
  <2>1. enc[f] = <<f.kind, v>>
    BY <1>4 DEF FlatJSON, EncodeScalar
  <2>2. val[f][i] = DecodeScalar(f.kind, <<>>, enc[f])
    BY <1>4 DEF Scalars
  <2> QED
    BY <2>1, <2>2 DEF DecodeScalar
<1> HIDE DEF val, pairs, enc, json
<1>5. DecodeFlat(fields, Zero(fields), json) = ObjectReadings(fields, pairs, n, val)
  BY <1>2, <1>3, FlatIs DEF val
<1>6. ObjectReadings(fields, pairs, n, val) = {s}
  <2>1. pairs = FlattenSeq(Slots(fields, s, enc))
    BY DEF pairs
  <2> QED
    BY <1>3, <1>4, <2>1, ReadBack
<1> QED
  BY <1>5, <1>6 DEF json

\* A list, if its elements are.
LEMMA OneListing ==
    ASSUME NEW n \in Nat, NEW list, list = [i \in 1..n |-> list[i]], NEW el, DOMAIN el = 1..n,
           \A i \in 1..n : el[i] = {list[i]}
    PROVE  Listings(el, n) = {list}
<1>1. \A i \in 1..n : list[i] \in Elements(el)
  BY DEF Elements
<1>2. list \in Seq(Elements(el)) /\ Len(list) = n
  BY <1>1
<1>3. list \in Listings(el, n)
  BY <1>2 DEF Listings
<1>4. ASSUME NEW t \in Listings(el, n) PROVE t = list
  <2>1. t \in Seq(Elements(el)) /\ Len(t) = n /\ \A i \in 1..n : t[i] = list[i]
    BY <1>4 DEF Listings
  <2>2. t = [i \in 1..n |-> t[i]]
    BY <2>1
  <2> QED
    BY <2>1, <2>2
<1> QED
  BY <1>3, <1>4

\* A product, with its image.
Product(s) == /\ Struct(ProductFields, s)
              /\ \A v : s["image"] = <<v>> => Struct(ImageFields, v)

\* A product is decoded to what was encoded.
LEMMA ProductTrip ==
    ASSUME NEW s, Product(s)
    PROVE  DecodeProduct(EncodeProduct(s)) = {s}
<1> DEFINE fields == ProductFields
           enc == ProductJSON(s)
           pairs == FlattenSeq(Slots(fields, s, enc))
           json == EncodeProduct(s)
<1>0. Schema(fields) /\ KeysDiffer(fields) /\ Struct(fields, s)
  BY Schemas, SchemaKeys DEF Product
<1>1. json = Obj(pairs)
  BY EncodeProductIs
<1>2. json[1] = "obj" /\ json[2] = pairs
  BY <1>1 DEF Obj
<1>3. PICK n \in Nat : DOMAIN pairs = 1..n
  <2> HIDE DEF fields, enc
  <2> QED
    BY <1>0, SlotsAre
<1> DEFINE val == ProductValues(pairs, n)
<1>4. ASSUME NEW f \in Range(fields), NEW i \in 1..n, NEW v, s[f.key] = <<v>>, pairs[i][2] = enc[f]
      PROVE  val[f][i] = {v}
  <2>1. CASE f.kind = "image"
    <3>1. f.key = "image"
      BY <2>1 DEF ProductFields, Opt, Range
    <3>2. Struct(ImageFields, v)
      BY <1>4, <3>1 DEF Product
    <3>3. enc[f] = EncodeFlat(ImageFields, v)
      BY <1>4, <2>1 DEF ProductJSON
    <3>4. val[f][i] = DecodeImage(<<>>, enc[f])
      BY <1>4, <2>1 DEF ProductValues
    <3>5. DecodeFlat(ImageFields, Zero(ImageFields), EncodeFlat(ImageFields, v)) = {v}
      BY <3>2, Schemas, SchemaKeys, FlatTrip
    <3> QED
      BY <3>3, <3>4, <3>5 DEF DecodeImage, NoImage
  <2>2. CASE f.kind # "image"
    <3>1. enc[f] = <<f.kind, v>>
      BY SMTT(30), <1>4, <2>2 DEF ProductJSON, EncodeScalar
    <3>2. val[f][i] = DecodeScalar(f.kind, <<>>, enc[f])
      BY <1>4, <2>2 DEF ProductValues
    <3> QED
      BY <3>1, <3>2 DEF DecodeScalar
  <2> QED
    BY <2>1, <2>2
<1> HIDE DEF val, pairs, enc, json, fields
<1>5. DecodeProduct(json) = ObjectReadings(fields, pairs, n, val)
  BY <1>2, <1>3, DecodeProductIs DEF val, fields
<1>6. ObjectReadings(fields, pairs, n, val) = {s}
  <2>1. pairs = FlattenSeq(Slots(fields, s, enc))
    BY DEF pairs
  <2> QED
    BY <1>0, <1>3, <1>4, <2>1, ReadBack
<1> QED
  BY <1>5, <1>6 DEF json

\* A finite list.
Sequence(list) == \E n \in Nat : list = [i \in 1..n |-> list[i]]

\* A list of products.
LEMMA ProductsTrip ==
    ASSUME NEW list, Sequence(list), \A i \in DOMAIN list : Product(list[i])
    PROVE  DecodeProducts(<<>>, EncodeProducts(list)) = {list}
<1> DEFINE json == EncodeProducts(list)
<1>1. PICK n \in Nat : list = [i \in 1..n |-> list[i]]
  BY DEF Sequence
<1>2. DOMAIN list = 1..n
  BY <1>1
<1>3. json[1] = "arr" /\ json[2] = [i \in 1..n |-> EncodeProduct(list[i])]
  BY <1>2 DEF EncodeProducts, EncodeList, Arr
<1> HIDE DEF json
<1> DEFINE el == [i \in 1..n |-> DecodeProduct(json[2][i])]
<1>4. DOMAIN el = 1..n /\ \A i \in 1..n : el[i] = {list[i]}
  BY <1>2, <1>3, ProductTrip
<1>5. DecodeProducts(<<>>, json) = Listings(el, n)
  BY <1>3, DecodeProductsIs
<1> HIDE DEF el
<1>6. Listings(el, n) = {list}
  BY <1>1, <1>4, OneListing
<1> QED
  BY <1>5, <1>6 DEF json

\* A list of the items of an order.
LEMMA OrderItemsTrip ==
    ASSUME NEW list, Sequence(list), \A i \in DOMAIN list : Struct(OrderItemFields, list[i])
    PROVE  DecodeOrderItems(<<>>, EncodeOrderItems(list)) = {list}
<1> DEFINE json == EncodeOrderItems(list)
<1>1. PICK n \in Nat : list = [i \in 1..n |-> list[i]]
  BY DEF Sequence
<1>2. DOMAIN list = 1..n
  BY <1>1
<1>3. json[1] = "arr" /\ json[2] = [i \in 1..n |-> EncodeOrderItem(list[i])]
  BY <1>2 DEF EncodeOrderItems, EncodeList, Arr
<1> HIDE DEF json
<1> DEFINE el == [i \in 1..n |-> DecodeOrderItem(json[2][i])]
<1>4. DOMAIN el = 1..n /\ \A i \in 1..n : el[i] = {list[i]}
  <2>1. \A s : Struct(OrderItemFields, s) => DecodeOrderItem(EncodeOrderItem(s)) = {s}
    BY Schemas, SchemaKeys, FlatTrip DEF DecodeOrderItem, EncodeOrderItem, NoOrderItem
  <2> QED
    BY <1>2, <1>3, <2>1
<1>5. DecodeOrderItems(<<>>, json) = Listings(el, n)
  BY <1>3, DecodeOrderItemsIs
<1> HIDE DEF el
<1>6. Listings(el, n) = {list}
  BY <1>1, <1>4, OneListing
<1> QED
  BY <1>5, <1>6 DEF json

\* An order, with its items and products.
Order(s) == /\ Struct(OrderFields, s)
            /\ \A v : s["items"] = <<v>> => Sequence(v) /\ \A i \in DOMAIN v : Struct(OrderItemFields, v[i])
            /\ \A v : s["products"] = <<v>> => Sequence(v) /\ \A i \in DOMAIN v : Product(v[i])

\* So is an order, with its items and products.
LEMMA OrderTrip ==
    ASSUME NEW s, Order(s)
    PROVE  DecodeOrder(EncodeOrder(s)) = {s}
<1> DEFINE fields == OrderFields
           enc == OrderJSON(s)
           pairs == FlattenSeq(Slots(fields, s, enc))
           json == EncodeOrder(s)
<1>0. Schema(fields) /\ KeysDiffer(fields) /\ Struct(fields, s)
  BY Schemas, SchemaKeys DEF Order
<1>1. json = Obj(pairs)
  BY EncodeOrderIs
<1>2. json[1] = "obj" /\ json[2] = pairs
  BY <1>1 DEF Obj
<1>3. PICK n \in Nat : DOMAIN pairs = 1..n
  <2> HIDE DEF fields, enc
  <2> QED
    BY <1>0, SlotsAre
<1> DEFINE val == OrderValues(pairs, n)
<1>4. ASSUME NEW f \in Range(fields), NEW i \in 1..n, NEW v, s[f.key] = <<v>>, pairs[i][2] = enc[f]
      PROVE  val[f][i] = {v}
  <2>0. (f.kind = "orderItems" => f.key = "items") /\ (f.kind = "products" => f.key = "products")
    BY DEF OrderFields, Opt, Range
  <2>1. CASE f.kind = "orderItems"
    <3>1. Sequence(v) /\ \A j \in DOMAIN v : Struct(OrderItemFields, v[j])
      BY <1>4, <2>0, <2>1 DEF Order
    <3>2. enc[f] = EncodeOrderItems(v)
      BY <1>4, <2>1 DEF OrderJSON
    <3>3. val[f][i] = DecodeOrderItems(<<>>, enc[f])
      BY <1>4, <2>1 DEF OrderValues
    <3> QED
      BY <3>1, <3>2, <3>3, OrderItemsTrip
  <2>2. CASE f.kind = "products"
    <3>1. Sequence(v) /\ \A j \in DOMAIN v : Product(v[j])
      BY <1>4, <2>0, <2>2 DEF Order
    <3>2. enc[f] = EncodeProducts(v)
      BY <1>4, <2>2 DEF OrderJSON
    <3>3. val[f][i] = DecodeProducts(<<>>, enc[f])
      BY <1>4, <2>2 DEF OrderValues
    <3> QED
      BY <3>1, <3>2, <3>3, ProductsTrip
  <2>3. CASE f.kind \notin {"orderItems", "products"}
    <3>1. enc[f] = <<f.kind, v>>
      BY <1>4, <2>3 DEF OrderJSON, EncodeScalar
    <3>2. val[f][i] = DecodeScalar(f.kind, <<>>, enc[f])
      BY <1>4, <2>3 DEF OrderValues
    <3> QED
      BY <3>1, <3>2 DEF DecodeScalar
  <2> QED
    BY <2>1, <2>2, <2>3
<1> HIDE DEF val, pairs, enc, json, fields
<1>5. DecodeOrder(json) = ObjectReadings(fields, pairs, n, val)
  BY <1>2, <1>3, DecodeOrderIs DEF val, fields
<1>6. ObjectReadings(fields, pairs, n, val) = {s}
  <2>1. pairs = FlattenSeq(Slots(fields, s, enc))
    BY DEF pairs
  <2> QED
    BY <1>0, <1>3, <1>4, <2>1, ReadBack
<1> QED
  BY <1>5, <1>6 DEF json

----------------------------------------------------------------------------
(* What the handler reads of a body is what was sent.                     *)

\* What the slot of a field holds is what the last pair with its key says.
LEMMA SlotRead ==
    ASSUME NEW pairs, NEW n \in Nat, DOMAIN pairs = 1..n, NEW f, NEW k, k = f.key, NEW val, NEW slot,
           Slot(f, pairs, val, n, slot)
    PROVE  \/ ~Mentions(pairs, k) /\ slot = <<>>
           \/ /\ Mentions(pairs, k)
              /\ \E i \in 1..n : ValueOf(pairs, k) = pairs[i][2] /\ \E v \in val[f][i] : slot = <<v>>
<1>1. CASE (\A i \in 1..n : pairs[i][1] # k) /\ slot = <<>>
  BY <1>1 DEF Mentions
<1>2. CASE \E i \in 1..n : LastNamed(pairs, k, i, n) /\ \E v \in val[f][i] : slot = <<v>>
  <2>1. PICK i \in 1..n : LastNamed(pairs, k, i, n) /\ \E v \in val[f][i] : slot = <<v>>
    BY <1>2
  <2> DEFINE named == {j \in 1..n : pairs[j][1] = k}
  <2>2. i \in named /\ \A j \in named : j <= i
    BY <2>1 DEF LastNamed
  <2>3. Max(named) \in named /\ \A j \in named : j <= Max(named)
    <3>1. named \in SUBSET (1..n) /\ named # {}
      BY <2>2
    <3> HIDE DEF named
    <3> QED
      BY <3>1, GreatestIn
  <2>4. Max(named) = i
    <3>1. i \in Nat /\ Max(named) \in Nat /\ i <= Max(named) /\ Max(named) <= i
      BY <2>2, <2>3
    <3> QED
      BY <3>1
  <2>5. ValueOf(pairs, k) = pairs[i][2]
    BY <2>4 DEF ValueOf
  <2>6. Mentions(pairs, k)
    BY <2>1 DEF Mentions, LastNamed
  <2> QED
    BY <2>1, <2>5, <2>6
<1> QED
  BY <1>1, <1>2 DEF Slot

\* What is read of a line of an order.
LEMMA LineRead ==
    ASSUME NEW json, Finite(json), NEW item \in DecodeReqItem(json)
    PROVE  /\ Struct(ReqItemFields, item)
           /\ item["productId"] = <<ValueOf(json[2], "productId")[2]>>
           /\ item["quantity"] = <<ValueOf(json[2], "quantity")[2]>>
<1>1. json[1] = "obj"
  BY DEF DecodeReqItem, DecodeFlat, DecodeObject
<1> DEFINE pairs == json[2]
           n == Len(pairs)
           fields == ReqItemFields
           val == Scalars(fields, pairs, n)
<1>2. n \in Nat /\ DOMAIN pairs = 1..n
  BY <1>1 DEF Finite, IsList
<1>3. item \in ObjectReadings(fields, pairs, n, val)
  <2> HIDE DEF n
  <2> QED
    BY <1>1, <1>2, FlatIs, SchemaKeys DEF DecodeReqItem, NoReqItem
<1>4. /\ item \in Structs(fields, n, val)
      /\ Complete(fields, item)
      /\ \A f \in Range(fields) : Slot(f, pairs, val, n, item[f.key])
  BY <1>3 DEF ObjectReadings, Readings
<1>5. ASSUME NEW f \in Range(fields), NEW k, k = f.key, f.required
      PROVE  item[k] = <<ValueOf(pairs, k)[2]>>
  <2>1. item[k] # <<>> /\ Slot(f, pairs, val, n, item[k])
    BY <1>4, <1>5 DEF Complete
  <2> HIDE DEF n, val
  <2>2. PICK i \in 1..n : ValueOf(pairs, k) = pairs[i][2] /\ \E v \in val[f][i] : item[k] = <<v>>
    BY <1>2, <1>5, <2>1, SlotRead
  <2>3. val[f][i] = DecodeScalar(f.kind, <<>>, pairs[i][2])
    BY <1>5 DEF val, Scalars
  <2> QED
    BY <2>2, <2>3 DEF DecodeScalar
<1>6. Required("productId", "str") \in Range(fields) /\ Required("quantity", "num") \in Range(fields)
  <2>1. fields[1] = Required("productId", "str") /\ fields[2] = Required("quantity", "num") /\ 1 \in DOMAIN fields /\ 2 \in DOMAIN fields
    BY DEF ReqItemFields
  <2> QED
    BY <2>1 DEF Range
<1>7. item["productId"] = <<ValueOf(pairs, "productId")[2]>> /\ item["quantity"] = <<ValueOf(pairs, "quantity")[2]>>
  <2> HIDE DEF n, val, fields, pairs
  <2> QED
    BY <1>5, <1>6 DEF Required
<1>8. Struct(fields, item)
  <2> HIDE DEF n, val, fields, pairs
  <2>1. item = [k \in Keys(fields) |-> item[k]]
    BY <1>4 DEF Structs
  <2>2. \A f \in Range(fields) : f.key \in Keys(fields)
    BY DEF Keys
  <2>3. \A f \in Range(fields) : item[f.key] = <<>> \/ \E v : item[f.key] = <<v>>
    BY <1>4, <2>2 DEF Structs
  <2> QED
    BY <1>4, <2>1, <2>3 DEF Struct
<1> QED
  BY <1>7, <1>8

\* An order request whose items are a list of items.
Demand(req) ==
    /\ Struct(OrderReqFields, req)
    /\ \A v : req["items"] = <<v>> => Sequence(v) /\ \A i \in DOMAIN v : Struct(ReqItemFields, v[i])

\* What is read of an order.
LEMMA RequestRead ==
    ASSUME NEW json, Document(json), NEW req \in DecodeOrderReq(json), ValidOrderReq(req)
    PROVE  Demand(req) /\ ReadsAs(json, req)
<1>1. json[1] = "obj"
  BY DEF DecodeOrderReq, DecodeObject
<1> DEFINE pairs == json[2]
           n == Len(pairs)
           fields == OrderReqFields
           val == OrderReqValues(pairs, n)
<1>2. /\ n \in Nat /\ DOMAIN pairs = 1..n
      /\ \A i \in 1..n : LET value == pairs[i][2] IN
            /\ Finite(value)
            /\ value[1] = "arr" => \A j \in DOMAIN value[2] : Finite(value[2][j])
  BY <1>1 DEF Document, Finite, IsList
<1>3. req \in ObjectReadings(fields, pairs, n, val)
  <2> HIDE DEF n
  <2> QED
    BY <1>1, <1>2, DecodeOrderReqIs
<1>4. /\ req \in Structs(fields, n, val)
      /\ Complete(fields, req)
      /\ \A f \in Range(fields) : Slot(f, pairs, val, n, req[f.key])
  BY <1>3 DEF ObjectReadings, Readings
<1>5. Opt("couponCode", "str") \in Range(fields) /\ Required("items", "reqItems") \in Range(fields)
  <2>1. fields[1] = Opt("couponCode", "str") /\ fields[2] = Required("items", "reqItems") /\ 1 \in DOMAIN fields /\ 2 \in DOMAIN fields
    BY DEF OrderReqFields
  <2> QED
    BY <2>1 DEF Range
<1> HIDE DEF n, val, fields, pairs
<1>6. req["couponCode"] = IF Mentions(pairs, "couponCode") THEN <<ValueOf(pairs, "couponCode")[2]>> ELSE <<>>
  <2> DEFINE f == Opt("couponCode", "str")
  <2>1. f.key = "couponCode" /\ f.kind = "str" /\ f \in Range(fields)
    BY <1>5 DEF Opt
  <2> HIDE DEF f
  <2>2. Slot(f, pairs, val, n, req["couponCode"])
    BY <1>4, <2>1
  <2>3. CASE Mentions(pairs, "couponCode")
    <3>1. PICK i \in 1..n : ValueOf(pairs, "couponCode") = pairs[i][2] /\ \E v \in val[f][i] : req["couponCode"] = <<v>>
      BY <1>2, <2>1, <2>2, <2>3, SlotRead
    <3>2. val[f][i] = DecodeScalar(f.kind, <<>>, pairs[i][2])
      BY <2>1 DEF val, OrderReqValues, fields
    <3> QED
      BY <2>3, <3>1, <3>2 DEF DecodeScalar
  <2>4. CASE ~Mentions(pairs, "couponCode")
    BY <1>2, <2>1, <2>2, <2>4, SlotRead
  <2> QED
    BY <2>3, <2>4
<1> DEFINE list == ValueOf(pairs, "items")[2]
           m == Len(list)
<1>7. PICK lines : /\ req["items"] = <<lines>> /\ m \in Nat /\ DOMAIN list = 1..m
                   /\ lines \in Listings([j \in 1..m |-> DecodeReqItem(list[j])], m)
                   /\ \A j \in 1..m : Finite(list[j])
  <2> DEFINE f == Required("items", "reqItems")
  <2>1. f.key = "items" /\ f.kind = "reqItems" /\ f.required /\ f \in Range(fields)
    BY <1>5 DEF Required
  <2> HIDE DEF f
  <2>2. Slot(f, pairs, val, n, req["items"]) /\ req["items"] # <<>>
    BY <1>4, <2>1 DEF Complete
  <2>3. PICK i \in 1..n : ValueOf(pairs, "items") = pairs[i][2] /\ \E v \in val[f][i] : req["items"] = <<v>>
    BY <1>2, <2>1, <2>2, SlotRead
  <2> DEFINE value == pairs[i][2]
  <2>4. val[f][i] = DecodeReqItems(<<>>, value)
    BY <2>1 DEF val, OrderReqValues, fields
  <2>5. PICK v \in DecodeReqItems(<<>>, value) : req["items"] = <<v>>
    BY <2>3, <2>4
  <2>6. value[1] = "arr"
    <3>1. value[1] # "arr" => DecodeReqItems(<<>>, value) = {}
      <4> HIDE DEF value
      <4> QED
        BY DEF DecodeReqItems, DecodeList, FoldLeft, MapThenFoldSet
    <3> QED
      BY <2>5, <3>1
  <2>7. list = value[2] /\ Finite(value) /\ \A j \in DOMAIN value[2] : Finite(value[2][j])
    BY <1>2, <2>3, <2>6
  <2>8. m \in Nat /\ DOMAIN list = 1..m
    BY <2>6, <2>7 DEF Finite, IsList
  <2> HIDE DEF m, list, value
  <2>9. v \in Listings([j \in 1..m |-> DecodeReqItem(list[j])], m)
    BY <2>5, <2>6, <2>7, <2>8, DecodeReqItemsIs
  <2> QED
    BY <2>5, <2>7, <2>8, <2>9
<1> HIDE DEF m, list
<1>8. /\ lines \in Seq(Elements([j \in 1..m |-> DecodeReqItem(list[j])])) /\ Len(lines) = m
      /\ \A j \in 1..m : lines[j] \in DecodeReqItem(list[j])
  BY <1>7 DEF Listings
<1>9. \A j \in 1..m : /\ Struct(ReqItemFields, lines[j])
                      /\ lines[j]["productId"] = <<ValueOf(list[j][2], "productId")[2]>>
                      /\ lines[j]["quantity"] = <<ValueOf(list[j][2], "quantity")[2]>>
  BY <1>7, <1>8, LineRead
<1>10. DOMAIN lines = 1..m /\ lines = [j \in 1..m |-> lines[j]]
  BY <1>7, <1>8
<1>11. \A j \in 1..m : ValueOf(list[j][2], "quantity")[2] >= 1
  <2>1. \A j \in 1..m : ValidItem(lines[j])
    BY <1>7, <1>10 DEF ValidOrderReq
  <2> QED
    BY <1>9, <2>1 DEF ValidItem
<1>12. ReadsAs(json, req)
  <2>1. req["items"][1] = lines /\ Len(lines) = Len(list)
    BY <1>7, <1>8 DEF m
  <2> QED
    BY <1>6, <1>7, <1>9, <1>11, <2>1 DEF ReadsAs, pairs, list
<1>13. Demand(req)
  <2>1. req = [k \in Keys(fields) |-> req[k]]
    BY <1>4 DEF Structs
  <2>2. \A f \in Range(fields) : f.key \in Keys(fields)
    BY DEF Keys
  <2>3. \A f \in Range(fields) : req[f.key] = <<>> \/ \E v : req[f.key] = <<v>>
    BY <1>4, <2>2 DEF Structs
  <2>4. Struct(fields, req)
    BY <1>4, <2>1, <2>3 DEF Struct
  <2>5. Sequence(lines) /\ \A i \in DOMAIN lines : Struct(ReqItemFields, lines[i])
    BY <1>7, <1>9, <1>10 DEF Sequence
  <2> QED
    BY <1>7, <2>4, <2>5 DEF Demand, fields
<1> QED
  BY <1>12, <1>13

\* What is encoded as an object is finite.
LEMMA WrittenFinite ==
    ASSUME NEW fields, Schema(fields), NEW s, NEW enc
    PROVE  IsList(FlattenSeq(Slots(fields, s, enc)))
<1> DEFINE pairs == FlattenSeq(Slots(fields, s, enc))
<1>1. PICK n \in Nat : DOMAIN pairs = 1..n
  BY SlotsAre
<1> HIDE DEF pairs
<1>2. Len(pairs) = n
  BY <1>1
<1>3. IsList(pairs)
  BY <1>1, <1>2 DEF IsList
<1> QED
  BY <1>3 DEF pairs

\* The generated client writes a document.
LEMMA CallWritten ==
    ASSUME NEW arg, arg["items"] = <<>> \/ IsList(arg["items"][1])
    PROVE  Document(EncodeOrderReq(arg))
<1> DEFINE fields == OrderReqFields
           enc == OrderReqJSON(arg)
           pairs == FlattenSeq(Slots(fields, arg, enc))
<1>1. EncodeOrderReq(arg) = Obj(pairs)
  BY EncodeOrderReqIs
<1>2. Schema(fields) /\ IsList(pairs)
  BY Schemas, WrittenFinite
<1>3. \A item : Finite(EncodeReqItem(item))
  <2> SUFFICES ASSUME NEW item PROVE Finite(EncodeReqItem(item))
    OBVIOUS
  <2>1. EncodeReqItem(item) = Obj(FlattenSeq(Slots(ReqItemFields, item, FlatJSON(ReqItemFields, item))))
    BY EncodeFlatIs DEF EncodeReqItem
  <2>2. IsList(FlattenSeq(Slots(ReqItemFields, item, FlatJSON(ReqItemFields, item))))
    BY Schemas, WrittenFinite
  <2> QED
    BY <2>1, <2>2 DEF Finite, Obj
<1> DEFINE Shallow(value) == Finite(value) /\ (value[1] = "arr" => \A j \in DOMAIN value[2] : Finite(value[2][j]))
<1>4. ASSUME NEW f \in Range(fields), arg[f.key] # <<>> PROVE Shallow(enc[f])
  <2>1. CASE f.kind = "reqItems"
    <3>1. f.key = "items"
      BY <2>1 DEF OrderReqFields, Opt, Required, Range
    <3> DEFINE list == arg["items"][1]
    <3>2. IsList(list)
      BY <1>4, <3>1
    <3>3. enc[f] = EncodeReqItems(list)
      BY <2>1, <3>1 DEF OrderReqJSON
    <3> HIDE DEF list
    <3>4. enc[f][1] = "arr" /\ enc[f][2] = [i \in DOMAIN list |-> EncodeReqItem(list[i])]
      BY <3>3 DEF EncodeReqItems, EncodeList, Arr
    <3>5. IsList(enc[f][2])
      BY <3>2, <3>4 DEF IsList
    <3> QED
      BY <1>3, <3>4, <3>5 DEF Finite
  <2>2. CASE f.kind # "reqItems"
    <3>1. f.kind = "str"
      BY <2>2 DEF OrderReqFields, Opt, Required, Range
    <3>2. enc[f][1] = "str"
      BY <2>2, <3>1 DEF OrderReqJSON, EncodeScalar
    <3> QED
      BY <3>2 DEF Finite
  <2> QED
    BY <2>1, <2>2
<1>5. Shallow(Arr(<<>>))
  BY DEF Arr, Finite, IsList
<1>6. \A i \in DOMAIN pairs : Shallow(pairs[i][2])
  <2> SUFFICES ASSUME NEW i \in DOMAIN pairs PROVE Shallow(pairs[i][2])
    OBVIOUS
  <2>1. pairs[i] \in Range(pairs)
    BY DEF Range
  <2>2. \E f \in Range(fields) : \/ arg[f.key] # <<>> /\ pairs[i] = <<f.key, enc[f]>>
                                 \/ arg[f.key] = <<>> /\ f.required /\ pairs[i] = <<f.key, Arr(<<>>)>>
    <3> HIDE DEF fields, enc
    <3> QED
      BY <1>2, <2>1, SlotsAre
  <2> HIDE DEF Shallow, pairs, enc, fields
  <2> QED
    BY <1>4, <1>5, <2>2
<1> HIDE DEF pairs, enc, fields
<1> QED
  BY <1>1, <1>2, <1>6 DEF Document, Finite, Obj

----------------------------------------------------------------------------
(* What the handler is given of the body.                                  *)

\* The router's operations, by their methods.
LEMMA FoundMethods ==
    ASSUME NEW url, NEW leaf \in ServeHTTP(url)
    PROVE  leaf.method \in {"GET", "POST"} /\ (leaf.op = "placeOrder" <=> leaf.method = "POST")
<1>1. \A elem : \A l \in Leaf(elem) : l.method \in {"GET", "POST"} /\ (l.op = "placeOrder" <=> l.method = "POST")
  BY DEF Leaf
<1> QED
  BY <1>1 DEF ServeHTTP

\* The body is a document; an order is decoded and handled with an accepted key,
\* and the handler has one of its readings.
Posted(e) ==
    /\ Len(e.req.docs) = 1 => Document(e.req.docs[1])
    /\ e.op = "placeOrder" /\ (e.at \in {"decode", "handle"} \/ e.asked # {}) => e.req.key \in SeedKeys
    /\ e.op = "placeOrder" /\ (e.at = "handle" \/ e.asked # {}) => e.arg \in decodePlaceOrderRequest(e.req)

\* The inductive invariant of the orders.
PostedInv == WayInv /\ SeedInv /\ Posted(ex)

\* Every body is a document when it is sent.
LEMMA FreshPosted ==
    ASSUME NEW call, NEW req, Len(req.docs) = 1 => Document(req.docs[1])
    PROVE  Posted(Fresh(call, req))
<1>1. Fresh(call, req).op = "none" /\ Fresh(call, req).req = req
  BY DEF Fresh
<1> QED
  BY <1>1 DEF Posted

\* Those that ask for something have none.
LEMMA GetBare == ASSUME NEW path PROVE Len(Get(path).docs) = 0
  BY DEF Get

\* Of the generated client, a browser and a redirect.
LEMMA AskPosted ==
    ASSUME Ask \/ Follow
    PROVE  Posted(ex')
<1>1. CASE \E v \in Visits : ex' = Visit(v)
  BY <1>1, VisitAssumption, FreshPosted DEF Visit
<1>2. CASE \E c \in Calls : ex' = Fresh(c, Request(c))
  <2>1. PICK c \in Calls : ex' = Fresh(c, Request(c))
    BY <1>2
  <2>2. /\ c.op \in {"getProduct", "listProducts", "placeOrder"}
        /\ c.op = "placeOrder" => c.arg["items"] = <<>> \/ IsList(c.arg["items"][1])
    BY CallAssumption
  <2>3. CASE c.op = "placeOrder"
    <3>1. Request(c) = sendPlaceOrder(c.arg, c.key)
      BY <2>3 DEF Request
    <3>2. Request(c).docs = <<EncodeOrderReq(c.arg)>>
      BY <3>1 DEF sendPlaceOrder, Get
    <3>3. Document(EncodeOrderReq(c.arg))
      BY <2>2, <2>3, CallWritten
    <3> QED
      BY <2>1, <3>2, <3>3, FreshPosted
  <2>4. CASE c.op \in {"getProduct", "listProducts"}
    <3>1. \E path : Request(c) = Get(path)
      BY <2>4 DEF Request, sendGetProduct, sendListProducts
    <3> QED
      BY <2>1, <3>1, GetBare, FreshPosted
  <2> QED
    BY <2>2, <2>3, <2>4
<1>3. CASE \E call, path : ex' = Fresh(call, Get(path))
  BY <1>3, GetBare, FreshPosted
<1> QED
  BY <1>1, <1>2, <1>3 DEF Ask, Follow, Becomes

\* Nothing is posted at first.
LEMMA InitPosted == Init => PostedInv
<1> SUFFICES ASSUME Init PROVE PostedInv
  OBVIOUS
<1>1. ex.op = "none" /\ ex.req = Get(<<>>)
  BY DEF Init, Visit, Fresh
<1> QED
  BY <1>1, GetBare, InitWay, InitSeed DEF PostedInv, Posted

\* The layers of the server: security lets a stored key in, the decoder a
\* reading of the body.
LEMMA OnwardPosted ==
    ASSUME PostedInv, Onward
    PROVE  Posted(ex')
<1>0. TellInv /\ Told(ex) /\ Posted(ex) /\ SeedInv
  BY DEF PostedInv, WayInv, TellInv
<1>1. ex'.req = ex.req
  BY <1>0, OnwardKeeps
<1>2. Len(ex'.req.docs) = 1 => Document(ex'.req.docs[1])
  BY <1>0, <1>1 DEF Posted
<1>3. ASSUME ex'.op = ex.op, ex'.asked = ex.asked, ex'.arg = ex.arg,
             ex'.at \notin {"decode", "handle"}
      PROVE  Posted(ex')
  BY <1>0, <1>1, <1>3 DEF Posted
<1>4. CASE CORS \/ RateLimit \/ RequestID \/ Labeler
  <2>1. ex'.op = ex.op /\ ex'.asked = ex.asked /\ ex'.arg = ex.arg
    BY <1>0, <1>4, CorsMoves, LimitMoves, IdMoves, LabelMoves DEF Becoming, Fields
  <2>2. ex'.at \in {"limit", "deliver", "id", "label", "mux"}
    BY <1>0, <1>4, CorsMoves, LimitMoves, IdMoves, LabelMoves
  <2> QED
    BY <1>3, <2>1, <2>2
<1>5. CASE Route
  <2>1. ex.at = "mux" /\ ex.asked = {}
    BY <1>0, <1>5, RouteMoves DEF Told, Outer, Silent
  <2>2. CASE ex'.at = "deliver" /\ Becoming(ex, ex', {"at", "status", "ctype", "docs"})
    BY <1>3, <2>2 DEF Becoming, Fields
  <2>3. CASE \E leaf \in ServeHTTP(URL(ex.req.path)) :
                  Becoming(ex, ex', {"at", "op", "arg"}) /\ ex'.op = leaf.op /\ ex'.at = Steps(leaf.op)[1]
    <3>1. ex'.asked = {}
      BY <2>1, <2>3 DEF Becoming, Fields
    <3>2. ex'.op = "placeOrder" => ex'.at = "security"
      BY <2>3, StepsFollow
    <3> QED
      BY <1>2, <3>1, <3>2 DEF Posted
  <2> QED
    BY <1>0, <1>5, <2>2, <2>3, RouteMoves
<1>6. CASE Security \/ DecodeParams \/ DecodeRequest
  <2>1. /\ ex'.op = ex.op /\ ex'.asked = ex.asked /\ ex.at \in {"security", "params", "decode"}
    BY <1>0, <1>6, ChecksMove DEF Becoming, Fields
  <2>2. ex.asked = {}
    BY <1>0, <2>1 DEF Told, Inner, Silent
  <2>3. CASE ex.at = "security"
    <3>1. ex'.at = "decode" => ex.req.key \in SeedKeys
      BY <1>0, <1>6, <2>3, ChecksMove DEF SeedInv
    <3>2. ex'.at \in {"decode", "error"}
      BY <1>0, <1>6, <2>3, ChecksMove
    <3> QED
      BY <1>1, <1>2, <2>1, <2>2, <3>1, <3>2 DEF Posted
  <2>4. CASE ex.at = "params"
    <3>1. ex.op = "getProduct"
      BY <1>0, <2>4 DEF Told
    <3> QED
      BY <1>2, <2>1, <3>1 DEF Posted
  <2>5. CASE ex.at = "decode"
    <3>1. ex'.at = "handle" => ex'.arg \in decodePlaceOrderRequest(ex.req)
      BY <1>0, <1>6, <2>5, ChecksMove
    <3>2. ex.op = "placeOrder" => ex.req.key \in SeedKeys
      BY <1>0, <2>5 DEF Posted
    <3> QED
      BY <1>1, <1>2, <2>1, <2>2, <3>1, <3>2 DEF Posted
  <2> QED
    BY <2>1, <2>3, <2>4, <2>5
<1>7. CASE Handle
  <2>1. ex.at = "handle" /\ ex'.op = ex.op /\ ex'.arg = ex.arg /\ ex'.at \in {"encode", "error", "panic"}
    BY <1>0, <1>7, HandleMoves DEF Becoming, Fields
  <2> QED
    BY <1>0, <1>1, <2>1 DEF Posted
<1>8. CASE Encode \/ ErrorHandler \/ Recover
  <2>1. ex'.op = ex.op /\ ex'.asked = ex.asked /\ ex'.arg = ex.arg /\ ex'.at \in {"deliver", "error"}
    BY <1>0, <1>8, EncodeMoves, LastMoves DEF Becoming, Fields
  <2> QED
    BY <1>3, <2>1
<1>9. CASE Deliver
  <2>1. ex'.op = ex.op /\ ex'.asked = ex.asked /\ ex'.arg = ex.arg /\ ex'.at = "answered"
    BY <1>0, <1>9, DeliverMoves DEF Becoming, Fields
  <2> QED
    BY <1>3, <2>1
<1> QED
  BY <1>4, <1>5, <1>6, <1>7, <1>8, <1>9 DEF Onward

\* The cache has no answer to an order, which nobody gets.
LEMMA CachedGets ==
    ASSUME WayInv, NEW c \in cache
    PROVE  c.op # "placeOrder"
<1>1. Way(c) /\ c.req.method = "GET"
  BY DEF WayInv, TellInv, Kept
<1>2. ASSUME c.op = "placeOrder" PROVE FALSE
  <2>1. PICK leaf \in Found(c.req) : Serves(leaf, c)
    BY <1>1, <1>2 DEF Way
  <2>2. leaf.op = "placeOrder" /\ leaf.method = "GET"
    BY <1>1, <1>2, <2>1 DEF Serves
  <2> QED
    BY <2>2, FoundMethods DEF Found
<1> QED
  BY <1>2

\* Every step keeps it.
LEMMA StepPosted == PostedInv /\ [Next]_vars => PostedInv'
<1> SUFFICES ASSUME PostedInv, [Next]_vars PROVE PostedInv'
  OBVIOUS
<1>0. TellInv /\ WayInv /\ Posted(ex) /\ WayInv' /\ SeedInv'
  BY StepWay, StepSeed DEF PostedInv, WayInv
<1>1. ASSUME Posted(ex') PROVE PostedInv'
  BY <1>0, <1>1 DEF PostedInv, Posted
<1>2. CASE UNCHANGED ex
  BY <1>0, <1>1, <1>2
<1>3. CASE Onward
  BY <1>1, <1>3, OnwardPosted
<1>4. CASE FromCache
  <2>1. ex'.req = ex.req
    BY <1>0, <1>4, CacheKeeps
  <2>2. CASE ex'.at = "cors" /\ Becoming(ex, ex', {"at"})
    <3>1. ex'.op = ex.op /\ ex'.asked = ex.asked /\ ex'.arg = ex.arg
      BY <2>2 DEF Becoming, Fields
    <3> QED
      BY <1>0, <1>1, <2>1, <2>2, <3>1 DEF Posted
  <2>3. CASE \E c \in cache : Becoming(c, ex', {"req", "call", "hit"})
    <3>1. PICK c \in cache : Becoming(c, ex', {"req", "call", "hit"})
      BY <2>3
    <3>2. ex'.op # "placeOrder"
      BY <1>0, <3>1, CachedGets DEF Becoming, Fields
    <3> QED
      BY <1>0, <1>1, <2>1, <3>2 DEF Posted
  <2> QED
    BY <1>0, <1>4, <2>2, <2>3, CacheMoves
<1>5. CASE Ask \/ Follow
  BY <1>1, <1>5, AskPosted
<1> QED
  BY <1>2, <1>3, <1>4, <1>5, Kinds DEF vars

\* The handler is given an order only with an accepted key, and then what the
\* one JSON document in the body says (handlers 379-439, request decoder 17-94).
THEOREM OrdersRead == Spec => []OrdersAsSent
<1>1. ASSUME PostedInv PROVE OrdersAsSent
  <2> SUFFICES ASSUME NEW a \in ex.asked, a[1] = "placeOrder"
               PROVE  /\ ex.req.key \in SeedKeys
                      /\ Len(ex.req.docs) = 1
                      /\ ReadsAs(ex.req.docs[1], a[2])
    BY DEF OrdersAsSent
  <2>1. Way(ex) /\ Posted(ex)
    BY <1>1 DEF PostedInv, WayInv
  <2>2. a = <<ex.op, ex.arg>>
    BY <2>1 DEF Way
  <2>3. ex.op = "placeOrder" /\ a[2] = ex.arg
    BY <2>2
  <2>4. ex.req.key \in SeedKeys /\ ex.arg \in decodePlaceOrderRequest(ex.req)
    BY <2>1, <2>3 DEF Posted
  <2>5. Len(ex.req.docs) = 1 /\ ex.arg \in DecodeOrderReq(ex.req.docs[1]) /\ ValidOrderReq(ex.arg)
    BY <2>4 DEF decodePlaceOrderRequest
  <2>6. ReadsAs(ex.req.docs[1], ex.arg)
    BY <2>1, <2>5, RequestRead DEF Posted
  <2> QED
    BY <2>3, <2>4, <2>5, <2>6
<1>2. Spec => []PostedInv
  BY InitPosted, StepPosted, PTL DEF Spec
<1> QED
  BY <1>1, <1>2, PTL

----------------------------------------------------------------------------
(* What the handler says reaches the client.                               *)

\* A struct that nothing is set in has the keys of its schema.
LEMMA ZeroIs ==
    ASSUME NEW fields
    PROVE  Zero(fields) = [k \in Keys(fields) |-> <<>>]
<1>1. Keys(fields) = {fields[i].key : i \in DOMAIN fields}
  BY DEF Keys, Range
<1> QED
  BY <1>1 DEF Zero

\* The keys of the schemas.
LEMMA KeysAre ==
    /\ Keys(ErrorFields) = {"code", "message"}
    /\ Keys(OrderItemFields) = {"productId", "quantity"}
    /\ Keys(ImageFields) = {"thumbnail", "mobile", "tablet", "desktop"}
    /\ Keys(ProductFields) = {"id", "name", "price", "category", "image"}
    /\ Keys(OrderFields) = {"id", "total", "discounts", "items", "products"}
<1>1. \A fields : Keys(fields) = {fields[i].key : i \in DOMAIN fields}
  BY DEF Keys, Range
<1>2. Keys(ErrorFields) = {"code", "message"}
  BY <1>1 DEF ErrorFields, Required
<1>3. Keys(OrderItemFields) = {"productId", "quantity"}
  BY <1>1 DEF OrderItemFields, Opt
<1>4. Keys(ImageFields) = {"thumbnail", "mobile", "tablet", "desktop"}
  BY <1>1 DEF ImageFields, Opt
<1>5. Keys(ProductFields) = {"id", "name", "price", "category", "image"}
  BY <1>1 DEF ProductFields, Opt
<1>6. Keys(OrderFields) = {"id", "total", "discounts", "items", "products"}
  BY <1>1 DEF OrderFields, Opt
<1> QED
  BY <1>2, <1>3, <1>4, <1>5, <1>6

\* A struct, by its keys: each slot is set or not, and where it is required it
\* is set.
LEMMA StructOf ==
    ASSUME NEW fields, NEW s, s = [k \in Keys(fields) |-> s[k]],
           \A k \in Keys(fields) : s[k] = <<>> \/ \E v : s[k] = <<v>>,
           \A f \in Range(fields) : f.required => s[f.key] # <<>>
    PROVE  Struct(fields, s)
<1>1. \A f \in Range(fields) : f.key \in Keys(fields)
  BY DEF Keys
<1> QED
  BY <1>1 DEF Struct, Complete

\* A refusal of the handler.
LEMMA ProblemIs ==
    ASSUME NEW code
    PROVE  Struct(ErrorFields, Problem(code))
<1> DEFINE s == Problem(code)
<1>1. s = [k \in {"code", "message"} |-> IF k = "code" THEN <<code>> ELSE <<"why">>]
  BY ZeroIs, KeysAre DEF Problem, NoError
<1>2. s = [k \in {"code", "message"} |-> s[k]] /\ s["code"] = <<code>> /\ s["message"] = <<"why">>
  BY <1>1
<1> HIDE DEF s
<1>3. \A f \in Range(ErrorFields) : f.key \in {"code", "message"}
  BY KeysAre DEF Keys
<1>4. Struct(ErrorFields, s)
  <2>1. s = [k \in Keys(ErrorFields) |-> s[k]]
    BY <1>2, KeysAre
  <2>2. \A k \in Keys(ErrorFields) : \E v : s[k] = <<v>>
    BY <1>2, KeysAre
  <2>3. \A f \in Range(ErrorFields) : s[f.key] # <<>>
    BY <1>2, <1>3
  <2> QED
    BY <2>1, <2>2, <2>3, StructOf
<1> QED
  BY <1>4 DEF s

\* A product as it goes out.
LEMMA ProductIs ==
    ASSUME NEW p
    PROVE  Product(domainToOASProduct(p))
<1> DEFINE s == domainToOASProduct(p)
           image == [k \in DOMAIN NoImage |-> <<<<Base, k>>>>]
<1>1. s = [k \in {"id", "name", "price", "category", "image"} |->
             CASE k = "id" -> <<p.id>> [] k = "name" -> <<"name">> [] k = "price" -> <<p.price>>
               [] k = "category" -> <<"category">> [] k = "image" -> <<image>>]
  BY ZeroIs, KeysAre DEF domainToOASProduct, NoProduct
<1>2. /\ s = [k \in {"id", "name", "price", "category", "image"} |-> s[k]]
      /\ s["id"] = <<p.id>> /\ s["name"] = <<"name">> /\ s["price"] = <<p.price>>
      /\ s["category"] = <<"category">> /\ s["image"] = <<image>>
  BY <1>1
<1>3. DOMAIN NoImage = Keys(ImageFields)
  BY ZeroIs DEF NoImage
<1>4. \A f \in Range(ImageFields) : ~f.required
  BY DEF ImageFields, Opt, Range
<1>5. Struct(ImageFields, image)
  <2>1. image = [k \in Keys(ImageFields) |-> image[k]] /\ \A k \in Keys(ImageFields) : image[k] = <<<<Base, k>>>>
    BY <1>3
  <2> HIDE DEF image
  <2> QED
    BY <1>4, <2>1, StructOf
<1> HIDE DEF s, image
<1>6. \A f \in Range(ProductFields) : ~f.required
  BY DEF ProductFields, Opt, Range
<1>7. Struct(ProductFields, s)
  <2>1. s = [k \in Keys(ProductFields) |-> s[k]]
    BY <1>2, KeysAre
  <2>2. \A k \in Keys(ProductFields) : \E v : s[k] = <<v>>
    BY <1>2, KeysAre
  <2> QED
    BY <1>6, <2>1, <2>2, StructOf
<1>8. \A v : s["image"] = <<v>> => v = image
  BY <1>2
<1>9. Product(s)
  BY <1>5, <1>7, <1>8 DEF Product
<1> QED
  BY <1>9 DEF s

\* The rows of a listing.
LEMMA ListingIs ==
    ASSUME NEW rows, rows \subseteq DOMAIN Catalog
    PROVE  Sequence(Listing(rows)) /\ \A i \in DOMAIN Listing(rows) : Product(Listing(rows)[i])
<1>1. Len(Catalog) \in Nat /\ DOMAIN Catalog = 1..Len(Catalog)
  BY UpsertsAre
<1>2. IsFiniteSet(1..Len(Catalog))
  BY <1>1, FS_Interval
<1>3. IsFiniteSet(rows)
  BY <1>1, <1>2, FS_Subset
<1>4. Cardinality(rows) \in Nat
  BY <1>3, FS_CardinalityType
<1> DEFINE n == Cardinality(rows)
           row(i) == CHOOSE r \in rows : Cardinality({q \in rows : q < r}) = i - 1
           list == [i \in 1..n |-> domainToOASProduct(Catalog[row(i)])]
<1>5. Listing(rows) = list
  BY DEF Listing
<1> HIDE DEF n, row
<1>6. DOMAIN list = 1..n /\ \A i \in 1..n : list[i] = domainToOASProduct(Catalog[row(i)])
  OBVIOUS
<1>7. list = [i \in 1..n |-> list[i]] /\ n \in Nat
  BY <1>4, <1>6 DEF n
<1> HIDE DEF list
<1>8. Sequence(list)
  BY <1>7 DEF Sequence
<1> QED
  BY <1>5, <1>6, <1>8, ProductIs

\* An answer is a pair of a type and a value that reaches whoever decodes that
\* type.
Proper(a) == a = <<a[1], a[2]>> /\ DecodeAnswer(a[1], EncodeAnswer(a[1], a[2])) = {a[2]}

\* A refusal.
LEMMA ProblemProper ==
    ASSUME NEW type, type \notin {"Product", "Products", "Order"}, NEW code
    PROVE  Proper(<<type, Problem(code)>>)
<1>1. Struct(ErrorFields, Problem(code))
  BY ProblemIs
<1>2. DecodeFlat(ErrorFields, Zero(ErrorFields), EncodeFlat(ErrorFields, Problem(code))) = {Problem(code)}
  BY <1>1, Schemas, SchemaKeys, FlatTrip
<1>3. EncodeAnswer(type, Problem(code)) = EncodeFlat(ErrorFields, Problem(code))
  BY DEF EncodeAnswer
<1> DEFINE json == EncodeFlat(ErrorFields, Problem(code))
<1>4. DecodeAnswer(type, json) = DecodeError(json)
  <2> HIDE DEF json
  <2> QED
    BY DEF DecodeAnswer
<1>5. DecodeError(json) = {Problem(code)}
  BY <1>2 DEF DecodeError, NoError
<1> QED
  BY <1>3, <1>4, <1>5 DEF Proper

\* A product, a listing, an order.
LEMMA ValueProper ==
    /\ \A p : Proper(<<"Product", domainToOASProduct(p)>>)
    /\ \A rows : rows \subseteq DOMAIN Catalog => Proper(<<"Products", Listing(rows)>>)
    /\ \A o : Order(o) => Proper(<<"Order", o>>)
<1>1. ASSUME NEW p PROVE Proper(<<"Product", domainToOASProduct(p)>>)
  <2> DEFINE v == domainToOASProduct(p)
  <2>1. DecodeProduct(EncodeProduct(v)) = {v}
    BY ProductIs, ProductTrip
  <2> HIDE DEF v
  <2>2. DecodeAnswer("Product", EncodeAnswer("Product", v)) = DecodeProduct(EncodeProduct(v))
    BY DEF DecodeAnswer, EncodeAnswer
  <2>3. Proper(<<"Product", v>>)
    BY <2>1, <2>2 DEF Proper
  <2> QED
    BY <2>3 DEF v
<1>2. ASSUME NEW rows, rows \subseteq DOMAIN Catalog PROVE Proper(<<"Products", Listing(rows)>>)
  <2> DEFINE v == Listing(rows)
  <2>1. DecodeProducts(<<>>, EncodeProducts(v)) = {v}
    BY <1>2, ListingIs, ProductsTrip
  <2> HIDE DEF v
  <2>2. DecodeAnswer("Products", EncodeAnswer("Products", v)) = DecodeProducts(<<>>, EncodeProducts(v))
    BY DEF DecodeAnswer, EncodeAnswer
  <2>3. Proper(<<"Products", v>>)
    BY <2>1, <2>2 DEF Proper
  <2> QED
    BY <2>3 DEF v
<1>3. ASSUME NEW o, Order(o) PROVE Proper(<<"Order", o>>)
  <2>1. DecodeOrder(EncodeOrder(o)) = {o}
    BY <1>3, OrderTrip
  <2>2. DecodeAnswer("Order", EncodeAnswer("Order", o)) = DecodeOrder(EncodeOrder(o))
    BY DEF DecodeAnswer, EncodeAnswer
  <2> QED
    BY <2>1, <2>2 DEF Proper
<1> QED
  BY <1>1, <1>2, <1>3

\* An item of an order as it goes out.
LEMMA ItemIs ==
    ASSUME NEW item, Struct(ReqItemFields, item)
    PROVE  Struct(OrderItemFields, [NoOrderItem EXCEPT !["productId"] = item["productId"], !["quantity"] = item["quantity"]])
<1> DEFINE s == [NoOrderItem EXCEPT !["productId"] = item["productId"], !["quantity"] = item["quantity"]]
<1>1. s = [k \in {"productId", "quantity"} |-> IF k = "productId" THEN item["productId"] ELSE item["quantity"]]
  BY ZeroIs, KeysAre DEF NoOrderItem
<1>2. s = [k \in {"productId", "quantity"} |-> s[k]] /\ \A k \in {"productId", "quantity"} : s[k] = item[k]
  BY <1>1
<1> HIDE DEF s
<1>3. \E f, g \in Range(ReqItemFields) : f.key = "productId" /\ g.key = "quantity"
  <2>1. ReqItemFields[1].key = "productId" /\ ReqItemFields[2].key = "quantity" /\ {1, 2} \subseteq DOMAIN ReqItemFields
    BY DEF ReqItemFields, Required
  <2> QED
    BY <2>1 DEF Range
<1>4. \A k \in {"productId", "quantity"} : item[k] = <<>> \/ \E v : item[k] = <<v>>
  BY <1>3 DEF Struct
<1>5. \A f \in Range(OrderItemFields) : ~f.required
  BY DEF OrderItemFields, Opt, Range
<1>6. Struct(OrderItemFields, s)
  <2>1. s = [k \in Keys(OrderItemFields) |-> s[k]]
    BY <1>2, KeysAre
  <2>2. \A k \in Keys(OrderItemFields) : s[k] = <<>> \/ \E v : s[k] = <<v>>
    BY <1>2, <1>4, KeysAre
  <2> QED
    BY <1>5, <2>1, <2>2, StructOf
<1> QED
  BY <1>6 DEF s

\* Whatever a handler answers.
LEMMA AnswersProper ==
    ASSUME db.products \subseteq DOMAIN Catalog, ex.op \in Ops, ex.op = "placeOrder" => Demand(ex.arg),
           NEW a \in Answers
    PROVE  Proper(a)
<1>1. \A id : With(id) \subseteq DOMAIN Catalog
  BY DEF With
<1>2. CASE ex.op = "getProduct"
  <2>1. a \in GetProduct(ex.arg)
    BY <1>2 DEF Answers
  <2>2. a = <<"GetProductNotFound", Problem(404)>> \/ \E p : a = <<"Product", domainToOASProduct(p)>>
    BY <2>1 DEF GetProduct
  <2> QED
    BY <2>2, ProblemProper, ValueProper
<1>3. CASE ex.op = "listProducts"
  <2>1. a = <<"Products", Listing(db.products)>>
    BY <1>3 DEF Answers, ListProducts
  <2> QED
    BY <2>1, ValueProper
<1>4. CASE ex.op = "placeOrder"
  <2> DEFINE req == ex.arg
             items == req["items"][1]
             found(i) == With(items[i]["productId"][1])
             item(i) == [NoOrderItem EXCEPT !["productId"] = items[i]["productId"],
                                            !["quantity"] = items[i]["quantity"]]
             list == [i \in DOMAIN items |-> item(i)]
             rows == UNION {found(i) : i \in DOMAIN items}
             stored == [NoOrder EXCEPT
                !["id"] = <<"order">>, !["total"] = <<1>>, !["discounts"] = <<0>>,
                !["items"] = <<list>>, !["products"] = <<Listing(rows)>>]
  <2>1. a = <<"PlaceOrderUnprocessableEntity", Problem(422)>> \/ a = <<"Order", stored>>
    BY <1>4 DEF Answers, PlaceOrder
  <2>2. Sequence(items) /\ \A i \in DOMAIN items : Struct(ReqItemFields, items[i])
    <3>1. Demand(req)
      BY <1>4
    <3> HIDE DEF req
    <3>2. PICK f \in Range(OrderReqFields) : f.key = "items" /\ f.required
      <4>1. OrderReqFields[2].key = "items" /\ OrderReqFields[2].required /\ 2 \in DOMAIN OrderReqFields
        BY DEF OrderReqFields, Required
      <4> QED
        BY <4>1 DEF Range
    <3>3. req[f.key] # <<>> /\ (req[f.key] = <<>> \/ \E v : req[f.key] = <<v>>)
      BY <3>1, <3>2 DEF Demand, Struct, Complete
    <3>4. PICK v : req["items"] = <<v>>
      BY <3>2, <3>3
    <3> QED
      BY <3>1, <3>4 DEF Demand
  <2> HIDE DEF items
  <2>3. Sequence(list) /\ \A i \in DOMAIN list : Struct(OrderItemFields, list[i])
    <3>1. PICK n \in Nat : items = [i \in 1..n |-> items[i]]
      BY <2>2 DEF Sequence
    <3>2. DOMAIN items = 1..n
      BY <3>1
    <3>3. \A i \in DOMAIN items : Struct(OrderItemFields, item(i))
      BY <2>2, ItemIs
    <3> HIDE DEF item
    <3>4. list = [i \in 1..n |-> list[i]]
      BY <3>2
    <3> QED
      BY <3>3, <3>4 DEF Sequence
  <2> HIDE DEF list
  <2>4. rows \subseteq DOMAIN Catalog
    BY <1>1
  <2> HIDE DEF rows
  <2>5. stored = [k \in {"id", "total", "discounts", "items", "products"} |->
                    CASE k = "id" -> <<"order">> [] k = "total" -> <<1>> [] k = "discounts" -> <<0>>
                      [] k = "items" -> <<list>> [] k = "products" -> <<Listing(rows)>>]
    BY ZeroIs, KeysAre DEF NoOrder
  <2>6. /\ stored = [k \in {"id", "total", "discounts", "items", "products"} |-> stored[k]]
        /\ stored["id"] = <<"order">> /\ stored["total"] = <<1>> /\ stored["discounts"] = <<0>>
        /\ stored["items"] = <<list>> /\ stored["products"] = <<Listing(rows)>>
    BY <2>5
  <2> HIDE DEF stored
  <2>7. \A f \in Range(OrderFields) : ~f.required
    BY DEF OrderFields, Opt, Range
  <2>8. Struct(OrderFields, stored)
    <3>1. stored = [k \in Keys(OrderFields) |-> stored[k]]
      BY <2>6, KeysAre
    <3>2. \A k \in Keys(OrderFields) : \E v : stored[k] = <<v>>
      BY <2>6, KeysAre
    <3> QED
      BY <2>7, <3>1, <3>2, StructOf
  <2>9. /\ \A v : stored["items"] = <<v>> => v = list
        /\ \A v : stored["products"] = <<v>> => v = Listing(rows)
    BY <2>6
  <2>10. Order(stored)
    BY <2>3, <2>4, <2>8, <2>9, ListingIs DEF Order
  <2> QED
    BY <2>1, <2>10, ProblemProper, ValueProper
<1> QED
  BY <1>2, <1>3, <1>4 DEF Ops

----------------------------------------------------------------------------
(* What the client may expect of an exchange.                             *)

\* The URL of the orders is clean.
LEMMA CleanOrder == Clean(OrderURL) = OrderURL
<1> DEFINE s == OrderURL
<1>1. s \in Seq(Glyph) /\ Len(s) = 4 /\ s[4] = C("order")
  <2> DEFINE t == Plain(<<"/", "order">>)
  <2>1. t \in Seq(Glyph) /\ Len(t) = 2 /\ t[2] = C("order") /\ Server \in Seq(Glyph) /\ Len(Server) = 2
    BY PlainTwo, SafeWords, Addresses
  <2> HIDE DEF t
  <2>2. \A i \in 1..Len(t) : (Server \o t)[Len(Server) + i] = t[i]
    <3>1. Server \in Seq(Glyph) /\ t \in Seq(Glyph)
      BY <2>1
    <3> QED
      BY <3>1, Joined
  <2>3. 2 \in 1..Len(t) /\ Len(Server) + 2 = 4
    BY <2>1
  <2>4. (Server \o t)[4] = t[2]
    BY <2>2, <2>3
  <2> QED
    BY <2>1, <2>4, Addresses DEF OrderURL, t
<1> HIDE DEF s
<1>2. ASSUME NEW d \in {".", ".."} PROVE ~IsSuffix(Plain(<<"/", d>>), s)
  <2> DEFINE u == Plain(<<"/", d>>)
  <2>1. u \in Seq(Glyph) /\ Len(u) = 2 /\ u[2] = C(d)
    BY PlainTwo, SafeWords
  <2> HIDE DEF u
  <2>2. ASSUME IsSuffix(u, s) PROVE s[4] = C(d)
    <3>1. s[Len(s)] = u[2]
      BY <1>1, <2>1, <2>2, SuffixTwo
    <3> QED
      BY <1>1, <2>1, <3>1
  <2>3. C(d) # C("order")
    BY DEF C
  <2> QED
    BY <1>1, <2>2, <2>3 DEF u
<1>3. DotsGone(s) = s
  BY <1>2 DEF DotsGone
<1>4. s # <<>> /\ s # Plain(<<"/", "api">>)
  <2>1. Len(Plain(<<"/", "api">>)) = 2
    BY PlainTwo, SafeWords
  <2> QED
    BY SMTT(30), <1>1, <2>1
<1>5. Clean(s) = s
  BY <1>3, <1>4 DEF Clean
<1> QED
  BY <1>5 DEF s

\* Whom an exchange is for, and with which method.
Calling(e) ==
    /\ e.call.op \in Ops \cup {"visit"}
    /\ e.call.op \in {"getProduct", "listProducts"} => e.req.method = "GET"
    /\ e.call.op = "placeOrder" => e.req.method = "POST" /\ e.req.path = OrderURL

\* Only an unclean path is sent elsewhere.
Moved(e) == e.status = 301 => Clean(e.req.path) # e.req.path

\* The body of the error handler.
Trouble == Obj(<<<<"error_message", Str("why")>>>>)

\* The body that is sent is what the handler said, or can be told from that.
Carried(e) ==
    \/ e.fault = "write"
    \/ /\ e.said = {}
       /\ \/ e.ctype # "json"
          \/ e.status \in {429, 500}
          \/ e.status \in {400, 401} /\ e.docs = <<Trouble>>
    \/ \E a : /\ e.said = {a} /\ Proper(a)
              /\ e.op \in Ops /\ a[1] \in AnswerTypes(e.op)
              /\ e.status = StatusOf(e.op, a[1]) /\ e.ctype = "json"
              /\ e.docs = <<EncodeAnswer(a[1], a[2])>>

\* What the handler said, on its way out.
Bodied(e) ==
    /\ e.at = "encode" => \E a : e.said = {a} /\ Proper(a)
    /\ e.at = "error" /\ e.fault # "write" => e.said = {}
    /\ e.at = "panic" => e.said = {}
    /\ e.at \in Over => Carried(e)

\* What the client made of it.
Gotten(e) == e.got = IF e.at = "answered" THEN DecodeResponse(e.call.op, e) ELSE {}

\* The inductive invariant of what a client gets.
CarriedInv ==
    /\ PostedInv
    /\ Calling(ex) /\ Moved(ex) /\ Bodied(ex) /\ Gotten(ex)
    /\ \A c \in cache : Moved(c) /\ Carried(c) /\ c.got = {}

\* What the error handler writes is no error of an operation: it has no code.
LEMMA TroubleUnread == DecodeError(Trouble) = {}
<1> DEFINE pairs == <<<<"error_message", Str("why")>>>>
           val == Scalars(ErrorFields, pairs, 1)
<1>1. Trouble[1] = "obj" /\ Trouble[2] = pairs /\ DOMAIN pairs = 1..1
  BY DEF Trouble, Obj
<1>2. DecodeError(Trouble) = ObjectReadings(ErrorFields, pairs, 1, val)
  <2> HIDE DEF pairs
  <2> QED
    BY <1>1, FlatIs, SchemaKeys DEF DecodeError, NoError
<1>3. \E f \in Range(ErrorFields) : f.key = "code" /\ f.required
  <2>1. ErrorFields[1].key = "code" /\ ErrorFields[1].required /\ 1 \in DOMAIN ErrorFields
    BY DEF ErrorFields, Required
  <2> QED
    BY <2>1 DEF Range
<1>4. ASSUME NEW s \in ObjectReadings(ErrorFields, pairs, 1, val) PROVE FALSE
  <2>1. PICK f \in Range(ErrorFields) : f.key = "code" /\ f.required
    BY <1>3
  <2>2. s[f.key] # <<>> /\ Slot(f, pairs, val, 1, s[f.key])
    BY <1>4, <2>1 DEF ObjectReadings, Readings, Complete
  <2>3. \E i \in 1..1 : pairs[i][1] = "code"
    BY <2>1, <2>2 DEF Slot, LastNamed
  <2>4. pairs[1][1] = "error_message"
    OBVIOUS
  <2> QED
    BY <2>3, <2>4
<1> QED
  BY <1>2, <1>4

\* The statuses of the answers are those that the client expects of their types,
\* and it expects no other type with them.
LEMMA StatusesExpected ==
    \A op \in Ops :
        /\ \A type \in AnswerTypes(op) :
              /\ <<StatusOf(op, type), type>> \in Types(op)
              /\ \A t \in Types(op) : t[1] = StatusOf(op, type) => t[2] = type
        /\ \A t \in Types(op) : /\ t[1] \notin {301, 429, 500}
                                /\ t[1] \in {400, 401} => t[2] \notin {"Product", "Products", "Order"}
<1>1. /\ \A type \in {"Product", "GetProductNotFound"} :
            /\ <<StatusOf("getProduct", type), type>> \in GetProductTypes
            /\ \A t \in GetProductTypes : t[1] = StatusOf("getProduct", type) => t[2] = type
      /\ \A t \in GetProductTypes : /\ t[1] \notin {301, 429, 500}
                                    /\ t[1] \in {400, 401} => t[2] \notin {"Product", "Products", "Order"}
  BY DEF GetProductTypes, StatusOf, GetProductStatus
<1>2. /\ \A type \in {"Products"} :
            /\ <<StatusOf("listProducts", type), type>> \in ListProductsTypes
            /\ \A t \in ListProductsTypes : t[1] = StatusOf("listProducts", type) => t[2] = type
      /\ \A t \in ListProductsTypes : /\ t[1] \notin {301, 429, 500}
                                      /\ t[1] \in {400, 401} => t[2] \notin {"Product", "Products", "Order"}
  BY DEF ListProductsTypes, StatusOf, ListProductsStatus
<1>3. /\ \A type \in {"Order", "PlaceOrderUnprocessableEntity"} :
            /\ <<StatusOf("placeOrder", type), type>> \in PlaceOrderTypes
            /\ \A t \in PlaceOrderTypes : t[1] = StatusOf("placeOrder", type) => t[2] = type
      /\ \A t \in PlaceOrderTypes : /\ t[1] \notin {301, 429, 500}
                                    /\ t[1] \in {400, 401} => t[2] \notin {"Product", "Products", "Order"}
  BY DEF PlaceOrderTypes, StatusOf, PlaceOrderStatus
<1>4. /\ Types("getProduct") = GetProductTypes /\ AnswerTypes("getProduct") = {"Product", "GetProductNotFound"}
      /\ Types("listProducts") = ListProductsTypes /\ AnswerTypes("listProducts") = {"Products"}
      /\ Types("placeOrder") = PlaceOrderTypes /\ AnswerTypes("placeOrder") = {"Order", "PlaceOrderUnprocessableEntity"}
  BY DEF Types, AnswerTypes
<1> QED
  BY <1>1, <1>2, <1>3, <1>4 DEF Ops

\* A list is no object, and an object no list.
LEMMA Mistaken ==
    /\ \A list : DecodeProduct(EncodeProducts(list)) = {}
    /\ \A p : DecodeProducts(<<>>, EncodeProduct(p)) = {}
<1>1. \A json : json[1] = "arr" => DecodeProduct(json) = {}
  BY DEF DecodeProduct, DecodeObject
<1>2. \A list : EncodeProducts(list)[1] = "arr"
  BY DEF EncodeProducts, EncodeList, Arr
<1>3. ASSUME NEW json, json[1] # "arr" PROVE DecodeProducts(<<>>, json) = {}
  BY <1>3 DEF DecodeProducts, DecodeList, FoldLeft, MapThenFoldSet
<1>4. \A p : EncodeProduct(p)[1] # "arr"
  BY EncodeProductIs DEF Obj
<1> QED
  BY <1>1, <1>2, <1>3, <1>4

\* What an answer decodes to, for whoever asked.
Read(op, status, json) ==
    UNION {{<<t[2], v>> : v \in DecodeAnswer(t[2], json)} : t \in {u \in Types(op) : u[1] = status}}

\* The client of the same operation gets what was said, and so does no other.
LEMMA AnswerRead ==
    ASSUME NEW op \in Ops, NEW for \in Ops, op = "placeOrder" <=> for = "placeOrder",
           NEW a, Proper(a), a[1] \in AnswerTypes(op)
    PROVE  Read(for, StatusOf(op, a[1]), EncodeAnswer(a[1], a[2])) = {x \in {a} : op = for}
<1> DEFINE status == StatusOf(op, a[1])
           json == EncodeAnswer(a[1], a[2])
           One(t) == {<<t[2], v>> : v \in DecodeAnswer(t[2], json)}
<1>0. a = <<a[1], a[2]>> /\ DecodeAnswer(a[1], json) = {a[2]}
  BY DEF Proper
<1>1. Read(for, status, json) = UNION {One(t) : t \in {u \in Types(for) : u[1] = status}}
  BY DEF Read
<1>2. CASE for = op
  <2>1. <<status, a[1]>> \in Types(for) /\ \A t \in Types(for) : t[1] = status => t[2] = a[1]
    BY <1>2, StatusesExpected
  <2>2. \A t : t[2] = a[1] => One(t) = {a}
    <3> SUFFICES ASSUME NEW t, t[2] = a[1] PROVE One(t) = {a}
      OBVIOUS
    <3> QED
      BY <1>0
  <2> HIDE DEF One, status, json
  <2>3. \A x \in {One(t) : t \in {u \in Types(for) : u[1] = status}} : x = {a}
    BY <2>1, <2>2
  <2>4. One(<<status, a[1]>>) = {a}
    BY <2>2
  <2>5. {a} \in {One(t) : t \in {u \in Types(for) : u[1] = status}}
    BY <2>1, <2>4
  <2>6. UNION {One(t) : t \in {u \in Types(for) : u[1] = status}} = {a}
    BY <2>3, <2>5
  <2> QED
    BY <1>1, <1>2, <2>6 DEF status, json
<1>3. CASE for = "getProduct" /\ op = "listProducts"
  <2>1. a[1] = "Products" /\ status = 200
    BY <1>3 DEF AnswerTypes, StatusOf, ListProductsStatus
  <2>2. \A t \in Types(for) : t[1] = 200 => t[2] = "Product"
    BY <1>3 DEF Types, GetProductTypes
  <2>3. DecodeAnswer("Product", json) = {}
    <3>1. json = EncodeProducts(a[2])
      BY <2>1 DEF EncodeAnswer
    <3> HIDE DEF json
    <3> QED
      BY <3>1, Mistaken DEF DecodeAnswer
  <2> HIDE DEF status, json
  <2>4. \A t \in {u \in Types(for) : u[1] = status} : One(t) = {}
    BY <2>1, <2>2, <2>3
  <2> HIDE DEF One
  <2>5. Read(for, status, json) = {}
    BY <1>1, <2>4
  <2> QED
    BY <1>3, <2>5 DEF status, json
<1>4. CASE for = "listProducts" /\ op = "getProduct"
  <2>1. a[1] \in {"Product", "GetProductNotFound"} /\ status = GetProductStatus[a[1]]
    BY <1>4 DEF AnswerTypes, StatusOf
  <2>2. \A t \in Types(for) : t[1] = 200 /\ t[2] = "Products"
    BY <1>4 DEF Types, ListProductsTypes
  <2>3. status = 200 => a[1] = "Product"
    BY <2>1 DEF GetProductStatus
  <2>4. a[1] = "Product" => DecodeAnswer("Products", json) = {}
    <3>1. a[1] = "Product" => json = EncodeProduct(a[2])
      BY DEF EncodeAnswer
    <3> HIDE DEF json
    <3> QED
      BY <3>1, Mistaken DEF DecodeAnswer
  <2> HIDE DEF status, json
  <2>5. \A t \in {u \in Types(for) : u[1] = status} : One(t) = {}
    BY <2>2, <2>3, <2>4
  <2> HIDE DEF One
  <2>6. Read(for, status, json) = {}
    BY <1>1, <2>5
  <2> QED
    BY <1>4, <2>6 DEF status, json
<1> QED
  BY <1>2, <1>3, <1>4 DEF Ops

\* What the client makes of an exchange that is over.
LEMMA Received ==
    ASSUME NEW e, Carried(e), NEW op \in Ops, e.op \in Ops => (e.op = "placeOrder" <=> op = "placeOrder")
    PROVE  DecodeResponse(op, e) = {a \in e.said : e.op = op /\ e.fault # "write"}
<1>1. CASE e.fault = "write"
  BY <1>1 DEF DecodeResponse
<1>2. ASSUME e.said = {}, e.ctype # "json" \/ e.status \in {429, 500} \/ (e.status \in {400, 401} /\ e.docs = <<Trouble>>)
      PROVE  DecodeResponse(op, e) = {}
  <2>1. CASE e.ctype # "json" \/ e.fault = "write" \/ Len(e.docs) # 1
    BY <2>1 DEF DecodeResponse
  <2>2. CASE e.ctype = "json" /\ e.fault # "write" /\ Len(e.docs) = 1
    <3>1. DecodeResponse(op, e) = Read(op, e.status, e.docs[1])
      BY <2>2 DEF DecodeResponse, Read
    <3>2. ASSUME NEW t \in Types(op), t[1] = e.status PROVE {<<t[2], v>> : v \in DecodeAnswer(t[2], e.docs[1])} = {}
      <4>1. e.status \in {400, 401} /\ e.docs[1] = Trouble
        BY <1>2, <2>2, <3>2, StatusesExpected
      <4>2. t[2] \notin {"Product", "Products", "Order"}
        BY <3>2, <4>1, StatusesExpected
      <4>3. DecodeAnswer(t[2], Trouble) = {}
        BY <4>2, TroubleUnread DEF DecodeAnswer
      <4> QED
        BY <4>1, <4>3
    <3>3. Read(op, e.status, e.docs[1]) = {}
      BY <3>2 DEF Read
    <3> QED
      BY <3>1, <3>3
  <2> QED
    BY <2>1, <2>2
<1>3. ASSUME NEW a, e.said = {a}, Proper(a), e.op \in Ops, a[1] \in AnswerTypes(e.op), e.fault # "write",
             e.status = StatusOf(e.op, a[1]), e.ctype = "json", e.docs = <<EncodeAnswer(a[1], a[2])>>
      PROVE  DecodeResponse(op, e) = {x \in {a} : e.op = op}
  <2>1. Len(e.docs) = 1 /\ e.docs[1] = EncodeAnswer(a[1], a[2])
    BY <1>3
  <2>2. DecodeResponse(op, e) = Read(op, e.status, e.docs[1])
    BY <1>3, <2>1 DEF DecodeResponse, Read
  <2> QED
    BY <1>3, <2>1, <2>2, AnswerRead
<1>4. CASE e.fault # "write"
  <2>1. CASE e.said = {} /\ (e.ctype # "json" \/ e.status \in {429, 500} \/ (e.status \in {400, 401} /\ e.docs = <<Trouble>>))
    BY <1>2, <2>1
  <2>2. CASE \E a : /\ e.said = {a} /\ Proper(a)
                    /\ e.op \in Ops /\ a[1] \in AnswerTypes(e.op)
                    /\ e.status = StatusOf(e.op, a[1]) /\ e.ctype = "json"
                    /\ e.docs = <<EncodeAnswer(a[1], a[2])>>
    <3>1. PICK a : /\ e.said = {a} /\ Proper(a)
                    /\ e.op \in Ops /\ a[1] \in AnswerTypes(e.op)
                    /\ e.status = StatusOf(e.op, a[1]) /\ e.ctype = "json"
                    /\ e.docs = <<EncodeAnswer(a[1], a[2])>>
      BY <2>2
    <3> QED
      BY <1>3, <1>4, <3>1
  <2> QED
    BY <1>4, <2>1, <2>2 DEF Carried
<1> QED
  BY <1>1, <1>4

\* Where nothing has been sent, an answer is what is sent.
LEMMA SentFirst ==
    ASSUME NEW e, Shaped(e), e.status = 0, NEW s, NEW c, NEW d, NEW f, f = Goto(Send(e, s, c, d), "deliver")
    PROVE  f.at = "deliver" /\ f.status = s /\ f.ctype = c /\ f.docs = d
  BY DEF Goto, Send, Shaped

\* The answers of the layers before an operation: none is one of an operation.
LEMMA LayersAnswer ==
    ASSUME TellInv, CORS \/ RateLimit \/ Route, ex'.at = "deliver"
    PROVE  /\ ex'.ctype # "json" \/ ex'.status = 429
           /\ Moved(ex')
<1>0. Shaped(ex) /\ Told(ex)
  BY DEF TellInv
<1>1. ex.at \in {"cors", "limit", "mux"} /\ ex.status = 0
  <2>1. ex.at \in {"cors", "limit", "mux"}
    BY CorsMoves, LimitMoves, RouteMoves
  <2> QED
    BY <1>0, <2>1 DEF Told, Outer, Early
<1>2. ASSUME NEW s, NEW c, NEW d, Reply(s, c, d)
      PROVE  ex'.at = "deliver" /\ ex'.status = s /\ ex'.ctype = c /\ ex'.docs = d /\ ex'.req = ex.req
  <2>1. ex' = Goto(Send(ex, s, c, d), "deliver")
    BY <1>2 DEF Reply, Becomes
  <2>2. ex'.req = ex.req
    BY <1>0, <2>1, SentOver DEF Becoming, Fields
  <2> QED
    BY <1>0, <1>1, <2>1, <2>2, SentFirst
<1>a. Absent # "json"
  BY Zenon DEF Absent
<1>3. CASE CORS
  <2> DEFINE preflight == ex.req.preflight /\ ex.req.method = "OPTIONS" /\ ex.req.origin # Absent
             e == [ex EXCEPT !.hdr = CorsHeaders(cors, ex.req.origin, preflight)]
  <2>1. ex' = Goto(Send(e, 204, Absent, <<>>), "deliver") \/ ex' = Pass(e)
    BY <1>3 DEF CORS, Becomes
  <2>2. Shaped(e) /\ e.status = 0 /\ e.at = ex.at
    BY <1>0, <1>1 DEF Shaped
  <2>3. ex.at = "cors"
    BY <1>3, CorsMoves
  <2> HIDE DEF e
  <2>4. Pass(e).at = "limit"
    BY <2>2, <2>3, GotoOnly, ChainFollows DEF Pass
  <2>5. ex'.status = 204 /\ ex'.ctype = Absent
    BY <2>1, <2>2, <2>4, SentFirst
  <2> QED
    BY <1>a, <2>5 DEF Moved
<1>4. CASE RateLimit
  <2>1. ex' = Pass(ex) \/ Reply(429, "json", <<RefusedJSON>>)
    BY <1>4 DEF RateLimit, Becomes
  <2>2. ex.at = "limit"
    BY <1>4, LimitMoves
  <2>3. Pass(ex).at = "id"
    BY <1>0, <2>2, GotoOnly, ChainFollows DEF Pass
  <2>4. ex'.status = 429
    BY <1>2, <2>1, <2>3
  <2> QED
    BY <2>4 DEF Moved
<1>5. CASE Route
  <2> DEFINE to == Mux(ex.req.path)
             found == ServeHTTP(URL(ex.req.path))
             Serve(leaf) == [ex EXCEPT !.op = leaf.op, !.arg = leaf.arg, !.at = Steps(leaf.op)[1]]
             NotHere == Reply(IF ex.req.method = "OPTIONS" THEN 204 ELSE 405, Absent, <<>>)
  <2>1. \/ to = "redirect" /\ Reply(301, "text", <<>>)
        \/ \E s \in {200, 503, 404} : Reply(s, "text", Text)
        \/ NotHere
        \/ \E leaf \in found : Becomes(Serve(leaf))
    <3>1. \/ to = "redirect" /\ Reply(301, "text", <<>>)
          \/ to = "health" /\ \E s \in {200, 503} : Reply(s, "text", Text)
          \/ (to = "nothing" \/ (to = "oas" /\ found = {})) /\ Reply(404, "text", Text)
          \/ \E leaf \in found : IF NotAllowed(leaf) THEN NotHere ELSE Becomes(Serve(leaf))
      BY <1>5, Zenon DEF Route
    <3> HIDE DEF NotHere, Serve, found, to
    <3> QED
      BY <3>1
  <2>2. CASE to = "redirect" /\ Reply(301, "text", <<>>)
    <3>1. ex'.ctype = "text" /\ ex'.req = ex.req
      BY <1>2, <2>2
    <3>2. Clean(ex.req.path) # ex.req.path
      BY <2>2 DEF Mux
    <3> QED
      BY <3>1, <3>2 DEF Moved
  <2>3. CASE \E s \in {200, 503, 404} : Reply(s, "text", Text)
    <3>1. ex'.ctype = "text" /\ ex'.status \in {200, 503, 404}
      BY <1>2, <2>3
    <3> QED
      BY <3>1 DEF Moved
  <2>4. CASE NotHere
    <3>1. ex'.ctype = Absent /\ ex'.status \in {204, 405}
      BY <1>2, <2>4
    <3> QED
      BY <1>a, <3>1 DEF Moved
  <2>5. CASE \E leaf \in found : Becomes(Serve(leaf))
    <3>1. PICK leaf \in found : ex' = [ex EXCEPT !.op = leaf.op, !.arg = leaf.arg, !.at = Steps(leaf.op)[1]]
      BY <2>5 DEF Becomes
    <3>2. ex'.at = Steps(leaf.op)[1]
      BY <1>0, <3>1 DEF Shaped
    <3>3. Steps(leaf.op)[1] \in Inner
      BY FoundOps, FirstStep
    <3> QED
      BY <3>2, <3>3 DEF Inner
  <2> QED
    BY ZenonT(30), <2>1, <2>2, <2>3, <2>4, <2>5
<1> QED
  BY <1>3, <1>4, <1>5

\* The error handler and Recovery: of an operation that said nothing, or whose
\* body could not be written.
LEMMA LastAnswer ==
    ASSUME TellInv, ErrorHandler \/ Recover, Bodied(ex)
    PROVE  Carried(ex') /\ Moved(ex')
<1>0. Shaped(ex) /\ Told(ex)
  BY DEF TellInv
<1>1. /\ ex.at \in {"error", "panic"} /\ ex'.at = "deliver"
      /\ ex'.said = ex.said /\ ex'.fault = ex.fault /\ ex'.req = ex.req
  BY LastMoves DEF Becoming, Fields
<1>2. CASE Recover
  <2>1. ex.at = "panic" /\ ex' = Goto(Send(ex, 500, "text", Text), "deliver")
    BY <1>2 DEF Recover, At, Becomes
  <2>2. ex.status = 0 /\ ex.said = {}
    BY <1>0, <2>1 DEF Told, Bodied
  <2>3. ex'.ctype = "text" /\ ex'.status = 500
    BY <1>0, <2>1, <2>2, SentFirst
  <2> QED
    BY <1>1, <2>2, <2>3 DEF Carried, Moved
<1>3. CASE ErrorHandler
  <2> DEFINE e == Record(ex, ex.err)
  <2>1. ex.at = "error" /\ ex' = Goto(Send(e, ex.err, "json", <<Trouble>>), "deliver")
    BY <1>3 DEF ErrorHandler, At, Becomes, Trouble
  <2>2. Shaped(e) /\ e.status = ex.status
    BY <1>0 DEF Record, Shaped
  <2> HIDE DEF e
  <2>3. CASE Early(ex)
    <3>1. ex.err \in {400, 401, 500} /\ ex.status = 0 /\ ex.fault = "none"
      BY <1>0, <2>1, <2>3 DEF Told, Early
    <3>2. ex.said = {}
      BY <2>1, <3>1 DEF Bodied
    <3>3. ex'.status = ex.err /\ ex'.docs = <<Trouble>>
      BY <2>1, <2>2, <3>1, SentFirst
    <3> QED
      BY <1>1, <3>1, <3>2, <3>3 DEF Carried, Moved
  <2>4. CASE ex.fault = "write" /\ ex.status \in {200, 404, 422}
    <3>1. Send(e, ex.err, "json", <<Trouble>>) = [e EXCEPT !.docs = @ \o <<Trouble>>]
      BY <2>2, <2>4 DEF Send
    <3>2. ex'.status = ex.status
      BY <2>1, <2>2, <3>1 DEF Goto, Shaped
    <3> QED
      BY <1>1, <2>4, <3>2 DEF Carried, Moved
  <2> QED
    BY <1>0, <2>1, <2>3, <2>4 DEF Told
<1> QED
  BY <1>2, <1>3

\* What the handler says of a demand can be read.
LEMMA SaidProper ==
    ASSUME PostedInv, ex.at = "handle", NEW a \in Answers
    PROVE  Proper(a)
<1>1. Told(ex) /\ Posted(ex) /\ SeedInv
  BY DEF PostedInv, WayInv, TellInv
<1>2. ex.op \in Ops
  BY <1>1 DEF Told, Inner
<1>3. ASSUME ex.op = "placeOrder" PROVE Demand(ex.arg)
  <2>1. ex.arg \in decodePlaceOrderRequest(ex.req)
    BY <1>1, <1>3 DEF Posted
  <2>2. Len(ex.req.docs) = 1 /\ ex.arg \in DecodeOrderReq(ex.req.docs[1]) /\ ValidOrderReq(ex.arg)
    BY <2>1 DEF decodePlaceOrderRequest
  <2> QED
    BY <1>1, <2>2, RequestRead DEF Posted
<1>4. db.products \subseteq DOMAIN Catalog
  BY <1>1 DEF SeedInv
<1> QED
  BY <1>2, <1>3, <1>4, AnswersProper

\* Whatever layer answers, what is sent can be told apart by the client.
LEMMA OnwardCarried ==
    ASSUME CarriedInv, Onward
    PROVE  Moved(ex') /\ Bodied(ex') /\ Gotten(ex')
<1>0. /\ TellInv /\ Shaped(ex) /\ Told(ex) /\ Moved(ex) /\ Bodied(ex) /\ Gotten(ex)
      /\ PostedInv
  BY DEF CarriedInv, PostedInv, WayInv, TellInv
<1>1. Told(ex')
  <2>1. [Next]_vars
    BY Kinds
  <2> QED
    BY <1>0, <2>1, StepTold DEF TellInv
<1>2. ASSUME ex'.got = ex.got, ex.at # "answered", ex'.at # "answered" PROVE Gotten(ex')
  BY <1>0, <1>2 DEF Gotten
<1>3. ASSUME ex'.at \in Outer \cup Inner, ex'.got = ex.got, ex.at # "answered" PROVE Moved(ex') /\ Bodied(ex') /\ Gotten(ex')
  <2>1. ex'.status = 0 /\ ex'.at \notin {"encode", "error", "panic"} \cup Over
    BY <1>1, <1>3 DEF Told, Outer, Inner, Over, Early
  <2> QED
    BY <1>2, <1>3, <2>1 DEF Moved, Bodied, Over
<1>4. CASE CORS \/ RateLimit \/ Route
  <2>1. ex.at \in {"cors", "limit", "mux"}
    BY <1>0, <1>4, CorsMoves, LimitMoves, RouteMoves
  <2>2. ex.said = {}
    BY <1>0, <2>1 DEF Told, Outer, Silent
  <2>3. ex'.said = {} /\ ex'.got = ex.got
    BY <1>0, <1>4, <2>2, CorsMoves, LimitMoves, RouteMoves DEF Becoming, Fields
  <2>4. CASE ex'.at = "deliver"
    <3>1. (ex'.ctype # "json" \/ ex'.status = 429) /\ Moved(ex')
      BY <1>0, <1>4, <2>4, LayersAnswer
    <3> QED
      BY <1>2, <2>1, <2>3, <2>4, <3>1 DEF Bodied, Carried
  <2>5. CASE ex'.at # "deliver"
    <3>1. ex'.at \in Outer \cup Inner
      <4>1. CASE CORS \/ RateLimit
        BY <1>0, <2>5, <4>1, CorsMoves, LimitMoves DEF Outer
      <4>2. CASE Route
        <5>1. PICK leaf \in ServeHTTP(URL(ex.req.path)) : ex'.at = Steps(leaf.op)[1]
          BY <1>0, <2>5, <4>2, RouteMoves
        <5> QED
          BY <5>1, FoundOps, FirstStep
      <4> QED
        BY <1>4, <4>1, <4>2
    <3> QED
      BY <1>3, <2>1, <2>3, <3>1
  <2> QED
    BY <2>4, <2>5
<1>5. CASE RequestID \/ Labeler
  <2>1. ex'.at \in Outer /\ ex.at # "answered"
    BY <1>0, <1>5, IdMoves, LabelMoves DEF Outer
  <2>2. ex'.got = ex.got
    BY <1>0, <1>5, IdMoves, LabelMoves DEF Becoming, Fields
  <2> QED
    BY <1>3, <2>1, <2>2
<1>6. CASE Security \/ DecodeParams \/ DecodeRequest
  <2>1. /\ ex.at \in {"security", "params", "decode"} /\ ex'.at \in {"decode", "handle", "error"}
        /\ Becoming(ex, ex', {"at", "arg", "err"})
    BY <1>0, <1>6, ChecksMove
  <2>2. ex'.said = ex.said /\ ex'.got = ex.got /\ ex'.status = ex.status
    BY <2>1 DEF Becoming, Fields
  <2>3. ex.said = {} /\ ex.status = 0
    BY <1>0, <2>1 DEF Told, Inner, Silent, Early
  <2>4. CASE ex'.at = "error"
    BY <1>2, <2>1, <2>2, <2>3, <2>4 DEF Bodied, Moved, Over
  <2>5. CASE ex'.at \in {"decode", "handle"}
    BY <1>3, <2>1, <2>2, <2>5 DEF Inner
  <2> QED
    BY <2>1, <2>4, <2>5
<1>7. CASE Handle
  <2>1. /\ ex.at = "handle" /\ Becoming(ex, ex', {"at", "asked", "said", "fault", "err"})
        /\ \/ ex'.at = "encode" /\ \E a \in Answers : ex'.said = {a}
           \/ ex'.at = "error" /\ ex'.said = ex.said
           \/ ex'.at = "panic" /\ ex'.said = ex.said
    BY <1>0, <1>7, HandleMoves
  <2>2. ex'.got = ex.got /\ ex'.status = ex.status
    BY <2>1 DEF Becoming, Fields
  <2>3. ex.said = {} /\ ex.status = 0
    BY <1>0, <2>1 DEF Told, Inner, Silent, Early
  <2>4. ex'.at = "encode" => \E a : ex'.said = {a} /\ Proper(a)
    BY <1>0, <2>1, SaidProper
  <2>5. Gotten(ex') /\ Moved(ex')
    BY <1>2, <2>1, <2>2, <2>3 DEF Moved
  <2> QED
    BY <2>1, <2>3, <2>4, <2>5 DEF Bodied, Over
<1>8. CASE Encode
  <2>1. /\ ex.at = "encode" /\ Becoming(ex, ex', {"at", "rec", "status", "ctype", "docs", "fault", "err"})
        /\ \E a \in ex.said : /\ ex'.status = StatusOf(ex.op, a[1]) /\ ex'.ctype = "json"
                              /\ ex'.docs = <<EncodeAnswer(a[1], a[2])>>
        /\ \/ ex'.at = "deliver"
           \/ ex'.at = "error" /\ ex'.fault = "write"
    BY <1>0, <1>8, EncodeMoves
  <2>2. ex'.got = ex.got /\ ex'.said = ex.said /\ ex'.op = ex.op
    BY <2>1 DEF Becoming, Fields
  <2>3. PICK a : /\ ex.said = {a} /\ Proper(a)
                 /\ ex'.status = StatusOf(ex.op, a[1]) /\ ex'.ctype = "json"
                 /\ ex'.docs = <<EncodeAnswer(a[1], a[2])>>
    BY <1>0, <2>1 DEF Bodied
  <2>4. ex.op \in Ops /\ a[1] \in AnswerTypes(ex.op)
    BY <1>0, <2>1, <2>3 DEF Told
  <2>5. ex'.status # 301
    <3>1. <<ex'.status, a[1]>> \in Types(ex.op)
      BY <2>3, <2>4, StatusesExpected
    <3> QED
      BY <2>4, <3>1, StatusesExpected
  <2>6. Carried(ex')
    BY <2>2, <2>3, <2>4 DEF Carried
  <2>7. Gotten(ex') /\ Moved(ex')
    BY <1>2, <2>1, <2>2, <2>5 DEF Moved
  <2> QED
    BY <2>1, <2>6, <2>7 DEF Bodied
<1>9. CASE ErrorHandler \/ Recover
  <2>1. ex.at \in {"error", "panic"} /\ ex'.at = "deliver" /\ ex'.got = ex.got
    BY <1>0, <1>9, LastMoves DEF Becoming, Fields
  <2>2. Carried(ex') /\ Moved(ex')
    BY <1>0, <1>9, LastAnswer
  <2> QED
    BY <1>2, <2>1, <2>2 DEF Bodied
<1>10. CASE Deliver
  <2>1. /\ ex.at = "deliver" /\ ex'.at = "answered" /\ Becoming(ex, ex', {"at", "got"})
        /\ ex'.got = DecodeResponse(ex.call.op, ex)
    BY <1>0, <1>10, DeliverMoves
  <2>2. /\ ex'.status = ex.status /\ ex'.ctype = ex.ctype /\ ex'.docs = ex.docs /\ ex'.fault = ex.fault
        /\ ex'.said = ex.said /\ ex'.op = ex.op /\ ex'.req = ex.req /\ ex'.call = ex.call
    BY <2>1 DEF Becoming, Fields
  <2>3. Carried(ex)
    BY <1>0, <2>1 DEF Bodied, Over
  <2>4. Carried(ex')
    BY <2>2, <2>3 DEF Carried
  <2>5. Moved(ex')
    BY <1>0, <2>2 DEF Moved
  <2>6. DecodeResponse(ex'.call.op, ex') = DecodeResponse(ex.call.op, ex)
    BY <2>2 DEF DecodeResponse
  <2> QED
    BY <2>1, <2>4, <2>5, <2>6 DEF Bodied, Gotten
<1> QED
  BY <1>4, <1>5, <1>6, <1>7, <1>8, <1>9, <1>10 DEF Onward

\* An answer from the cache is as readable as it was.
LEMMA CacheCarried ==
    ASSUME CarriedInv, FromCache
    PROVE  Moved(ex') /\ Bodied(ex') /\ Gotten(ex')
<1>0. /\ TellInv /\ Shaped(ex) /\ Told(ex) /\ Moved(ex) /\ Bodied(ex) /\ Gotten(ex)
      /\ \A c \in cache : Kept(c) /\ Moved(c) /\ Carried(c) /\ c.got = {}
  BY DEF CarriedInv, PostedInv, WayInv, TellInv
<1>1. CASE ex.at = "cache" /\ ex'.at = "cors" /\ Becoming(ex, ex', {"at"})
  <2>1. ex'.status = ex.status /\ ex'.got = ex.got /\ ex'.req = ex.req
    BY <1>1 DEF Becoming, Fields
  <2> QED
    BY <1>0, <1>1, <2>1 DEF Moved, Bodied, Gotten, Over
<1>2. CASE \E c \in cache : /\ Fits(c) /\ Becoming(c, ex', {"req", "call", "hit"})
                            /\ ex'.req = ex.req
  <2>1. PICK c \in cache : Fits(c) /\ Becoming(c, ex', {"req", "call", "hit"}) /\ ex'.req = ex.req
    BY <1>2
  <2>2. /\ ex'.status = c.status /\ ex'.ctype = c.ctype /\ ex'.docs = c.docs /\ ex'.fault = c.fault
        /\ ex'.said = c.said /\ ex'.op = c.op /\ ex'.at = c.at /\ ex'.got = c.got
    BY <2>1 DEF Becoming, Fields
  <2>3. c.at = "deliver" /\ c.got = {} /\ Moved(c) /\ Carried(c) /\ ex'.req.path = c.req.path
    BY <1>0, <2>1 DEF Kept, Fits
  <2>4. Carried(ex')
    BY <2>2, <2>3 DEF Carried
  <2> QED
    BY <2>2, <2>3, <2>4 DEF Moved, Bodied, Gotten
<1> QED
  BY <1>0, <1>1, <1>2, CacheMoves

\* A new request is for its caller, with the method of the operation.
LEMMA AskCarried ==
    ASSUME CarriedInv, Ask \/ Follow
    PROVE  Calling(ex') /\ Moved(ex') /\ Bodied(ex') /\ Gotten(ex')
<1>1. ASSUME NEW call, NEW req, ex' = Fresh(call, req)
      PROVE  ex'.call = call /\ ex'.req = req /\ Moved(ex') /\ Bodied(ex') /\ Gotten(ex')
  <2>1. ex'.call = call /\ ex'.req = req /\ ex'.at = "cache" /\ ex'.status = 0 /\ ex'.got = {}
    BY <1>1 DEF Fresh
  <2> QED
    BY <2>1 DEF Moved, Bodied, Gotten, Over
<1>2. \A path : Get(path).method = "GET"
  BY DEF Get
<1>3. CASE \E v \in Visits : ex' = Visit(v)
  <2>1. PICK v \in Visits : ex' = Visit(v)
    BY <1>3
  <2>2. ex'.call = [op |-> "visit"] /\ Moved(ex') /\ Bodied(ex') /\ Gotten(ex')
    BY <1>1, <2>1 DEF Visit
  <2> QED
    BY <2>2 DEF Calling
<1>4. CASE \E c \in Calls : ex' = Fresh(c, Request(c))
  <2>1. PICK c \in Calls : ex' = Fresh(c, Request(c))
    BY <1>4
  <2>2. ex'.call = c /\ ex'.req = Request(c) /\ Moved(ex') /\ Bodied(ex') /\ Gotten(ex')
    BY <1>1, <2>1
  <2>3. c.op \in {"getProduct", "listProducts", "placeOrder"}
    BY CallAssumption
  <2>4. c.op \in {"getProduct", "listProducts"} => Request(c).method = "GET"
    BY <1>2 DEF Request, sendGetProduct, sendListProducts
  <2>5. c.op = "placeOrder" => Request(c).method = "POST" /\ Request(c).path = OrderURL
    <3>1. sendPlaceOrder(c.arg, c.key).method = "POST" /\ sendPlaceOrder(c.arg, c.key).path = OrderURL
      BY DEF sendPlaceOrder, Get
    <3> QED
      BY <3>1 DEF Request
  <2> QED
    BY <2>2, <2>3, <2>4, <2>5 DEF Calling, Ops
<1>5. CASE Follow
  <2>1. ex.status = 301 /\ ex' = Fresh(ex.call, Get(Clean(ex.req.path)))
    BY <1>5 DEF Follow, Becomes
  <2>2. ex'.call = ex.call /\ ex'.req.method = "GET" /\ Moved(ex') /\ Bodied(ex') /\ Gotten(ex')
    BY <1>1, <1>2, <2>1
  <2>3. Calling(ex) /\ Moved(ex)
    BY DEF CarriedInv
  <2>4. ex.call.op # "placeOrder"
    BY <2>1, <2>3, CleanOrder DEF Calling, Moved
  <2> QED
    BY <2>2, <2>3, <2>4 DEF Calling
<1> QED
  BY <1>3, <1>4, <1>5 DEF Ask

\* Nothing is said at first.
LEMMA InitCarried == Init => CarriedInv
<1> SUFFICES ASSUME Init PROVE CarriedInv
  OBVIOUS
<1>1. /\ ex.call.op = "visit" /\ ex.status = 0 /\ ex.at = "idle" /\ ex.got = {} /\ cache = {}
  BY DEF Init, Visit, Fresh
<1>2. Calling(ex) /\ Moved(ex) /\ Bodied(ex) /\ Gotten(ex)
  BY <1>1 DEF Calling, Moved, Bodied, Gotten, Over
<1> QED
  BY <1>1, <1>2, InitPosted DEF CarriedInv

\* Every step keeps it.
LEMMA StepCarried == CarriedInv /\ [Next]_vars => CarriedInv'
<1> SUFFICES ASSUME CarriedInv, [Next]_vars PROVE CarriedInv'
  OBVIOUS
<1>0. /\ TellInv /\ PostedInv' /\ Calling(ex) /\ Moved(ex) /\ Bodied(ex) /\ Gotten(ex)
      /\ \A c \in cache : Moved(c) /\ Carried(c) /\ c.got = {}
  BY StepPosted DEF CarriedInv, PostedInv, WayInv
<1>1. ASSUME ex'.req = ex.req, ex'.call = ex.call PROVE Calling(ex')
  BY <1>0, <1>1 DEF Calling
<1>2. CASE UNCHANGED <<ex, cache>>
  <2>1. Calling(ex') /\ Moved(ex') /\ Bodied(ex') /\ Gotten(ex')
    BY <1>0, <1>2
  <2> QED
    BY <1>0, <1>2, <2>1 DEF CarriedInv
<1>3. CASE Onward
  <2>1. Calling(ex') /\ Moved(ex') /\ Bodied(ex') /\ Gotten(ex')
    BY <1>0, <1>1, <1>3, OnwardKeeps, OnwardCarried
  <2>2. CASE Deliver
    <3>1. ex.at = "deliver" /\ \A c \in cache' : c \in cache \/ c = ex
      BY <1>0, <2>2, DeliverMoves
    <3>2. Carried(ex) /\ ex.got = {}
      BY <1>0, <3>1 DEF Bodied, Over, Gotten
    <3> QED
      BY <1>0, <2>1, <3>1, <3>2 DEF CarriedInv
  <2>3. CASE ~Deliver
    <3>1. UNCHANGED cache
      BY <1>0, <1>3, <2>3, CorsMoves, LimitMoves, IdMoves, LabelMoves, RouteMoves, ChecksMove, HandleMoves,
         EncodeMoves, LastMoves DEF Onward
    <3> QED
      BY <1>0, <2>1, <3>1 DEF CarriedInv
  <2> QED
    BY <2>2, <2>3
<1>4. CASE FromCache
  <2>1. Calling(ex') /\ Moved(ex') /\ Bodied(ex') /\ Gotten(ex') /\ UNCHANGED cache
    BY <1>0, <1>1, <1>4, CacheKeeps, CacheCarried
  <2> QED
    BY <1>0, <2>1 DEF CarriedInv
<1>5. CASE Ask \/ Follow
  <2>1. Calling(ex') /\ Moved(ex') /\ Bodied(ex') /\ Gotten(ex')
    BY <1>5, AskCarried
  <2>2. UNCHANGED cache
    BY <1>5 DEF Ask, Follow, Becomes
  <2> QED
    BY <1>0, <2>1, <2>2 DEF CarriedInv
<1> QED
  BY <1>2, <1>3, <1>4, <1>5, Kinds DEF vars

\* The operation that was served is the one that was called, as far as orders go.
LEMMA CalledServed ==
    ASSUME WayInv, Calling(ex), ex.call.op \in Ops, ex.op \in Ops
    PROVE  ex.op = "placeOrder" <=> ex.call.op = "placeOrder"
<1>1. PICK leaf \in Found(ex.req) : Serves(leaf, ex)
  BY DEF WayInv, Way, Ops
<1>2. leaf.op = ex.op /\ leaf.method = ex.req.method
  BY <1>1 DEF Serves
<1>3. leaf.op = "placeOrder" <=> leaf.method = "POST"
  BY FoundMethods DEF Found
<1>4. ex.req.method = IF ex.call.op = "placeOrder" THEN "POST" ELSE "GET"
  BY DEF Calling, Ops
<1> QED
  BY <1>2, <1>3, <1>4

\* In every state of the invariant a client has what the handler of its
\* operation said, and a browser nothing.
LEMMA GotIs ==
    ASSUME CarriedInv, ex.at = "answered"
    PROVE  IF ex.call.op = "visit" THEN ex.got = {}
           ELSE ex.got = {a \in ex.said : ex.op = ex.call.op /\ ex.fault # "write"}
<1>1. ex.got = DecodeResponse(ex.call.op, ex)
  BY DEF CarriedInv, Gotten
<1>2. CASE ex.call.op = "visit"
  <2>1. Types(ex.call.op) = {}
    BY <1>2 DEF Types
  <2>2. DecodeResponse(ex.call.op, ex) = {}
    BY <2>1 DEF DecodeResponse
  <2> QED
    BY <1>1, <1>2, <2>2
<1>3. CASE ex.call.op # "visit"
  <2>1. ex.call.op \in Ops /\ Carried(ex) /\ WayInv /\ Calling(ex)
    BY <1>3 DEF CarriedInv, Calling, Bodied, Over, PostedInv
  <2>2. DecodeResponse(ex.call.op, ex) = {a \in ex.said : ex.op = ex.call.op /\ ex.fault # "write"}
    BY <2>1, CalledServed, Received
  <2> QED
    BY <1>1, <1>3, <2>2
<1> QED
  BY <1>2, <1>3

\* The generated client returns a value exactly where the handler of the
\* operation it called gave that very value, whatever the orders, the catalogue
\* and the layers that answer before the handler (response decoders 17-400,
\* json 14-1240).
THEOREM ClientsNeverMistaken == Spec => []ClientNeverMistaken
<1>1. CarriedInv => ClientNeverMistaken
  BY GotIs DEF ClientNeverMistaken, Answered
<1>2. Spec => []CarriedInv
  BY InitCarried, StepCarried, PTL DEF Spec
<1> QED
  BY <1>1, <1>2, PTL

----------------------------------------------------------------------------
(* Types.                                                                  *)

\* One label at most, and a metric among those of the operations.
Counted(e) ==
    /\ e.rec \in {0, 200, 400, 401, 404, 422, 500}
    /\ e.label = {} \/ \E l : e.label = {l}

\* The inductive invariant of types, beyond what the others say.
CountedInv ==
    /\ CarriedInv
    /\ cors \in Configs /\ exchanges \in 0..MaxExchanges
    /\ Counted(ex) /\ \A c \in cache : Counted(c)

\* FindPath finds one route at most.
LEMMA OneRoute ==
    ASSUME NEW method, NEW url
    PROVE  FindPath(method, url) = {} \/ \E l : FindPath(method, url) = {l}
<1> DEFINE elem == IF url.raw = <<>> THEN url.path ELSE Normalized(url.raw)
           W(leaf) == [op |-> leaf.op, arg |-> Chars(IF url.raw = <<>> THEN leaf.arg ELSE PathUnescape(leaf.arg))]
           L == {l \in Leaf(CutPrefix(elem)) : l.method = method}
<1>1. FindPath(method, url) = {W(leaf) : leaf \in L}
  BY DEF FindPath
<1>2. \A l \in L : L = {l}
  <2> SUFFICES ASSUME NEW l \in L PROVE L = {l}
    OBVIOUS
  <2>1. Leaf(CutPrefix(elem)) = {l}
    BY OneLeaf
  <2> QED
    BY <2>1
<1> HIDE DEF W, L
<1>3. \A l \in L : {W(leaf) : leaf \in L} = {W(l)}
  BY <1>2
<1> QED
  BY <1>1, <1>3

\* The statuses that handlers and the error handler leave in the metric.
LEMMA EncodedStatus ==
    ASSUME NEW op \in Ops, NEW type \in AnswerTypes(op)
    PROVE  StatusOf(op, type) \in {200, 404, 422}
<1>1. CASE op = "getProduct"
  BY <1>1 DEF AnswerTypes, StatusOf, GetProductStatus
<1>2. CASE op = "listProducts"
  BY <1>2 DEF AnswerTypes, StatusOf, ListProductsStatus
<1>3. CASE op = "placeOrder"
  BY <1>3 DEF AnswerTypes, StatusOf, PlaceOrderStatus
<1> QED
  BY <1>1, <1>2, <1>3 DEF Ops

\* Only the encoder and the error handler write the metric.
LEMMA EndCounted ==
    ASSUME TellInv, Encode \/ ErrorHandler \/ Recover, Counted(ex)
    PROVE  Counted(ex')
<1>0. Shaped(ex) /\ Told(ex)
  BY DEF TellInv
<1>1. ex'.label = ex.label
  BY EncodeMoves, LastMoves DEF Becoming, Fields
<1>2. CASE Recover
  <2>1. ex' = Goto(Send(ex, 500, "text", Text), "deliver")
    BY <1>2 DEF Recover, Becomes
  <2>2. ex'.rec = ex.rec
    BY <1>0, <2>1, SentOver DEF Becoming, Fields
  <2> QED
    BY <1>1, <2>2 DEF Counted
<1>3. CASE ErrorHandler
  <2> DEFINE e == Record(ex, ex.err)
  <2>1. ex.at = "error" /\ ex' = Goto(Send(e, ex.err, "json", <<Trouble>>), "deliver")
    BY <1>3 DEF ErrorHandler, At, Becomes, Trouble
  <2>2. Shaped(e) /\ e.rec = ex.err
    BY <1>0 DEF Record, Shaped
  <2> HIDE DEF e
  <2>3. ex'.rec = ex.err
    BY <2>1, <2>2, SentOver DEF Becoming, Fields
  <2>4. ex.err \in {400, 401, 500}
    BY <1>0, <2>1 DEF Told
  <2> QED
    BY <1>1, <2>3, <2>4 DEF Counted
<1>4. CASE Encode
  <2>1. ex.at = "encode"
    BY <1>4, EncodeMoves
  <2>2. PICK a \in ex.said : LET s == StatusOf(ex.op, a[1])
                                 e == Send(Record(ex, s), s, "json", <<EncodeAnswer(a[1], a[2])>>)
                             IN  \/ ex' = Goto(e, "deliver")
                                 \/ ex' = Fail([e EXCEPT !.fault = "write"], 500)
    BY ZenonT(30), <1>4 DEF Encode, Becomes
  <2> DEFINE s == StatusOf(ex.op, a[1])
             r == Record(ex, s)
             e == Send(r, s, "json", <<EncodeAnswer(a[1], a[2])>>)
  <2>3. s \in {200, 404, 422}
    BY <1>0, <2>1, <2>2, EncodedStatus DEF Told
  <2>4. ex' = Goto(e, "deliver") \/ ex' = Fail([e EXCEPT !.fault = "write"], 500)
    BY <2>2
  <2> HIDE DEF s
  <2>5. Shaped(r) /\ r.rec = s
    BY <1>0 DEF Record, Shaped
  <2> HIDE DEF r
  <2>6. Shaped(e) /\ e.rec = s
    BY <2>5, SendOnly DEF Becoming, Fields
  <2> HIDE DEF e
  <2>7. ex'.rec = s
    BY ZenonT(30), <2>4, <2>6 DEF Goto, Fail, Shaped
  <2> QED
    BY <1>1, <2>3, <2>7 DEF Counted
<1> QED
  BY <1>2, <1>3, <1>4

\* The layers of the server.
LEMMA OnwardCounted ==
    ASSUME TellInv, Onward, Counted(ex)
    PROVE  Counted(ex')
<1>1. ASSUME ex'.rec = ex.rec, ex'.label = ex.label PROVE Counted(ex')
  BY <1>1 DEF Counted
<1>2. CASE CORS \/ RateLimit \/ RequestID
  BY <1>1, <1>2, CorsMoves, LimitMoves, IdMoves DEF Becoming, Fields
<1>3. CASE Labeler
  <2>1. ex'.rec = ex.rec /\ ex'.label = FindPath(ex.req.method, URL(ex.req.path))
    BY <1>3, LabelMoves DEF Becoming, Fields
  <2>2. FindPath(ex.req.method, URL(ex.req.path)) = {} \/ \E l : FindPath(ex.req.method, URL(ex.req.path)) = {l}
    BY OneRoute, Zenon
  <2>3. ex'.label = {} \/ \E l : ex'.label = {l}
    BY <2>1, <2>2, Zenon
  <2> QED
    BY <2>1, <2>3 DEF Counted
<1>4. CASE Route
  BY <1>1, <1>4, RouteMoves DEF Becoming, Fields
<1>5. CASE Security \/ DecodeParams \/ DecodeRequest
  BY <1>1, <1>5, ChecksMove DEF Becoming, Fields
<1>6. CASE Handle
  BY <1>1, <1>6, HandleMoves DEF Becoming, Fields
<1>7. CASE Encode \/ ErrorHandler \/ Recover
  BY <1>7, EndCounted
<1>8. CASE Deliver
  BY <1>1, <1>8, DeliverMoves DEF Becoming, Fields
<1> QED
  BY <1>2, <1>3, <1>4, <1>5, <1>6, <1>7, <1>8 DEF Onward

\* Nothing is counted at first.
LEMMA InitCounted == Init => CountedInv
<1> SUFFICES ASSUME Init PROVE CountedInv
  OBVIOUS
<1>1. ex.rec = 0 /\ ex.label = {} /\ cache = {} /\ cors \in Configs /\ exchanges = 0
  BY DEF Init, Visit, Fresh
<1>2. exchanges \in 0..MaxExchanges
  BY <1>1, BoundAssumption
<1> QED
  BY <1>1, <1>2, InitCarried DEF CountedInv, Counted

\* Every step keeps it.
LEMMA StepCounted == CountedInv /\ [Next]_vars => CountedInv'
<1> SUFFICES ASSUME CountedInv, [Next]_vars PROVE CountedInv'
  OBVIOUS
<1>0. /\ CarriedInv' /\ TellInv /\ cors \in Configs /\ exchanges \in 0..MaxExchanges
      /\ Counted(ex) /\ \A c \in cache : Counted(c)
  BY StepCarried DEF CountedInv, CarriedInv, PostedInv, WayInv
<1>1. cors' = cors
  BY DEF Next, vars, Ask, Follow, Deliver, FromCache, CORS, RateLimit, RequestID, Labeler, Route, Security,
         DecodeParams, DecodeRequest, Handle, Encode, ErrorHandler, Recover, At
<1>2. exchanges' \in 0..MaxExchanges
  <2>1. CASE Ask
    <3>1. exchanges < MaxExchanges /\ exchanges' = exchanges + 1
      BY <2>1 DEF Ask
    <3> QED
      BY <1>0, <3>1, BoundAssumption
  <2>2. CASE UNCHANGED exchanges
    BY <1>0, <2>2
  <2> QED
    BY <2>1, <2>2 DEF Next, vars, Follow, Deliver, FromCache, CORS, RateLimit, RequestID, Labeler, Route, Security,
         DecodeParams, DecodeRequest, Handle, Encode, ErrorHandler, Recover, At
<1>3. ASSUME Counted(ex'), \A c \in cache' : c \in cache \/ c = ex PROVE CountedInv'
  <2>1. \A c \in cache' : Counted(c)
    BY <1>0, <1>3
  <2> QED
    BY <1>0, <1>1, <1>2, <1>3, <2>1 DEF CountedInv
<1>4. CASE UNCHANGED <<ex, cache>>
  BY <1>0, <1>3, <1>4
<1>5. CASE Onward
  BY <1>0, <1>3, <1>5, OnwardKeeps, OnwardCounted
<1>6. CASE FromCache
  <2>1. UNCHANGED cache
    BY <1>0, <1>6, CacheKeeps
  <2>2. CASE Becoming(ex, ex', {"at"})
    <3>1. ex'.rec = ex.rec /\ ex'.label = ex.label
      BY <2>2 DEF Becoming, Fields
    <3> QED
      BY <1>0, <1>3, <2>1, <3>1 DEF Counted
  <2>3. CASE \E c \in cache : Becoming(c, ex', {"req", "call", "hit"})
    <3>1. PICK c \in cache : Becoming(c, ex', {"req", "call", "hit"})
      BY <2>3
    <3>2. ex'.rec = c.rec /\ ex'.label = c.label
      BY <3>1 DEF Becoming, Fields
    <3>3. Counted(c)
      BY <1>0
    <3>4. Counted(ex')
      <4>1. c.rec \in {0, 200, 400, 401, 404, 422, 500}
        BY <3>3 DEF Counted
      <4>2. c.label = {} \/ \E l : c.label = {l}
        BY <3>3, Zenon DEF Counted
      <4>3. ex'.rec \in {0, 200, 400, 401, 404, 422, 500}
        BY <3>2, <4>1
      <4>4. ex'.label = {} \/ \E l : ex'.label = {l}
        BY <3>2, <4>2, Zenon
      <4> QED
        BY <4>3, <4>4 DEF Counted
    <3> QED
      BY <1>3, <2>1, <3>4
  <2> QED
    BY <1>0, <1>6, <2>2, <2>3, CacheMoves
<1>7. CASE Ask \/ Follow
  <2>1. ex'.rec = 0 /\ ex'.label = {} /\ UNCHANGED cache
    BY <1>7 DEF Ask, Follow, Becomes, Visit, Fresh
  <2>2. Counted(ex')
    BY <2>1, Zenon DEF Counted
  <2>3. \A c \in cache' : c \in cache \/ c = ex
    BY <2>1
  <2> QED
    BY <1>3, <2>2, <2>3
<1> QED
  BY <1>4, <1>5, <1>6, <1>7, Kinds DEF vars

\* A set of one element at most.
LEMMA AtMostOne ==
    ASSUME NEW s, s = {} \/ \E x : s = {x}
    PROVE  Cardinality(s) <= 1
<1>1. CASE s = {}
  <2>1. Cardinality({}) = 0
    BY FS_EmptySet
  <2>2. Cardinality(s) = 0
    BY <1>1, <2>1
  <2> QED
    BY <2>2
<1>2. CASE \E x : s = {x}
  <2>1. PICK x : s = {x}
    BY <1>2
  <2>2. Cardinality({x}) = 1
    BY FS_Singleton
  <2>3. Cardinality(s) = 1
    BY <2>1, <2>2
  <2> QED
    BY <2>3
<1> QED
  BY <1>1, <1>2

\* Types: every stage, status and metric is one of those the code has, the
\* router labels an exchange once, a client gets one answer at most, and the
\* cache keeps only answers that it may.
THEOREM TypesKept == Spec => []TypeOK
<1>1. ASSUME CountedInv PROVE TypeOK
  <2>0. /\ CarriedInv /\ Told(ex) /\ Counted(ex) /\ cors \in Configs /\ exchanges \in 0..MaxExchanges
        /\ \A c \in cache : Kept(c)
    BY <1>1 DEF CountedInv, CarriedInv, PostedInv, WayInv, TellInv
  <2>1. ex.at \in Stages
    <3>1. Outer \cup Inner \cup Over \cup {"encode", "error", "panic"} \subseteq Stages
      <4>1. \A i \in 1..6 : Chain[i] \in Range(Chain)
        BY DEF Chain, Range
      <4>2. {"cache", "cors", "limit", "id", "label", "mux"} \subseteq Range(Chain)
        BY <4>1 DEF Chain
      <4> QED
        BY <4>2 DEF Stages, Outer, Inner, Over
    <3> QED
      BY <2>0, <3>1 DEF Told
  <2>2. ex.status \in {0, 200, 204, 301, 400, 401, 404, 405, 422, 429, 500, 503}
    BY <2>0 DEF Told, Early, Sent
  <2>3. ex.op \in {"none", "getProduct", "listProducts", "placeOrder"}
    BY <2>0 DEF Told, Ops
  <2>4. Cardinality(ex.label) <= 1
    BY <2>0, AtMostOne DEF Counted
  <2>5. Cardinality(ex.got) <= 1
    <3>1. CASE ex.at # "answered"
      <4>1. ex.got = {}
        BY <2>0, <3>1 DEF CarriedInv, Gotten
      <4> QED
        BY <4>1, AtMostOne
    <3>2. CASE ex.at = "answered"
      <4>1. ex.fault # "write" => ex.said = {} \/ \E a : ex.said = {a}
        BY <2>0, <3>2 DEF CarriedInv, Bodied, Over, Carried
      <4>2. ex.got = {} \/ ex.got = {a \in ex.said : ex.op = ex.call.op /\ ex.fault # "write"}
        BY <2>0, <3>2, GotIs
      <4>3. ex.got = {} \/ \E a : ex.got = {a}
        BY <4>1, <4>2
      <4> QED
        BY <4>3, AtMostOne
    <3> QED
      BY <3>1, <3>2
  <2>6. \A c \in cache : c.status \in Cacheable /\ c.req.method = "GET"
    BY <2>0 DEF Kept
  <2> QED
    BY <2>0, <2>1, <2>2, <2>3, <2>4, <2>5, <2>6 DEF TypeOK, Counted
<1>2. Spec => []CountedInv
  BY InitCounted, StepCounted, PTL DEF Spec
<1> QED
  BY <1>1, <1>2, PTL
=============================================================================
