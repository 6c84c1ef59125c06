------------------------------ MODULE Gateway ------------------------------
(***************************************************************************)
(* One HTTP exchange after the other, from the generated client or a       *)
(* browser to the handlers and back: a shared cache in front of the server *)
(* (the one the comments of cors.go speak of), the chain of middlewares    *)
(* that internal/app wraps around its mux, ogen's router, security,        *)
(* decoders and encoders, and the client's decoders.                       *)
(*                                                                         *)
(* Exchanges share nothing but the cache and the rate limiter, which       *)
(* RateLimiter models and which may refuse any of them here.               *)
(***************************************************************************)
EXTENDS Wire, Router, Cors, SeedDb

CONSTANTS
    Configs,       \* the CORS configurations looked at
    Base,          \* cfg.ImageBaseURL
    Calls,         \* the calls of the generated client: [op, arg, key]
    Visits,        \* what browsers send
    MaxExchanges   \* bound: exchanges in a behaviour

ASSUME ConfigAssumption ==
    \A c \in Configs : c.origins \in Seq(DOMAIN Lower) /\ c.credentials \in BOOLEAN

\* The lower case of the absent origin, and of no other, is empty.
ASSUME LowerAssumption == \A o \in DOMAIN Lower : Lower[o] = Absent <=> o = Absent

\* What a body holds is finite: the pairs of an object, the elements of a list,
\* as deep as a request is read.
IsList(s)    == Len(s) \in Nat /\ DOMAIN s = 1..Len(s)
Finite(json) == json[1] \in {"obj", "arr"} => IsList(json[2])
Document(json) ==
    /\ Finite(json)
    /\ json[1] = "obj" =>
         \A i \in DOMAIN json[2] :
            LET value == json[2][i][2] IN
            /\ Finite(value)
            /\ value[1] = "arr" => \A j \in DOMAIN value[2] : Finite(value[2][j])

\* A percent sign reaches the server escaped.
ASSUME VisitAssumption ==
    \A v \in Visits :
        /\ v.path \in Seq(Alphabet \X BOOLEAN)
        /\ \A i \in DOMAIN v.path : v.path[i] # <<"%2F", FALSE>>
        /\ v.origin \in DOMAIN Lower
        /\ Len(v.docs) = 1 => Document(v.docs[1])

\* A caller of placeOrder gives no items, or a slice of them.
ASSUME CallAssumption ==
    \A c \in Calls :
        /\ c.op \in {"getProduct", "listProducts", "placeOrder"}
        /\ c.op = "getProduct" => c.arg \in Seq(Alphabet)
        /\ c.op = "placeOrder" => c.arg["items"] = <<>> \/ IsList(c.arg["items"][1])

ASSUME BoundAssumption == MaxExchanges \in Nat

VARIABLES cors, ex, cache, exchanges

vars == <<cors, ex, cache, exchanges, seedVars>>

Fresh(call, req) ==
    [call |-> call, req |-> req, at |-> "cache", hit |-> FALSE,
     hdr |-> NoHeaders, id |-> FALSE,                     \* headers
     status |-> 0, ctype |-> Absent, docs |-> <<>>,           \* as sent
     label |-> {}, op |-> "none", rec |-> 0,                  \* telemetry
     arg |-> <<>>, err |-> 0, fault |-> "none",
     asked |-> {}, said |-> {},                           \* the handler
     got |-> {}]                                          \* the client

Visit(req) == Fresh([op |-> "visit"], req)

Get(path)  == [method |-> "GET", path |-> path, origin |-> Absent, preflight |-> FALSE,
               key |-> Absent, ctype |-> Absent, docs |-> <<>>]

Init ==
    /\ cors \in Configs
    /\ ex = [Visit(Get(<<>>)) EXCEPT !.at = "idle"]
    /\ cache = {}
    /\ exchanges = 0
    /\ SeedInit

At(stage)      == ex.at = stage /\ UNCHANGED <<cors, exchanges, seedVars>>
Becomes(e)     == ex' = e /\ UNCHANGED cache
Goto(e, stage) == [e EXCEPT !.at = stage]

\* http.ResponseWriter: the first status is the one that is sent, and what is
\* written later follows the body.
Send(e, status, ctype, docs) ==
    IF e.status = 0 THEN [e EXCEPT !.status = status, !.ctype = ctype, !.docs = docs]
    ELSE [e EXCEPT !.docs = @ \o docs]

Text == <<<<"text">>>>

----------------------------------------------------------------------------
(* The client.                                                             *)

sendGetProduct(id) == Get(ProductURL(id))
sendListProducts   == Get(ProductsURL)
sendPlaceOrder(order, key) ==
    [Get(OrderURL) EXCEPT !.method = "POST", !.key = key,
                          !.ctype = "json", !.docs = <<EncodeOrderReq(order)>>]

Request(call) ==
    CASE call.op = "getProduct"   -> sendGetProduct(call.arg)
      [] call.op = "listProducts" -> sendListProducts
      [] call.op = "placeOrder"   -> sendPlaceOrder(call.arg, call.key)

Ask ==
    /\ ex.at \in {"idle", "answered"}
    /\ exchanges < MaxExchanges
    /\ exchanges' = exchanges + 1
    /\ \/ \E c \in Calls : ex' = Fresh(c, Request(c))
       \/ \E v \in Visits : ex' = Visit(v)
    /\ UNCHANGED <<cors, cache, seedVars>>

\* http.Client follows a redirect.
Follow ==
    /\ At("answered")
    /\ ex.status = 301
    /\ ex.call.op # "visit"
    /\ Becomes(Fresh(ex.call, Get(Clean(ex.req.path))))

GetProductTypes   == {<<200, "Product">>, <<400, "GetProductBadRequest">>,
                      <<404, "GetProductNotFound">>}
ListProductsTypes == {<<200, "Products">>}
PlaceOrderTypes   == {<<200, "Order">>, <<400, "PlaceOrderBadRequest">>,
                      <<401, "PlaceOrderUnauthorized">>, <<403, "PlaceOrderForbidden">>,
                      <<422, "PlaceOrderUnprocessableEntity">>}

Types(op) == CASE op = "getProduct"   -> GetProductTypes
               [] op = "listProducts" -> ListProductsTypes
               [] op = "placeOrder"   -> PlaceOrderTypes
               [] OTHER               -> {}

DecodeAnswer(type, json) ==
    CASE type = "Product"  -> DecodeProduct(json)
      [] type = "Products" -> DecodeProducts(<<>>, json)
      [] type = "Order"    -> DecodeOrder(json)
      [] OTHER             -> DecodeError(json)

\* By status, then content type, then the whole body; anything else is an error.
DecodeResponse(op, e) ==
    IF e.ctype # "json" \/ e.fault = "write" \/ Len(e.docs) # 1 THEN {}
    ELSE UNION {{<<t[2], v>> : v \in DecodeAnswer(t[2], e.docs[1])} :
                  t \in {u \in Types(op) : u[1] = e.status}}

Cacheable == {200, 301, 404}

\* The answer arrives; the cache may keep it.
Deliver ==
    /\ At("deliver")
    /\ ex' = [Goto(ex, "answered") EXCEPT !.got = DecodeResponse(ex.call.op, ex)]
    /\ \/ UNCHANGED cache
       \/ /\ ex.req.method = "GET" /\ ex.status \in Cacheable
          /\ ~ex.hit /\ ex.fault # "write"
          /\ cache' = cache \cup {ex}

----------------------------------------------------------------------------
(* The cache and the middlewares, outermost first.                         *)

\* Mutant: the rate limiter stands outside CORS.
ChainLimitFirst == <<"cache", "limit", "cors", "id", "label", "mux">>

Chain == <<"cache", "cors", "limit", "id", "label", "mux">>

\* Wrap: the first middleware is the outermost.
Following(stages, stage) == stages[(CHOOSE i \in DOMAIN stages : stages[i] = stage) + 1]
Pass(e) == Goto(e, Following(Chain, e.at))

\* What the server does for an operation, in order.
handleGetProductRequest   == <<"params", "handle", "encode">>
handleListProductsRequest == <<"handle", "encode">>
handlePlaceOrderRequest   == <<"security", "decode", "handle", "encode">>

Steps(op) == CASE op = "getProduct"   -> handleGetProductRequest
               [] op = "listProducts" -> handleListProductsRequest
               [] op = "placeOrder"   -> handlePlaceOrderRequest

Continue(e) == Goto(e, Following(Steps(e.op), e.at))

\* An entry fits a request with the same path and, where it varies on the
\* origin, the same origin.
Fits(entry) ==
    /\ ex.req.method = "GET"
    /\ entry.req.path = ex.req.path
    /\ entry.hdr.vary => entry.req.origin = ex.req.origin

FromCache ==
    /\ At("cache")
    /\ \/ Becomes(Pass(ex))
       \/ \E entry \in cache :
             /\ Fits(entry)
             /\ Becomes([entry EXCEPT !.req = ex.req, !.call = ex.call, !.hit = TRUE])

CORS ==
    /\ At("cors")
    /\ LET preflight == ex.req.preflight /\ ex.req.method = "OPTIONS" /\ ex.req.origin # Absent
           e == [ex EXCEPT !.hdr = CorsHeaders(cors, ex.req.origin, preflight)]
       IN  Becomes(IF preflight THEN Goto(Send(e, 204, Absent, <<>>), "deliver") ELSE Pass(e))

Reply(status, ctype, docs) == Becomes(Goto(Send(ex, status, ctype, docs), "deliver"))

RefusedJSON == Obj(<<<<"code", Num(429)>>, <<"message", Str("rate limit exceeded")>>>>)

RateLimit ==
    /\ At("limit")
    /\ \/ Becomes(Pass(ex))
       \/ Reply(429, "json", <<RefusedJSON>>)

RequestID ==
    /\ At("id")
    /\ Becomes(Pass([ex EXCEPT !.id = TRUE]))

\* Instrument, LogRequests and Labeler each ask for the route.
Labeler ==
    /\ At("label")
    /\ Becomes(Pass([ex EXCEPT !.label = FindPath(ex.req.method, URL(ex.req.path))]))

NotAllowed(leaf) == leaf.method # ex.req.method

\* The mux, the health endpoints, and ServeHTTP with notAllowed and notFound.
Route ==
    /\ At("mux")
    /\ LET to == Mux(ex.req.path) found == ServeHTTP(URL(ex.req.path)) IN
       \/ to = "redirect" /\ Reply(301, "text", <<>>)
       \/ to = "health" /\ \E status \in {200, 503} : Reply(status, "text", Text)
       \/ (to = "nothing" \/ (to = "oas" /\ found = {})) /\ Reply(404, "text", Text)
       \/ to = "oas" /\ \E leaf \in found :
             IF NotAllowed(leaf)
             THEN Reply(IF ex.req.method = "OPTIONS" THEN 204 ELSE 405, Absent, <<>>)
             ELSE Becomes([ex EXCEPT !.op = leaf.op, !.arg = leaf.arg, !.at = Steps(leaf.op)[1]])

----------------------------------------------------------------------------
(* One operation.                                                          *)

\* Mutant: the error handler is given the bare writer.
RecordNothing(e, status) == e

\* codeRecorder.WriteHeader.
Record(e, status) == [e EXCEPT !.rec = status]

Fail(e, status) == [e EXCEPT !.at = "error", !.err = status]

\* securityAPIKey: an empty header is no key.
Presented(key) == key # Absent

\* The only requirement of the operation.
Satisfied(key, valid) == Presented(key) /\ valid

\* The hash is the primary means of the lookup, and inactive keys are left out.
FindByHash(key, answers) == answers /\ key \in db.keys

\* HandleAPIKey: a lookup that fails refuses the key as well.
Security ==
    /\ At("security")
    /\ \E answers \in BOOLEAN :
          Becomes(IF Satisfied(ex.req.key, FindByHash(ex.req.key, answers)) THEN Continue(ex)
                  ELSE Fail(ex, 401))

\* decodeGetProductParams: an empty argument is a missing one.
DecodeParams ==
    /\ At("params")
    /\ Becomes(IF ex.arg = <<>> THEN Fail(ex, 400) ELSE Continue(ex))

decodePlaceOrderRequest(req) ==
    IF req.ctype # "json" \/ Len(req.docs) # 1 THEN {}
    ELSE {r \in DecodeOrderReq(req.docs[1]) : ValidOrderReq(r)}

DecodeRequest ==
    /\ At("decode")
    /\ LET decoded == decodePlaceOrderRequest(ex.req) IN
       Becomes(IF decoded = {} THEN Fail(ex, 400)
               ELSE Continue([ex EXCEPT !.arg = CHOOSE r \in decoded : TRUE]))

domainToOASProduct(p) ==
    [NoProduct EXCEPT
        !["id"] = <<p.id>>, !["name"] = <<"name">>, !["price"] = <<p.price>>,
        !["category"] = <<"category">>,
        !["image"] = <<[k \in DOMAIN NoImage |-> <<<<Base, k>>>>]>>]

\* The rows that are stored, as they are listed: by id.
Listing(rows) ==
    [i \in 1..Cardinality(rows) |->
        domainToOASProduct(Catalog[CHOOSE row \in rows : Cardinality({r \in rows : r < row}) = i - 1])]

With(id) == {row \in db.products : Catalog[row].id = id}

Problem(code) == [NoError EXCEPT !["code"] = <<code>>, !["message"] = <<"why">>]

GetProduct(id) ==
    IF With(id) = {} THEN {<<"GetProductNotFound", Problem(404)>>}
    ELSE {<<"Product", domainToOASProduct(Catalog[row])>> : row \in With(id)}

ListProducts == {<<"Products", Listing(db.products)>>}

\* What the handler answers: the order, or one of the refusals.  Every item
\* names a product of the catalogue where an order is stored.
PlaceOrder(req) ==
    LET items == req["items"][1]
        found(i) == With(items[i]["productId"][1])
        known == \A i \in DOMAIN items : found(i) # {}
        stored == [NoOrder EXCEPT
            !["id"] = <<"order">>, !["total"] = <<1>>, !["discounts"] = <<0>>,
            !["items"] = <<[i \in DOMAIN items |->
                              [NoOrderItem EXCEPT !["productId"] = items[i]["productId"],
                                                  !["quantity"] = items[i]["quantity"]]]>>,
            !["products"] = <<Listing(UNION {found(i) : i \in DOMAIN items})>>]
    IN  {<<"PlaceOrderUnprocessableEntity", Problem(422)>>}
        \cup (IF known THEN {<<"Order", stored>>} ELSE {})

Answers == CASE ex.op = "getProduct"   -> GetProduct(ex.arg)
             [] ex.op = "listProducts" -> ListProducts
             [] ex.op = "placeOrder"   -> PlaceOrder(ex.arg)

\* The handler answers, fails, or panics.
Handle ==
    /\ At("handle")
    /\ LET e == [ex EXCEPT !.asked = {<<ex.op, ex.arg>>}] IN
       \/ \E a \in Answers : Becomes(Continue([e EXCEPT !.said = {a}]))
       \/ Becomes(Fail(e, 500))
       \/ Becomes(Goto([e EXCEPT !.fault = "panic"], "panic"))

\* Mutant: a status of another schema.
GetProductStatusGone == [Product |-> 200, GetProductBadRequest |-> 400, GetProductNotFound |-> 410]

GetProductStatus == [Product |-> 200, GetProductBadRequest |-> 400, GetProductNotFound |-> 404]

ListProductsStatus == [Products |-> 200]

PlaceOrderStatus == [Order |-> 200, PlaceOrderBadRequest |-> 400, PlaceOrderUnauthorized |-> 401,
                     PlaceOrderForbidden |-> 403, PlaceOrderUnprocessableEntity |-> 422]

StatusOf(op, type) == CASE op = "getProduct"   -> GetProductStatus[type]
                        [] op = "listProducts" -> ListProductsStatus[type]
                        [] op = "placeOrder"   -> PlaceOrderStatus[type]

EncodeAnswer(type, value) ==
    CASE type = "Product"  -> EncodeProduct(value)
      [] type = "Products" -> EncodeProducts(value)
      [] type = "Order"    -> EncodeOrder(value)
      [] OTHER             -> EncodeFlat(ErrorFields, value)

\* The status goes out before the body is encoded and written; a write that
\* fails is an error after it.
Encode ==
    /\ At("encode")
    /\ \E a \in ex.said :
          LET status == StatusOf(ex.op, a[1])
              e == Send(Record(ex, status), status, "json", <<EncodeAnswer(a[1], a[2])>>)
          IN  \/ Becomes(Goto(e, "deliver"))
              \/ Becomes(Fail([e EXCEPT !.fault = "write"], 500))

\* ogen's DefaultErrorHandler, with its own schema.
ErrorHandler ==
    /\ At("error")
    /\ Becomes(Goto(Send(Record(ex, ex.err), ex.err, "json",
                         <<Obj(<<<<"error_message", Str("why")>>>>)>>), "deliver"))

\* Recovery writes past every recorder.
Recover ==
    /\ At("panic")
    /\ Becomes(Goto(Send(ex, 500, "text", Text), "deliver"))

Next ==
    \/ Ask \/ Follow \/ Deliver
    \/ FromCache \/ CORS \/ RateLimit \/ RequestID \/ Labeler \/ Route
    \/ Security \/ DecodeParams \/ DecodeRequest \/ Handle \/ Encode
    \/ ErrorHandler \/ Recover
    \/ Seed /\ UNCHANGED <<cors, ex, cache, exchanges>>

Spec == Init /\ [][Next]_vars

----------------------------------------------------------------------------
(* Properties                                                              *)

Stages == Range(Chain) \cup {"idle", "params", "security", "decode", "handle", "encode",
                             "error", "panic", "deliver", "answered"}

TypeOK ==
    /\ cors \in Configs
    /\ exchanges \in 0..MaxExchanges
    /\ ex.at \in Stages
    /\ ex.status \in {0, 200, 204, 301, 400, 401, 404, 405, 422, 429, 500, 503}
    /\ ex.rec \in {0, 200, 400, 401, 404, 422, 500}
    /\ ex.op \in {"none", "getProduct", "listProducts", "placeOrder"}
    /\ Cardinality(ex.got) <= 1 /\ Cardinality(ex.label) <= 1
    /\ \A e \in cache : e.status \in Cacheable /\ e.req.method = "GET"

Answered == ex.at = "answered"

\* The generated client returns a value exactly where the handler of the
\* operation it called gave that very value, and an error everywhere else: for
\* a 429, a 405, an unknown path, a redirect, a panic, a broken answer, and the
\* error handler's own bodies, which carry declared statuses (response decoders
\* 17-400, json 14-1240).
ClientNeverMistaken ==
    Answered /\ ex.call.op # "visit" =>
        ex.got = {a \in ex.said : ex.op = ex.call.op /\ ex.fault # "write"}

\* Whatever the id, slashes and percent signs included, the product asked of
\* the repository is the one the caller named: it is escaped once and unescaped
\* once on its way (client 142-159, router 37-42, parameters 38-44).
IdSurvives ==
    ex.call.op = "getProduct" /\ ex.op = "getProduct" /\ ex.asked # {} =>
        ex.asked = {<<"getProduct", ex.call.arg>>}

ValueOf(pairs, key) == pairs[Max({i \in DOMAIN pairs : pairs[i][1] = key})][2]
Mentions(pairs, key) == \E i \in DOMAIN pairs : pairs[i][1] = key

\* What a reader of the body takes from it: of a repeated key the last.
ReadsAs(json, req) ==
    LET pairs == json[2]
        lines == ValueOf(pairs, "items")[2]
    IN  /\ req["couponCode"] = IF Mentions(pairs, "couponCode")
                               THEN <<ValueOf(pairs, "couponCode")[2]>> ELSE <<>>
        /\ Len(req["items"][1]) = Len(lines)
        /\ \A i \in DOMAIN lines :
              /\ req["items"][1][i]["productId"] = <<ValueOf(lines[i][2], "productId")[2]>>
              /\ req["items"][1][i]["quantity"] = <<ValueOf(lines[i][2], "quantity")[2]>>
              /\ ValueOf(lines[i][2], "quantity")[2] >= 1

\* The handler is given an order only with an accepted key, and then what the
\* one JSON document in the body says (handlers 379-439, request decoder 17-94).
OrdersAsSent ==
    \A a \in ex.asked : a[1] = "placeOrder" =>
        /\ ex.req.key \in SeedKeys
        /\ Len(ex.req.docs) = 1
        /\ ReadsAs(ex.req.docs[1], a[2])

\* seed-db writes the key last (cmd/seed-db 94-102), so whoever is authorised
\* finds every product of the file, also while the tool runs and after a run of
\* it that broke off: no order with its key is refused for a product it ships.
AuthorisedSeesCatalog ==
    (\E a \in ex.asked : a[1] = "placeOrder") =>
        \A i \in DOMAIN Catalog : With(Catalog[i].id) # {}

\* The listings that name an origin, in whatever case: those before a wildcard.
Named(cfg, origin) ==
    {i \in DOMAIN cfg.origins : /\ \A j \in 1..i : cfg.origins[j] # "*"
                               /\ Lower[cfg.origins[i]] = Lower[origin]}

\* Who may read answers: everybody under a wildcard without credentials, and an
\* origin whose last listing has its very spelling.  (OriginEchoed and
\* OtherCaseReads are about the wildcard with credentials and the other case.)
Permitted(origin) ==
    \/ AllowAll(cors)
    \/ \E i \in Named(cors, origin) :
          cors.origins[i] = origin /\ \A j \in Named(cors, origin) : j <= i

\* A browser compares the header with its origin character by character.
Reads(e) == e.hdr.acao \in {"*", e.req.origin}

Readable(e) ==
    /\ Reads(e) <=> Permitted(e.req.origin)
    /\ e.hdr.cred <=> e.hdr.acao # Absent /\ cors.credentials
    /\ e.hdr.acao = "*" => ~e.hdr.cred
    /\ e.hdr.acao # Absent => AllowAll(cors) \/ Named(cors, e.req.origin) # {}

\* Every answer of the server, whichever layer gives it - a refusal by the rate
\* limiter, an unknown path, an error, a panic - can be read by a browser whose
\* origin is permitted and by no other, with its credentials if they are
\* configured; an origin that is not named in any case is told nothing (app.go
\* 88-105, cors.go 91-140).
AnswersReadable ==
    Answered /\ ~ex.hit /\ ex.req.origin # Absent => Readable(ex)

\* Where origins are listed, an answer from a shared cache is as readable as the
\* server's own would have been (cors.go 43, 80-85, 128-130).
CacheNeverStale ==
    Answered /\ ex.hit /\ ex.req.origin # Absent /\ ~AllowAll(cors) => Readable(ex)

\* The metric of an operation has the status that was sent, but for a panic,
\* which leaves none, and a body that could not be written, which leaves 500
\* (handlers 22-30, 63-83, 170-176).
RecordedAsSent ==
    Answered =>
        ex.rec = CASE ex.op = "none" \/ ex.fault = "panic" -> 0
                   [] ex.fault = "write" -> 500
                   [] OTHER -> ex.status

\* The route that telemetry names is the operation that is served, with the
\* same argument: the two copies of the router agree on every path that
\* reaches them (router 34-162 and 215-347).
LabelIsRoute ==
    ex.at \in {"deliver", "answered"} /\ Mux(ex.req.path) = "oas" /\ ex.id =>
        IF ex.op = "none" THEN ex.label = {} ELSE \E l \in ex.label : l.op = ex.op /\
            (ex.op = "getProduct" /\ ex.asked # {} => ex.asked = {<<l.op, l.arg>>})

\* cors.go 30: with credentials "the middleware echoes the specific origin".
OriginEchoed ==
    Answered /\ ~ex.hit /\ ex.req.origin # Absent /\ Wildcard(cors) /\ cors.credentials =>
        ex.hdr.acao = ex.req.origin

\* cors.go 11 and 44: "origins that are allowed to make cross-origin requests",
\* with "case-insensitive origin matching".  An origin listed in some case reads
\* the answers.
OtherCaseReads ==
    Answered /\ ~ex.hit /\ ex.req.origin # Absent /\ Named(cors, ex.req.origin) # {} =>
        Reads(ex)
=============================================================================
