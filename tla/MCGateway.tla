----------------------------- MODULE MCGateway -----------------------------
(* Gateway for TLC: configurations, a catalogue of two products, the calls  *)
(* of the generated client and the requests of browsers.                    *)
EXTENDS Gateway

MCLower == [o \in {"", "app", "App", "evil", "*"} |-> IF o = "App" THEN "app" ELSE o]

MCAlphabet == {"/", "api", "product", "order", "livez", "readyz", ".", "..", "%2F", "a"}

Config(origins, credentials) == [origins |-> origins, credentials |-> credentials]
MCConfigs == {Config(<<>>, FALSE), Config(<<"app">>, TRUE), Config(<<"App">>, FALSE),
              Config(<<"App", "app", "*">>, TRUE), Config(<<"*">>, TRUE)}

MCCatalog == <<[id |-> <<"a">>, price |-> 5], [id |-> <<"a", "/">>, price |-> 7]>>

Line(id, n)     == [NoReqItem EXCEPT !["productId"] = <<id>>, !["quantity"] = <<n>>]
Order(code, lines) == [NoOrderReq EXCEPT !["couponCode"] = code, !["items"] = <<lines>>]

ProductCall(id) == [op |-> "getProduct", arg |-> id, key |-> ""]
OrderCall(o, key) == [op |-> "placeOrder", arg |-> o, key |-> key]

MCCalls ==
    {ProductCall(id) : id \in {<<>>, <<"a">>, <<"a", "/">>, <<"%2F">>, <<"%2F", "/">>, <<".">>, <<"..">>}}
    \cup {[op |-> "listProducts", arg |-> <<>>, key |-> ""]}
    \cup {OrderCall(Order(<<"HAPPY">>, <<Line(<<"a">>, 2)>>), k) : k \in {"", "good", "bad"}}
    \cup {OrderCall(Order(<<>>, lines), "good") :
            lines \in {<<>>, <<Line(<<"a">>, 0)>>, <<Line(<<"a">>, 1), Line(<<"x">>, 1)>>}}

\* Bodies no generated client writes.
JSONLine(id, n) == Obj(<<<<"productId", Str(id)>>, <<"quantity", Num(n)>>>>)
Items(lines)    == <<"items", Arr(lines)>>
One             == Items(<<JSONLine(<<"a">>, 1)>>)
Bodies ==
    {<<>>,
     <<Obj(<<One>>), Obj(<<>>)>>,
     <<Arr(<<>>)>>,
     <<Obj(<<<<"couponCode", Str("X")>>>>)>>,
     <<Obj(<<One, <<"couponCode", <<"null">>>>>>)>>,
     <<Obj(<<One, <<"note", Num(1)>>, Items(<<JSONLine(<<"a">>, 2), JSONLine(<<"a">>, 3)>>),
             <<"couponCode", Str("X")>>, <<"couponCode", Str("Y")>>>>)>>,
     <<Obj(<<Items(<<Obj(<<<<"quantity", Num(1)>>, <<"productId", Str(<<"a">>)>>,
                           <<"quantity", Num(2)>>>>)>>)>>)>>,
     <<Obj(<<Items(<<Obj(<<<<"productId", Str(<<"a">>)>>>>)>>)>>)>>}

Post(path, origin, docs) ==
    [Get(path) EXCEPT !.method = "POST", !.origin = origin, !.key = "good", !.ctype = "json",
                      !.docs = docs]

MCVisits ==
    {Post(OrderURL, "app", d) : d \in Bodies}
    \cup {[Post(OrderURL, "", <<Obj(<<One>>)>>) EXCEPT !.ctype = "text"],
          Post(ProductsURL, "evil", <<>>),
          [Get(OrderURL) EXCEPT !.method = "OPTIONS", !.origin = "app", !.preflight = TRUE],
          [Get(OrderURL) EXCEPT !.method = "OPTIONS", !.origin = "evil", !.preflight = TRUE],
          [Get(OrderURL) EXCEPT !.method = "OPTIONS"]}
    \cup {[Get(p) EXCEPT !.origin = o] : o \in {"", "app", "evil"},
            p \in {ProductsURL,
                   Server \o Plain(<<"/", "product", "/">>) \o <<<<"a", TRUE>>, <<"/", TRUE>>>>,
                   Server \o Plain(<<"/", "product", "/", "a", "/">>),
                   Server \o Plain(<<"/", "order", "a">>),
                   Plain(<<"/", "a">>), Plain(<<"/", "readyz">>)}}
=============================================================================
