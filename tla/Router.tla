------------------------------- MODULE Router -------------------------------
(***************************************************************************)
(* Paths: gen/oas's client that writes them, its router that reads them,   *)
(* and the mux of internal/app/app.go before it.                           *)
(*                                                                         *)
(* A path is a sequence of characters, each a pair <<c, escaped>>; words   *)
(* the router knows are one character, and the character "%2F" is a text   *)
(* that one unescaping too many would turn into a slash.                   *)
(***************************************************************************)
EXTENDS Naturals, Sequences, SequencesExt

CONSTANT Alphabet   \* the characters of a path

ASSUME AlphabetAssumption ==
    {"/", "api", "product", "order", "livez", "readyz", ".", "..", "%2F"} \subseteq Alphabet

Plain(chars) == [i \in DOMAIN chars |-> <<chars[i], FALSE>>]
Chars(path)  == [i \in DOMAIN path |-> path[i][1]]
Escaped(path) == \E i \in DOMAIN path : path[i][2]

\* url.PathUnescape, of a text that was not escaped as well.
PathUnescape(path) ==
    [i \in DOMAIN path |-> IF path[i] = <<"%2F", FALSE>> THEN <<"/", FALSE>>
                           ELSE <<path[i][1], FALSE>>]

\* net/url keeps the path as it came, RawPath, only where it is not the
\* default encoding of what it means.
DefaultEncoding(path) == [i \in DOMAIN path |-> <<path[i][1], path[i][1] = "%2F">>]
URL(raw) == [path |-> Plain(Chars(raw)),
             raw  |-> IF raw = DefaultEncoding(raw) THEN <<>> ELSE raw]

\* uri.NormalizeEscapedPath: characters that need no escape lose theirs.
Normalized(raw) == [i \in DOMAIN raw |-> <<raw[i][1], raw[i][2] /\ raw[i][1] \in {"/", "%2F"}>>]

----------------------------------------------------------------------------
(* The client.                                                             *)

\* uri.PathEncoder: whatever is not unreserved is escaped.
EncodePath(id) == [i \in DOMAIN id |-> <<id[i], id[i] \in {"/", "%2F"}>>]

Server == Plain(<<"/", "api">>)

ProductURL(id)  == Server \o Plain(<<"/", "product", "/">>) \o EncodePath(id)
ProductsURL     == Server \o Plain(<<"/", "product">>)
OrderURL        == Server \o Plain(<<"/", "order">>)

----------------------------------------------------------------------------
(* The server.                                                             *)

\* path.Clean of a last segment "." or "..", and the slash that "/api" lacks.
\* (Such segments elsewhere are not looked at.)
Above(path)  == SubSeq(path, 1, Max({1} \cup {i \in DOMAIN path : path[i] = <<"/", FALSE>>}) - 1)
Without(raw) == SubSeq(raw, 1, Len(raw) - 2)

DotsGone(raw) ==
    CASE IsSuffix(Plain(<<"/", ".">>), raw)  -> Without(raw)
      [] IsSuffix(Plain(<<"/", "..">>), raw) -> Above(Without(raw))
      [] OTHER -> raw

\* http.ServeMux sends an unclean path elsewhere.
Clean(raw) ==
    LET path == DotsGone(raw)
    IN  IF path = <<>> /\ raw # <<>> THEN Plain(<<"/">>)
        ELSE IF path = Plain(<<"/", "api">>) THEN Plain(<<"/", "api", "/">>)
        ELSE path

Mux(raw) ==
    CASE Clean(raw) # raw -> "redirect"
      [] raw \in {Plain(<<"/", "livez">>), Plain(<<"/", "readyz">>)} -> "health"
      [] IsPrefix(Plain(<<"/", "api", "/">>), raw) -> "oas"
      [] OTHER -> "nothing"

CutPrefix(elem) == IF IsPrefix(Server, elem) THEN SubSeq(elem, 3, Len(elem)) ELSE <<>>

\* The leaves of the routing tree: the operation, its method, its argument.
Leaf(elem) ==
    LET product == Plain(<<"/", "product">>)
        slash   == Plain(<<"/", "product", "/">>)
        rest    == SubSeq(elem, 4, Len(elem))
    IN  CASE elem = Plain(<<"/", "order">>) -> {[op |-> "placeOrder", method |-> "POST", arg |-> <<>>]}
          [] elem = product -> {[op |-> "listProducts", method |-> "GET", arg |-> <<>>]}
          [] IsPrefix(slash, elem) /\ ~Contains(rest, <<"/", FALSE>>) ->
                {[op |-> "getProduct", method |-> "GET", arg |-> rest]}
          [] OTHER -> {}

\* Mutant: arguments are always unescaped.
ArgumentAlways(arg, elem) == Chars(PathUnescape(arg))

\* decodeGetProductParams: unescaped where the path that was matched holds an
\* escape.
Argument(arg, elem) == IF Escaped(elem) THEN Chars(PathUnescape(arg)) ELSE Chars(arg)

\* ServeHTTP: the leaf, with its argument as the operation decodes it.
ServeHTTP(url) ==
    LET elem == IF url.raw = <<>> THEN url.path ELSE Normalized(url.raw)
    IN  {[op |-> leaf.op, method |-> leaf.method, arg |-> Argument(leaf.arg, elem)] :
            leaf \in Leaf(CutPrefix(elem))}

\* Mutant: the route is found whatever the method.
FindPathAnyMethod(method, url) ==
    LET elem == IF url.raw = <<>> THEN url.path ELSE Normalized(url.raw)
    IN  {[op |-> leaf.op, arg |-> Chars(IF url.raw = <<>> THEN leaf.arg ELSE PathUnescape(leaf.arg))] :
            leaf \in Leaf(CutPrefix(elem))}

\* FindPath: unescaped where the URL came with a RawPath.
FindPath(method, url) ==
    LET elem == IF url.raw = <<>> THEN url.path ELSE Normalized(url.raw)
    IN  {[op |-> leaf.op, arg |-> Chars(IF url.raw = <<>> THEN leaf.arg ELSE PathUnescape(leaf.arg))] :
            leaf \in {l \in Leaf(CutPrefix(elem)) : l.method = method}}
=============================================================================
