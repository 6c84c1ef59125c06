-------------------------------- MODULE Wire --------------------------------
(***************************************************************************)
(* The JSON the server and its generated client exchange: gen/oas's codecs *)
(* and validators.  ogen unrolls one template for every schema, so a       *)
(* schema is a sequence of fields here and the template is written once.   *)
(*                                                                         *)
(* A JSON value is a tagged tuple; an object is the sequence of its pairs, *)
(* keys in any order and possibly repeated.  A Go struct is a function     *)
(* from keys to slots: <<>> is unset, or a nil slice, and <<v>> holds v.   *)
(* What a decoder returns is a set: {v}, or {} where it fails.             *)
(***************************************************************************)
EXTENDS Integers, Sequences, SequencesExt

Str(s)     == <<"str", s>>
Num(n)     == <<"num", n>>
Arr(list)  == <<"arr", list>>
Obj(pairs) == <<"obj", pairs>>

Opt(key, kind)      == [key |-> key, kind |-> kind, required |-> FALSE]
Required(key, kind) == [key |-> key, kind |-> kind, required |-> TRUE]

\* Mutant: a schema without its required fields.
ErrorFieldsOptional == <<Opt("code", "num"), Opt("message", "str")>>

ErrorFields == <<Required("code", "num"), Required("message", "str")>>

OrderItemFields == <<Opt("productId", "str"), Opt("quantity", "num")>>
ReqItemFields   == <<Required("productId", "str"), Required("quantity", "num")>>
OrderReqFields  == <<Opt("couponCode", "str"), Required("items", "reqItems")>>
ImageFields     == <<Opt("thumbnail", "str"), Opt("mobile", "str"),
                     Opt("tablet", "str"), Opt("desktop", "str")>>
ProductFields   == <<Opt("id", "str"), Opt("name", "str"), Opt("price", "num"),
                     Opt("category", "str"), Opt("image", "image")>>
OrderFields     == <<Opt("id", "str"), Opt("total", "num"), Opt("discounts", "num"),
                     Opt("items", "orderItems"), Opt("products", "products")>>

Zero(fields) == [k \in {fields[i].key : i \in DOMAIN fields} |-> <<>>]

NoError     == Zero(ErrorFields)
NoOrderItem == Zero(OrderItemFields)
NoReqItem   == Zero(ReqItemFields)
NoOrderReq  == Zero(OrderReqFields)
NoImage     == Zero(ImageFields)
NoProduct   == Zero(ProductFields)
NoOrder     == Zero(OrderFields)

----------------------------------------------------------------------------
(* Decoding.                                                               *)

\* Mutant: a repeated key is decoded into what the first one left.
ResetNothing(slot) == slot

\* Opt.Reset, and make([]T, 0), before a field is decoded.
Reset(slot) == <<>>

\* d.Str, d.Int, d.Float64: null is neither.
DecodeScalar(kind, slot, json) == IF json[1] = kind THEN {json[2]} ELSE {}

DecodeList(Elem(_), slot, json) ==
    IF json[1] # "arr" THEN {}
    ELSE FoldLeft(LAMBDA done, j : {Append(s, e) : s \in done, e \in Elem(j)},
                  {IF slot = <<>> THEN <<>> ELSE slot[1]}, json[2])

\* requiredBitSet, compared with the mask of the schema.
Complete(fields, s) == \A f \in Range(fields) : f.required => s[f.key] # <<>>

\* One pair: an unknown key is skipped.
DecodePair(fields, Value(_, _, _), s, pair) ==
    LET known == {f \in Range(fields) : f.key = pair[1]}
    IN  IF known = {} THEN {s}
        ELSE UNION {{[s EXCEPT ![f.key] = <<v>>] : v \in Value(f.kind, Reset(s[f.key]), pair[2])} :
                      f \in known}

\* ObjBytes: every pair in turn; the first that fails ends it.
DecodeObject(fields, Value(_, _, _), start, json) ==
    IF json[1] # "obj" THEN {}
    ELSE {s \in FoldLeft(LAMBDA done, pair : UNION {DecodePair(fields, Value, d, pair) : d \in done},
                         {start}, json[2]) : Complete(fields, s)}

DecodeFlat(fields, start, json) == DecodeObject(fields, DecodeScalar, start, json)

DecodeError(json) == DecodeFlat(ErrorFields, NoError, json)

\* OptProductImage decodes in place.
DecodeImage(slot, json) ==
    DecodeFlat(ImageFields, IF slot = <<>> THEN NoImage ELSE slot[1], json)

DecodeProduct(json) ==
    DecodeObject(ProductFields,
                 LAMBDA kind, slot, j : IF kind = "image" THEN DecodeImage(slot, j)
                                        ELSE DecodeScalar(kind, slot, j),
                 NoProduct, json)

DecodeProducts(slot, json) == DecodeList(DecodeProduct, slot, json)

DecodeOrderItem(json)        == DecodeFlat(OrderItemFields, NoOrderItem, json)
DecodeOrderItems(slot, json) == DecodeList(DecodeOrderItem, slot, json)

DecodeOrder(json) ==
    DecodeObject(OrderFields,
                 LAMBDA kind, slot, j :
                     CASE kind = "orderItems" -> DecodeOrderItems(slot, j)
                       [] kind = "products" -> DecodeProducts(slot, j)
                       [] OTHER -> DecodeScalar(kind, slot, j),
                 NoOrder, json)

DecodeReqItem(json)        == DecodeFlat(ReqItemFields, NoReqItem, json)
DecodeReqItems(slot, json) == DecodeList(DecodeReqItem, slot, json)

DecodeOrderReq(json) ==
    DecodeObject(OrderReqFields,
                 LAMBDA kind, slot, j : IF kind = "reqItems" THEN DecodeReqItems(slot, j)
                                        ELSE DecodeScalar(kind, slot, j),
                 NoOrderReq, json)

ValidItem(item) == item["quantity"][1] >= 1

\* minItems and the minimum of quantity.  (The validators of the answers only
\* refuse floats that JSON cannot hold.)
ValidOrderReq(req) ==
    /\ req["items"] # <<>>
    /\ Len(req["items"][1]) >= 1
    /\ \A i \in DOMAIN req["items"][1] : ValidItem(req["items"][1][i])

----------------------------------------------------------------------------
(* Encoding: the fields that are set, in the order of the schema.          *)

\* A slice is encoded where it is not nil; a required one always.
EncodeObject(fields, Value(_, _), s) ==
    LET Pair(f) == IF s[f.key] # <<>> THEN <<<<f.key, Value(f.kind, s[f.key][1])>>>>
                   ELSE IF f.required THEN <<<<f.key, Arr(<<>>)>>>>
                   ELSE <<>>
    IN  Obj(FlattenSeq([i \in DOMAIN fields |-> Pair(fields[i])]))

EncodeScalar(kind, v) == <<kind, v>>

EncodeFlat(fields, s) == EncodeObject(fields, EncodeScalar, s)

EncodeList(Elem(_), list) == Arr([i \in DOMAIN list |-> Elem(list[i])])

EncodeProduct(p) ==
    EncodeObject(ProductFields,
                 LAMBDA kind, v : IF kind = "image" THEN EncodeFlat(ImageFields, v)
                                  ELSE EncodeScalar(kind, v),
                 p)

EncodeProducts(list)   == EncodeList(EncodeProduct, list)
EncodeOrderItem(item)  == EncodeFlat(OrderItemFields, item)
EncodeOrderItems(list) == EncodeList(EncodeOrderItem, list)

EncodeOrder(o) ==
    EncodeObject(OrderFields,
                 LAMBDA kind, v :
                     CASE kind = "orderItems" -> EncodeOrderItems(v)
                       [] kind = "products" -> EncodeProducts(v)
                       [] OTHER -> EncodeScalar(kind, v),
                 o)

EncodeReqItem(item)  == EncodeFlat(ReqItemFields, item)
EncodeReqItems(list) == EncodeList(EncodeReqItem, list)

EncodeOrderReq(req) ==
    EncodeObject(OrderReqFields,
                 LAMBDA kind, v :
                     IF kind = "reqItems" THEN EncodeReqItems(v)
                     ELSE EncodeScalar(kind, v),
                 req)
=============================================================================
