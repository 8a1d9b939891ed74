------------------------------ MODULE Codegen -------------------------------
(***************************************************************************)
(* What draad's code generator (crates/draad-codegen) makes of one method  *)
(* of an #[api] trait: the axum handler on one side, the TypeScript method *)
(* on the other, and the types both sides believe in.                      *)
(*                                                                         *)
(* The rendering of a TypeScript type is the list of alternatives of a     *)
(* union, each an atom with a number of [] suffixes, which is what a       *)
(* TypeScript parser reads in it: [] binds tighter than |.                 *)
(***************************************************************************)
EXTENDS RustTypes, SequencesExt

CONSTANTS
    Text,        \* values of a String
    Number,      \* values of an i32
    Decimal(_),  \* the text that JavaScript makes of a number
    MaxArray     \* bound on the elements of an array

ASSUME NumbersAssumption == \A m, n \in Number : Decimal(m) = Decimal(n) => m = n

Verb == {"GET", "POST", "PUT", "PATCH", "DELETE"}

(* conn: &Conn, conn: Option<&Conn>, or an argument on the wire.           *)
ConnInject(ty) ==
    CASE ty = Of(<< >>, "&Conn")            -> "required"
      [] ty = Of(<<"Option">>, "&Conn")     -> "optional"
      [] OTHER                              -> "wire"

-----------------------------------------------------------------------------
(* JSON values.                                                            *)
Null == [null |-> TRUE]
Str(s) == [str |-> s]
Num(n) == [num |-> n]
Obj(o) == [obj |-> o]
Arr(q) == [arr |-> q]

IsArr(v) == "arr" \in DOMAIN v

Arrays(S) == {Arr(q) : q \in BoundedSeq(S, MaxArray)}

(* Layers of Option and Vec, the outermost first, around a set of values.  *)
Wrap(layer, S) == IF layer = "Option" THEN S \cup {Null} ELSE Arrays(S)

Values(layers, S) ==
    LET within[k \in 0 .. Len(layers)] ==
            IF k = 0 THEN S
                     ELSE Wrap(layers[Len(layers) + 1 - k], within[k - 1])
    IN  within[Len(layers)]

OfBase(base) == CASE base = "String" -> {Str(s) : s \in Text}
                  [] base = "i32"    -> {Num(n) : n \in Number}
                  [] base = "Hit"    -> {Obj("hit")}

(* What serde writes for, and reads as, a value of the type.               *)
Serialised(ty) == Values(ty.outer, OfBase(ty.base))

(* A text, a number and a type of the crate stand for the rest: bool and   *)
(* the other numbers are primitives as well, () is only returned, and what *)
(* is no path is unknown to TypeScript (types.rs:31, 36-39, 52-58).        *)
Atom(base) == CASE base = "String" -> "string"
                [] base = "i32"    -> "number"
                [] base = "Hit"    -> "Hit"

(* Fault: an Option is rendered as its inner type.                         *)
RustTypeToTsPlain(ty) ==
    <<[atom |-> Atom(ty.base),
       arrays |-> Len(SelectSeq(ty.outer, LAMBDA w : w = "Vec"))]>>

(* Vec<T> appends "[]" to the text of T, and so to its last alternative;   *)
(* Option<T> appends "| null".                                             *)
Render(layer, alts) ==
    IF layer = "Option"
      THEN Append(alts, [atom |-> "null", arrays |-> 0])
      ELSE [alts EXCEPT ![Len(alts)].arrays = @ + 1]

Rendered(layers, alts) ==
    LET within[k \in 0 .. Len(layers)] ==
            IF k = 0 THEN alts
                     ELSE Render(layers[Len(layers) + 1 - k], within[k - 1])
    IN  within[Len(layers)]

(* rust_type_to_ts, which calls itself on what is inside.                  *)
RustTypeToTs(ty) == Rendered(ty.outer, <<[atom |-> Atom(ty.base), arrays |-> 0]>>)

OfAtom(a) == CASE a = "string" -> {Str(s) : s \in Text}
               [] a = "number" -> {Num(n) : n \in Number}
               [] a = "Hit"    -> {Obj("hit")}
               [] a = "null"   -> {Null}

(* The values that a TypeScript reader expects of a rendered type.         *)
TsValues(alts) ==
    UNION {Values([j \in 1 .. alts[i].arrays |-> "Vec"], OfAtom(alts[i].atom)) :
              i \in DOMAIN alts}

-----------------------------------------------------------------------------
(* A method: its verb markers, its parameters (named by their position),   *)
(* its Ok type, and whether it returns a Result.                           *)
HasBody(verb) == verb \in {"POST", "PUT", "PATCH"}

VerbOf(m) == IF m.markers = << >> THEN "POST" ELSE m.markers[1]

WireParams(m) == {i \in DOMAIN m.params : ConnInject(m.params[i]) = "wire"}

NeedsConn(m) == \E i \in DOMAIN m.params : ConnInject(m.params[i]) = "required"

(* Fault: query-safety is not tested for DELETE.                           *)
AcceptedDelete(m) ==
    /\ Len(m.markers) <= 1
    /\ VerbOf(m) # "GET" \/ \A i \in WireParams(m) : IsQuerySafe(m.params[i])

(* parse_trait returns instead of panicking.                               *)
Accepted(m) ==
    /\ Len(m.markers) <= 1
    /\ HasBody(VerbOf(m)) \/ \A i \in WireParams(m) : IsQuerySafe(m.params[i])

-----------------------------------------------------------------------------
(* The request that the TypeScript method makes of its arguments: a JSON   *)
(* object, or a query string in which null is left out and an array        *)
(* repeats its key; here, the texts under the key of each argument.        *)
StringOf(v) == IF "str" \in DOMAIN v THEN v.str
               ELSE IF "num" \in DOMAIN v THEN Decimal(v.num)
               ELSE "[object Object]"

(* Fault: whatever is falsy is left out.                                   *)
PairsTruthy(v) ==
    CASE v \in {Null, Str(""), Num(0)} -> << >>
      [] IsArr(v)                      -> [i \in DOMAIN v.arr |-> StringOf(v.arr[i])]
      [] OTHER                         -> <<StringOf(v)>>

Pairs(v) ==
    CASE v = Null -> << >>
      [] IsArr(v) -> [i \in DOMAIN v.arr |-> StringOf(v.arr[i])]
      [] OTHER    -> <<StringOf(v)>>

QueryOf(m, args) == [i \in WireParams(m) |-> Pairs(args[i])]

Payload(m, args) ==
    IF HasBody(VerbOf(m)) THEN [json |-> args] ELSE [query |-> QueryOf(m, args)]

-----------------------------------------------------------------------------
(* The handler's extractor of the arguments: Json, or Query, which refuses *)
(* sequences, duplicates, and a missing field that is not an Option.       *)
Refused == [refused |-> TRUE]

FromText(base, text) ==
    CASE base = "String" -> Str(text)
      [] base = "i32" /\ (\E n \in Number : Decimal(n) = text) ->
            Num(CHOOSE n \in Number : Decimal(n) = text)
      [] OTHER -> Refused

FromQuery(ty, texts) ==
    CASE ty.outer = << >> /\ Len(texts) = 1         -> FromText(ty.base, texts[1])
      [] ty.outer = <<"Option">> /\ Len(texts) = 1  -> FromText(ty.base, texts[1])
      [] ty.outer = <<"Option">> /\ Len(texts) = 0  -> Null
      [] OTHER                                      -> Refused

FromJson(ty, v) == IF v \in Serialised(ty) THEN v ELSE Refused

Extracted(m, payload) ==
    [i \in WireParams(m) |->
        IF HasBody(VerbOf(m)) THEN FromJson(m.params[i], payload.json[i])
                              ELSE FromQuery(m.params[i], payload.query[i])]
=============================================================================
