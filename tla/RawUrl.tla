------------------------------- MODULE RawUrl -------------------------------
(***************************************************************************)
(* A #[raw] endpoint: the url that the TypeScript builder makes of the     *)
(* arguments (write_url_method in emit_ts.rs), and what a handler mounted  *)
(* with axum at the generated constant finds in it.                        *)
(*                                                                         *)
(* A template is a sequence of path segments, a text a sequence of         *)
(* characters; an escape such as "%2F" is one character here, and "%" is a *)
(* percent sign that begins none.                                          *)
(***************************************************************************)
EXTENDS RustTypes, SequencesExt

Static == [kind |-> "static"]
Named(p) == [kind |-> "named", param |-> p]
CatchAll(p) == [kind |-> "catch_all", param |-> p]

(* Not primitive, but of use to a url: String, i32 or bool are.            *)
IsNumericRust(ty) == ty.outer = << >> /\ ty.base = "i32"

ParamsOf(template) ==
    {template[i].param : i \in {j \in DOMAIN template : template[j] # Static}}

(* parse_raw_trait does not panic: there is a path, and parameters are     *)
(* query-safe.                                                             *)
RawAccepted(e) ==
    /\ e.template # << >>
    /\ \A p \in DOMAIN e.params : IsQuerySafe(e.params[p])

(* TypeScript accepts the builder: what it interpolates is declared, and   *)
(* encodeURIComponent takes no null and no array.                          *)
RawTypechecks(e) ==
    /\ ParamsOf(e.template) \subseteq DOMAIN e.params
    /\ \A i \in DOMAIN e.template :
           e.template[i].kind = "named" => e.params[e.template[i].param].outer = << >>

(* axum mounts the template: names are unique, and a catch-all ends it.    *)
RawMounts(e) ==
    /\ \A i, j \in DOMAIN e.template :
           e.template[i] # Static /\ e.template[j] # Static
               /\ e.template[i].param = e.template[j].param => i = j
    /\ \A i \in DOMAIN e.template :
           e.template[i].kind = "catch_all" => i = Len(e.template)

-----------------------------------------------------------------------------
EncodeChar(c) == CASE c = "/" -> "%2F" [] c = "?" -> "%3F" [] c = "%" -> "%25"
                   [] c = "%2F" -> "%252F" [] OTHER -> c
DecodeChar(c) == CASE c = "%2F" -> "/" [] c = "%3F" -> "?" [] c = "%25" -> "%"
                   [] c = "%252F" -> "%2F" [] OTHER -> c

EncodeURIComponent(text) == [i \in DOMAIN text |-> EncodeChar(text[i])]
PercentDecode(text) == [i \in DOMAIN text |-> DecodeChar(text[i])]

(* Fault: a String is interpolated as it is, too.                          *)
InterpolateRaw(e, seg, args) == args[seg.param]

(* Fault: a catch-all is encoded, too.                                     *)
InterpolateEncoded(e, seg, args) == EncodeURIComponent(args[seg.param])

Interpolate(e, seg, args) ==
    IF seg.kind = "catch_all" \/ IsNumericRust(e.params[seg.param])
      THEN args[seg.param]
      ELSE EncodeURIComponent(args[seg.param])

UrlMethod(e, args) ==
    LET piece(seg) == IF seg = Static THEN <<"s">> ELSE Interpolate(e, seg, args)
    IN  FlattenSeq([i \in DOMAIN e.template |-> <<"/">> \o piece(e.template[i])])

-----------------------------------------------------------------------------
Dots == {<<".">>, <<".", ".">>}

(* The url is put behind nothing: one with two slashes names a host.       *)
NamesHost(url) == Len(url) > 1 /\ url[2] = "/"

(* The path that a browser requests: a query is cut off.                   *)
PathOf(url) == LET q == SelectInSeq(url, LAMBDA c : c = "?")
               IN  IF q = 0 THEN url ELSE SubSeq(url, 1, q - 1)

(* The segments of a path, each opened by a slash.                         *)
Segments(path) ==
    LET after[k \in 0 .. Len(path)] ==
            IF k = 0 THEN << >>
            ELSE IF path[k] = "/" THEN Append(after[k - 1], << >>)
            ELSE [after[k - 1] EXCEPT ![Len(after[k - 1])] = Append(@, path[k])]
    IN  after[Len(path)]

(* ... of which it resolves the dots.                                      *)
DotsResolved(segs) ==
    LET after[k \in 0 .. Len(segs)] ==
            IF k = 0 THEN << >>
            ELSE IF segs[k] = <<".">> THEN after[k - 1]
            ELSE IF segs[k] = <<".", ".">>
              THEN IF after[k - 1] = << >> THEN << >> ELSE Front(after[k - 1])
            ELSE Append(after[k - 1], segs[k])
    IN  after[Len(segs)]

(* A catch-all is what is left of the path, slashes included.              *)
Rest(segs, i) ==
    Tail(FlattenSeq([k \in 1 .. Len(segs) - i + 1 |-> <<"/">> \o segs[i + k - 1]]))

NotFound == [not_found |-> TRUE]

(* What axum matches and its Path extractor yields, by parameter.          *)
Received(e, url) ==
    LET segs == DotsResolved(Segments(PathOf(url)))
        n == Len(e.template)
        open == e.template[n].kind = "catch_all"
        value(i) == IF e.template[i].kind = "catch_all" THEN Rest(segs, i) ELSE segs[i]
        matches(i) == IF e.template[i] = Static THEN segs[i] = <<"s">>
                                                ELSE value(i) # << >>
        indexOf(p) == CHOOSE i \in DOMAIN e.template :
                          e.template[i] # Static /\ e.template[i].param = p
    IN  IF /\ ~ NamesHost(url)
           /\ IF open THEN Len(segs) >= n ELSE Len(segs) = n
           /\ \A i \in DOMAIN e.template : matches(i)
          THEN [p \in ParamsOf(e.template) |-> PercentDecode(value(indexOf(p)))]
          ELSE NotFound

(* The texts that come through: any text of a parameter in a segment of    *)
(* its own, but for nothing and dots.  A catch-all is not encoded, so its  *)
(* text is a path: no query, no escapes, no dots between slashes, and no   *)
(* slash that would follow the one at the start of the url.                *)
Carried(e, i, text) ==
    IF e.template[i].kind = "catch_all"
      THEN /\ text # << >>
           /\ \A k \in DOMAIN text : text[k] \notin {"?", "%2F"}
           /\ \A s \in ToSet(Segments(<<"/">> \o text)) : s \notin Dots
           /\ i = 1 => text[1] # "/"
      ELSE text \notin {<< >>} \cup Dots
=============================================================================
