------------------------------- MODULE Schema -------------------------------
(***************************************************************************)
(* The declarations of a crate, and the two readers that turn them into an *)
(* API: each macro of draad-macros expands the one item that it is written *)
(* on, wherever rustc finds it, and the scanner (scan.rs, pipeline.rs)     *)
(* reads the files of src_dir and writes index.ts and the aggregator of    *)
(* include_generated!, which names what the macros have made.  Nothing but *)
(* rustc and TypeScript checks that the two agree.                         *)
(***************************************************************************)
EXTENDS TyDecl, RawUrl

CONSTANTS
    SkipFiles,    \* Config.skip_files
    Traits,       \* the traits that may be declared
    MaxTraits,    \* bound on the traits of a crate
    FieldIdents,  \* snake_case identifiers
    VariantIdents,\* PascalCase identifiers
    Renames,      \* what #[serde(rename)] says, << >> for nothing
    MaxMembers,   \* bound on fields and variants
    ParamTypes,   \* types of path parameters
    MaxSegments,  \* bound on the segments of a template
    Texts         \* values of String parameters

ASSUME BoundsAssumption == {MaxTraits, MaxMembers, MaxSegments} \subseteq Nat
ASSUME TraitsAssumption == \A t \in Traits : t.namespaces \in Seq(STRING)

(* Identifiers are in the style of their kind, and what encodeURIComponent *)
(* makes of a character is not a character, but for one escape that a text *)
(* may hold by itself.                                                     *)
ASSUME IdentsAssumption ==
    /\ \A s \in FieldIdents : s \in Seq({"a", "_"})
    /\ \A s \in VariantIdents : s \in Seq({"a", "A"}) /\ s # << >> /\ s[1] = "A"
ASSUME TextsAssumption ==
    \A t \in Texts : /\ t \in Seq(STRING)
                     /\ \A i \in DOMAIN t : t[i] \notin {"%252F", "%3F", "%25"}

VARIABLES
    traits,   \* the #[api] and #[events] traits
    item,     \* a #[ty] item
    endpoint  \* a method of a #[raw] trait

vars == <<traits, item, endpoint>>

NoItem == [shape |-> "none"]
NoEndpoint == [template |-> << >>, params |-> << >>]

Param == {"p", "q"}

-----------------------------------------------------------------------------
(* A trait is in a file (its stem, and whether it lies deeper than its     *)
(* stem says), perhaps in a module that is inline there; its attribute is  *)
(* spelled api, draad::api, or in some other way that means the same to    *)
(* rustc, and has any number of namespace = "..." in it; its methods have  *)
(* a name and a verb.                                                      *)
AttrPathMatches(t) == t.spelling \in {"bare", "qualified"}

(* extract_attr_namespace and parse_namespace read the same attribute, the *)
(* one for the first, the other for the last namespace in it.              *)
ExtractAttrNamespace(t) == t.namespaces[1]
ParseNamespace(t) == Last(t.namespaces)

(* What scan_workspace finds: items at the top of files.                   *)
Scanned ==
    {t \in traits : /\ t.file.stem \notin SkipFiles
                    /\ ~ t.inline
                    /\ AttrPathMatches(t)
                    /\ t.namespaces # << >>}

Module(t) == [stem |-> t.file.stem, nested |-> t.file.nested, inline |-> t.inline]

(* What a macro puts next to its trait: __draad_{ns}_apply_routes, or      *)
(* __draad_{ns}_create_emitter.                                            *)
Export(t) ==
    [module |-> Module(t), kind |-> t.kind, namespace |-> ParseNamespace(t)]

(* What the aggregator calls for it: {prefix}::{stem}::__draad_{ns}_...    *)
Reference(t) ==
    [module |-> [stem |-> t.file.stem, nested |-> FALSE, inline |-> FALSE],
     kind |-> t.kind, namespace |-> ExtractAttrNamespace(t)]

Referenced(t) == {u \in traits : Export(u) = Reference(t)}

(* Fault: the route of a method has its TypeScript name.                   *)
RouteSegmentCamel(method) == SnakeToCamel(method.name)

(* write_apply_routes.                                                     *)
RouteSegment(method) == method.name

(* What a trait serves: routes, and topics that its emitter publishes.     *)
Served(u) ==
    {[kind |-> u.kind, namespace |-> ParseNamespace(u), name |-> RouteSegment(m),
      verb |-> m.verb, trait |-> u] : m \in u.methods}

(* rpc_router and Events, over everything that the aggregator refers to.   *)
Mounted == UNION {Served(u) : u \in UNION {Referenced(t) : t \in Scanned}}

(* The fields of the class Api: apis are assigned first, then events.      *)
ApiField(t) ==
    IF t.kind = "api" THEN ExtractAttrNamespace(t) ELSE ExtractAttrNamespace(t) \o "Events"

Overwritten(t) ==
    t.kind = "api" /\ \E u \in Scanned : u.kind = "events" /\ ApiField(u) = ApiField(t)

(* What the classes behind those fields call and listen to.                *)
Reached ==
    UNION {{[kind |-> t.kind, namespace |-> ExtractAttrNamespace(t), name |-> m.name,
             verb |-> m.verb, trait |-> t] : m \in t.methods} :
           t \in {u \in Scanned : ~ Overwritten(u)}}

-----------------------------------------------------------------------------
Distinct(f(_), S) == \A t, u \in S : f(t) = f(u) => t = u

(* Every macro has its namespace, no two make the same thing, traits that  *)
(* stay (#[events] erases its own) have distinct names, every reference of *)
(* the aggregator resolves, and Events has no field twice.                 *)
RustcAccepts ==
    /\ \A t \in traits : t.namespaces # << >>
    /\ Distinct(Export, traits)
    /\ Distinct(LAMBDA t : <<Module(t), t.class>>, {t \in traits : t.kind = "api"})
    /\ \A t \in Scanned : Referenced(t) # {}
    /\ Distinct(ExtractAttrNamespace, {t \in Scanned : t.kind = "events"})

TscAccepts ==
    /\ Distinct(ApiField, Scanned)
    /\ Distinct(LAMBDA t : t.class, Scanned)
    /\ \A t \in Scanned : Distinct(LAMBDA m : SnakeToCamel(m.name), t.methods)

-----------------------------------------------------------------------------
Init ==
    /\ traits = {}
    /\ item = NoItem
    /\ endpoint = NoEndpoint

(* A crate has one of the three; they have nothing to do with each other   *)
(* but the names of their TypeScript types.                                *)
DeclareTrait(t) ==
    /\ item = NoItem
    /\ endpoint = NoEndpoint
    /\ Cardinality(traits) < MaxTraits
    /\ traits' = traits \cup {t}
    /\ UNCHANGED <<item, endpoint>>

DeclareItem(shape, rule, generic) ==
    /\ vars = <<{}, NoItem, NoEndpoint>>
    /\ item' = [shape |-> shape, rule |-> rule, generic |-> generic, members |-> << >>]
    /\ UNCHANGED <<traits, endpoint>>

AddField(ident, rename, flags) ==
    /\ item.shape = "struct"
    /\ Len(item.members) < MaxMembers
    /\ item' = [item EXCEPT !.members =
                   Append(@, [ident |-> ident, rename |-> rename, flags |-> flags])]
    /\ UNCHANGED <<traits, endpoint>>

AddVariant(ident, rename, flags, payload) ==
    /\ item.shape = "enum"
    /\ Len(item.members) < MaxMembers
    /\ item' = [item EXCEPT !.members =
                   Append(@, [ident |-> ident, rename |-> rename, flags |-> flags,
                              payload |-> payload])]
    /\ UNCHANGED <<traits, endpoint>>

AddSegment(seg) ==
    /\ traits = {}
    /\ item = NoItem
    /\ endpoint.params = << >>
    /\ Len(endpoint.template) < MaxSegments
    /\ endpoint' = [endpoint EXCEPT !.template = Append(@, seg)]
    /\ UNCHANGED <<traits, item>>

(* The parameters of the method, all at once.                              *)
SetParams(params) ==
    /\ endpoint.template # << >>
    /\ endpoint.params = << >>
    /\ endpoint' = [endpoint EXCEPT !.params = params]
    /\ UNCHANGED <<traits, item>>

Next ==
    \/ \E t \in Traits : DeclareTrait(t)
    \/ \E shape \in Shape, rule \in AnyRule, generic \in BOOLEAN :
           DeclareItem(shape, rule, generic)
    \/ \E ident \in FieldIdents, rename \in Renames, flags \in SUBSET {"skip", "flatten"} :
           AddField(ident, rename, flags)
    \/ \E ident \in VariantIdents, rename \in Renames, flags \in SUBSET {"skip"},
          payload \in BOOLEAN : AddVariant(ident, rename, flags, payload)
    \/ \E seg \in {Static} \cup {Named(p) : p \in Param} \cup {CatchAll(p) : p \in Param} :
           AddSegment(seg)
    \/ \E P \in (SUBSET Param) \ {{}} : \E params \in [P -> ParamTypes] : SetParams(params)

Spec == Init /\ [][Next]_vars

-----------------------------------------------------------------------------
(* Two readers agree, or a compiler objects: if both rustc and TypeScript  *)
(* accept a crate, then every call and topic of the client is served by    *)
(* the very trait that declares it, and everything that is served is       *)
(* within the client's reach.  Names that clash or repeat, files with the  *)
(* same stem, nested and inline modules and skipped files are all in       *)
(* there.  The attributes are spelled as the scanner expects, and at most  *)
(* one of them repeats its namespace.                                      *)
Repeats(t) == Len(t.namespaces) > 1

ClientMatchesServer ==
    /\ \A t \in traits : AttrPathMatches(t)
    /\ \A t, u \in traits : Repeats(t) /\ Repeats(u) => t = u
    /\ RustcAccepts /\ TscAccepts
    => Reached = Mounted

(* What the builder accepts has in TypeScript the very names that serde    *)
(* writes, or, for an enum, may write, for every rename rule and every     *)
(* identifier in the style of its kind; if it accepts what TypeScript has  *)
(* no such declaration for, then it writes one that does not parse: a key  *)
(* with a hyphen (ty_decl.rs:67), or no name at all (:82-84, :117).  That  *)
(* is not silent, but it is tsc that fails, not the build (:14-16).        *)
TyMirrorsSerde ==
    item.shape \in {"struct", "enum"} /\ Supported(item) =>
        LET wire == SerdeNames(item) IN
        IF item.shape = "struct"
          THEN IF wire # << >> /\ \A key \in ToSet(wire) : IsTsKey(key)
                 THEN TsParses(item) /\ TsNames(item) = wire
                 ELSE ~ TsParses(item)
          ELSE IF item.members # << >>
                 THEN TsParses(item) /\ ToSet(wire) \subseteq ToSet(TsNames(item))
                 ELSE ~ TsParses(item)

(* What a parameter is written as: a number, or any text for a String.     *)
TextsOf(ty) == IF IsNumericRust(ty) THEN {<<"1">>, <<"-", "1">>} ELSE Texts

Calls(e) ==
    {args \in [ParamsOf(e.template) -> UNION {TextsOf(ty) : ty \in ParamTypes}] :
        \A p \in DOMAIN args : args[p] \in TextsOf(e.params[p])}

AllCarried(e, args) ==
    \A i \in DOMAIN e.template :
        e.template[i] # Static => Carried(e, i, args[e.template[i].param])

Usable(e) ==
    /\ RawAccepted(e) /\ RawTypechecks(e) /\ RawMounts(e)
    /\ \A p \in ParamsOf(e.template) : IsPrimitive(e.params[p])

(* A url takes its arguments to the handler: whatever the text of a String *)
(* parameter, with or without slashes, percent and question marks, the     *)
(* handler mounted at the generated path finds it under its parameter, and *)
(* a catch-all its path.                                                   *)
UrlRoundTrips ==
    Usable(endpoint) =>
        \A args \in Calls(endpoint) :
            AllCarried(endpoint, args) => Received(endpoint, UrlMethod(endpoint, args)) = args

(* Nothing else gets there: with a catch-all that is not encoded           *)
(* (emit_ts.rs:204) and has a question mark, an escape or dots in it, or   *)
(* whose slash makes its url one of another host, the handler is not       *)
(* reached or finds other arguments.                                       *)
OnlyPathsArrive ==
    Usable(endpoint) =>
        \A args \in Calls(endpoint) :
            ~ AllCarried(endpoint, args) => Received(endpoint, UrlMethod(endpoint, args)) # args
=============================================================================
