------------------------------- MODULE TyDecl -------------------------------
(***************************************************************************)
(* What ty_decl.rs makes of one #[ty] struct or enum, next to what serde   *)
(* makes of the same item, and the string helpers of the code generator.   *)
(*                                                                         *)
(* A name is a sequence of characters, of which one lower-case letter, one *)
(* upper-case letter, "_" and "-" are enough to tell the rules apart.      *)
(* Letters are ASCII: beyond it, to_lowercase (ty_decl.rs:213) and serde's *)
(* rules part.  What else a rename may hold, such as quotes, is left out.  *)
(***************************************************************************)
EXTENDS Naturals, Sequences, SequencesExt

Lower(c) == IF c = "A" THEN "a" ELSE c
Upper(c) == IF c = "a" THEN "A" ELSE c

ToLower(s) == [i \in DOMAIN s |-> Lower(s[i])]
ToUpper(s) == [i \in DOMAIN s |-> Upper(s[i])]
Kebab(s) == [i \in DOMAIN s |-> IF s[i] = "_" THEN "-" ELSE s[i]]
LowerFirst(s) == [i \in DOMAIN s |-> IF i = 1 THEN Lower(s[i]) ELSE s[i]]

(* s without its underscores, upper case after each; upperFirst says       *)
(* whether that goes for the beginning too.                                *)
Joined(s, upperFirst) ==
    LET char(i) == IF s[i] = "_" THEN << >>
                   ELSE IF (i = 1 /\ upperFirst) \/ (i > 1 /\ s[i - 1] = "_")
                     THEN <<Upper(s[i])>> ELSE <<s[i]>>
    IN  FlattenSeq([i \in DOMAIN s |-> char(i)])

(* The names that index.ts has for methods and events.                     *)
SnakeToCamel(s) == Joined(s, FALSE)

ToPascal(s) == Joined(s, TRUE)
ToCamel(s) == LowerFirst(ToPascal(s))

(* Fault: the first letter gets its underscore as well.                    *)
ToSnakeEager(s) ==
    FlattenSeq([i \in DOMAIN s |-> IF s[i] = "A" THEN <<"_", "a">> ELSE <<s[i]>>])

ToSnake(s) ==
    FlattenSeq([i \in DOMAIN s |->
                   IF s[i] = "A" /\ i > 1 THEN <<"_", "a">> ELSE <<Lower(s[i])>>])

NoRule == "none"
UnknownRule == "unknown"
Rule == {"lowercase", "UPPERCASE", "PascalCase", "camelCase", "snake_case",
         "SCREAMING_SNAKE_CASE", "kebab-case", "SCREAMING-KEBAB-CASE"}
AnyRule == Rule \cup {NoRule, UnknownRule}

ApplyRenameAll(ident, rule) ==
    CASE rule = NoRule                 -> ident
      [] rule = "lowercase"            -> ToLower(ident)
      [] rule = "UPPERCASE"            -> ToUpper(ident)
      [] rule = "PascalCase"           -> ToPascal(ident)
      [] rule = "camelCase"            -> ToCamel(ident)
      [] rule = "snake_case"           -> ToSnake(ident)
      [] rule = "SCREAMING_SNAKE_CASE" -> ToUpper(ToSnake(ident))
      [] rule = "kebab-case"           -> Kebab(ToSnake(ident))
      [] rule = "SCREAMING-KEBAB-CASE" -> ToUpper(Kebab(ToSnake(ident)))

-----------------------------------------------------------------------------
(* An item has a shape, a rename_all rule, perhaps generics, and members   *)
(* with an identifier, a rename (<< >> if there is none), the serde flags  *)
(* that matter, and perhaps a payload.                                     *)
Shape == {"struct", "unit", "tuple", "enum"}

(* The declaration names the member: skip is read on fields only.          *)
Declared(item, mem) == item.shape = "enum" \/ "skip" \notin mem.flags

(* The builder does not panic.  An unknown rule is looked at only where a  *)
(* member has no name of its own.                                          *)
Supported(item) ==
    /\ ~ item.generic
    /\ item.shape # "tuple"
    /\ \A i \in DOMAIN item.members :
          LET mem == item.members[i]
          IN  /\ item.shape = "struct" => "flatten" \notin mem.flags
              /\ item.shape = "enum" => ~ mem.payload
              /\ item.rule = UnknownRule /\ Declared(item, mem) => mem.rename # << >>

WireName(item, mem) ==
    IF mem.rename # << >> THEN mem.rename ELSE ApplyRenameAll(mem.ident, item.rule)

(* The keys, or alternatives, of the TypeScript type.                      *)
TsNames(item) ==
    FlattenSeq([i \in DOMAIN item.members |->
                   LET mem == item.members[i]
                   IN  IF Declared(item, mem) THEN <<WireName(item, mem)>> ELSE << >>])

(* A key that may stand unquoted.                                          *)
IsTsKey(name) == name # << >> /\ \A i \in DOMAIN name : name[i] # "-"

(* TypeScript can read the declaration of a struct with fields, or of an   *)
(* enum: keys are written without quotes, variants with; "{ , }" is no     *)
(* type, and neither is a union of nothing.                                *)
TsParses(item) ==
    /\ TsNames(item) # << >>
    /\ item.shape = "struct" => \A key \in ToSet(TsNames(item)) : IsTsKey(key)

-----------------------------------------------------------------------------
(* serde has one set of rules for fields and one for variants.             *)
ApplyToField(ident, rule) ==
    CASE rule \in {NoRule, "lowercase", "snake_case"}    -> ident
      [] rule \in {"UPPERCASE", "SCREAMING_SNAKE_CASE"}  -> ToUpper(ident)
      [] rule = "PascalCase"           -> Joined(ident, TRUE)
      [] rule = "camelCase"            -> LowerFirst(Joined(ident, TRUE))
      [] rule = "kebab-case"           -> Kebab(ident)
      [] rule = "SCREAMING-KEBAB-CASE" -> ToUpper(Kebab(ident))

(* Lower case, and an underscore before every upper-case letter but a      *)
(* leading one.                                                            *)
Separated(ident) ==
    FlattenSeq([i \in DOMAIN ident |->
                   IF i > 1 /\ ident[i] = "A" THEN <<"_", Lower(ident[i])>>
                                              ELSE <<Lower(ident[i])>>])

ApplyToVariant(ident, rule) ==
    CASE rule \in {NoRule, "PascalCase"} -> ident
      [] rule = "lowercase"              -> ToLower(ident)
      [] rule = "UPPERCASE"              -> ToUpper(ident)
      [] rule = "camelCase"              -> LowerFirst(ident)
      [] rule = "snake_case"             -> Separated(ident)
      [] rule = "SCREAMING_SNAKE_CASE"   -> ToUpper(Separated(ident))
      [] rule = "kebab-case"             -> Kebab(Separated(ident))
      [] rule = "SCREAMING-KEBAB-CASE"   -> Kebab(ToUpper(Separated(ident)))

(* The keys that serde writes, or the strings of which it writes one.      *)
SerdeName(item, mem) ==
    IF mem.rename # << >> THEN mem.rename
    ELSE IF item.shape = "enum" THEN ApplyToVariant(mem.ident, item.rule)
                                ELSE ApplyToField(mem.ident, item.rule)

SerdeNames(item) ==
    FlattenSeq([i \in DOMAIN item.members |->
                   LET mem == item.members[i]
                   IN  IF "skip" \in mem.flags THEN << >> ELSE <<SerdeName(item, mem)>>])
=============================================================================
