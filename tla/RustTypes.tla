----------------------------- MODULE RustTypes ------------------------------
(***************************************************************************)
(* The Rust types of what is sent and returned, as the code generator of   *)
(* draad tells them apart (types.rs): a base with the Option and Vec       *)
(* around it, outermost first.                                             *)
(***************************************************************************)
EXTENDS Naturals, Sequences

Of(outer, base) == [outer |-> outer, base |-> base]

(* The types of what is sent and returned.                                 *)
Layer == {"Option", "Vec"}
WireType == [outer : Seq(Layer), base : {"String", "i32", "Hit"}]

IsPrimitive(ty) == ty.outer = << >> /\ ty.base \in {"String", "i32"}

Unwrapped(ty) == Of(Tail(ty.outer), ty.base)

(* Primitives, Option<primitive> and Vec<primitive>.                       *)
IsQuerySafe(ty) ==
    \/ IsPrimitive(ty)
    \/ ty.outer # << >> /\ IsPrimitive(Unwrapped(ty))
=============================================================================
