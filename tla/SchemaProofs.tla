---------------------------- MODULE SchemaProofs ----------------------------
(***************************************************************************)
(* What TLAPS proves about Schema: that two compilers are enough to keep   *)
(* the two readers of the declarations in agreement, for any number of     *)
(* traits, whatever their files, modules, namespaces and methods; that the *)
(* names of a declaration are those of serde, for any number of members    *)
(* and identifiers of any length; and that a url carries its arguments,    *)
(* for templates and texts of any length.                                  *)
(***************************************************************************)
EXTENDS Schema, SequenceTheorems, WellFoundedInduction, TLAPS

(* The conditions of ClientMatchesServer, in the terms of the proof.       *)
Agreed ==
    /\ \A t \in traits : t.namespaces \in Seq(STRING)
    /\ \A t \in traits : AttrPathMatches(t)
    /\ \A t, u \in traits : Repeats(t) /\ Repeats(u) => t = u
    /\ RustcAccepts
    /\ TscAccepts

(* The first and the last of a list of one are the same.                   *)
LEMMA FirstIsLast ==
    ASSUME NEW names \in Seq(STRING), names # << >>, ~ (Len(names) > 1)
    PROVE  Last(names) = names[1]
  <1>1. Len(names) \in Nat /\ Len(names) # 0
    OBVIOUS
  <1>2. Len(names) = 1
    BY <1>1
  <1>. QED  BY <1>2 DEF Last

(* What the scanner and the macro read in an attribute differs only if it  *)
(* repeats its namespace.                                                  *)
LEMMA ReadAlike ==
    ASSUME NEW t, t.namespaces \in Seq(STRING), t.namespaces # << >>, ~ Repeats(t)
    PROVE  ExtractAttrNamespace(t) = ParseNamespace(t)
  BY FirstIsLast DEF ExtractAttrNamespace, ParseNamespace, Repeats

(* Scanned traits of one kind are told apart by the namespace that the     *)
(* scanner reads, or the class Api would have a field twice.               *)
LEMMA FieldsApart ==
    ASSUME TscAccepts, NEW t \in Scanned, NEW u \in Scanned, t.kind = u.kind,
           ExtractAttrNamespace(t) = ExtractAttrNamespace(u)
    PROVE  t = u
  <1>1. ApiField(t) = ApiField(u)
    BY DEF ApiField
  <1>. QED  BY <1>1 DEF TscAccepts, Distinct

(* A trait that the aggregator's reference resolves to is at the top of a  *)
(* file of the same stem, and so it was scanned itself.                    *)
LEMMA ReferencedIsScanned ==
    ASSUME Agreed, NEW t \in Scanned, NEW u \in Referenced(t)
    PROVE  /\ u \in Scanned /\ u \in traits
           /\ u.file.stem = t.file.stem /\ ~ u.file.nested /\ ~ u.inline
           /\ u.kind = t.kind
           /\ ParseNamespace(u) = ExtractAttrNamespace(t)
  <1>1. u \in traits /\ Export(u) = Reference(t)
    BY DEF Referenced
  <1>2. /\ Module(u) = [stem |-> t.file.stem, nested |-> FALSE, inline |-> FALSE]
        /\ u.kind = t.kind
        /\ ParseNamespace(u) = ExtractAttrNamespace(t)
    BY <1>1 DEF Export, Reference
  <1>3. u.file.stem = t.file.stem /\ ~ u.file.nested /\ ~ u.inline
    BY <1>2 DEF Module
  <1>4. u \in Scanned
    BY <1>1, <1>3 DEF Scanned, Agreed, RustcAccepts
  <1>. QED  BY <1>1, <1>2, <1>3, <1>4

(* The aggregator names the very trait that the scanner has read: another  *)
(* one could only bear the name if its attribute repeats its namespace,    *)
(* and then the name the scanner gives it is missing or taken.             *)
LEMMA ReferencedIsItself ==
    ASSUME Agreed, NEW t \in Scanned, NEW u \in Referenced(t)
    PROVE  u = t
  <1> SUFFICES ASSUME u # t PROVE FALSE
    OBVIOUS
  <1>1. /\ u \in Scanned /\ u \in traits
        /\ u.file.stem = t.file.stem /\ ~ u.file.nested /\ ~ u.inline
        /\ u.kind = t.kind
        /\ ParseNamespace(u) = ExtractAttrNamespace(t)
    BY ReferencedIsScanned
  <1>2. t \in traits /\ ~ t.inline
    BY DEF Scanned
  <1>3. ExtractAttrNamespace(u) # ExtractAttrNamespace(t)
    BY <1>1, FieldsApart DEF Agreed
  <1>4. Repeats(u) /\ ~ Repeats(t)
    <2>1. Repeats(u)
      BY <1>1, <1>3, ReadAlike DEF Agreed, RustcAccepts
    <2>. QED  BY <1>1, <1>2, <2>1 DEF Agreed
  <1>5. ParseNamespace(t) = ParseNamespace(u)
    BY <1>1, <1>2, <1>4, ReadAlike DEF Agreed, RustcAccepts
  <1>6. Export(t) # Export(u)
    BY <1>1, <1>2 DEF Agreed, RustcAccepts, Distinct
  <1>7. PICK v \in Referenced(u) : TRUE
    BY <1>1 DEF Agreed, RustcAccepts
  <1>8. /\ v \in Scanned /\ v \in traits
        /\ v.file.stem = u.file.stem /\ ~ v.file.nested /\ ~ v.inline
        /\ v.kind = u.kind
        /\ ParseNamespace(v) = ExtractAttrNamespace(u)
    BY <1>1, <1>7, ReferencedIsScanned
  <1>9. v # u
    BY <1>1, <1>3, <1>8
  <1>10. ~ Repeats(v)
    BY <1>1, <1>4, <1>8, <1>9 DEF Agreed
  <1>11. ExtractAttrNamespace(v) = ExtractAttrNamespace(u)
    BY <1>8, <1>10, ReadAlike DEF Agreed, RustcAccepts
  <1>. QED  BY <1>1, <1>8, <1>9, <1>11, FieldsApart DEF Agreed

(* What a scanned trait serves is what the client thinks it serves.        *)
LEMMA ServedAsScanned ==
    ASSUME Agreed, NEW t \in Scanned
    PROVE  /\ Referenced(t) = {t}
           /\ ParseNamespace(t) = ExtractAttrNamespace(t)
           /\ ~ Overwritten(t)
  <1>1. PICK u \in Referenced(t) : TRUE
    BY DEF Agreed, RustcAccepts
  <1>2. Referenced(t) = {t}
    BY <1>1, ReferencedIsItself
  <1>3. ParseNamespace(t) = ExtractAttrNamespace(t)
    BY <1>2, ReferencedIsScanned
  <1>4. ~ Overwritten(t)
    <2> SUFFICES ASSUME NEW v \in Scanned, t.kind = "api", v.kind = "events",
                        ApiField(v) = ApiField(t)
                 PROVE  FALSE
      BY DEF Overwritten
    <2>1. v = t
      BY DEF Agreed, TscAccepts, Distinct
    <2>. QED  BY <2>1
  <1>. QED  BY <1>2, <1>3, <1>4

(* Only traits that may be declared are.                                   *)
LEMMA TraitsDeclared == Spec => [](traits \subseteq Traits)
  <1>1. Init => traits \subseteq Traits
    BY DEF Init
  <1>2. traits \subseteq Traits /\ [Next]_vars => (traits \subseteq Traits)'
    <2> SUFFICES ASSUME traits \subseteq Traits, [Next]_vars
                 PROVE  traits' \subseteq Traits
      OBVIOUS
    <2>1. ASSUME NEW t \in Traits, DeclareTrait(t) PROVE traits' \subseteq Traits
      BY <2>1 DEF DeclareTrait
    <2>2. ASSUME UNCHANGED traits PROVE traits' \subseteq Traits
      BY <2>2
    <2>. QED
      BY <2>1, <2>2
         DEF Next, DeclareItem, AddField, AddVariant, AddSegment, SetParams, vars
  <1>. QED  BY <1>1, <1>2, PTL DEF Spec

(* If both compilers accept a crate, then every call and topic of the      *)
(* client is served by the very trait that declares it, and everything     *)
(* that is served is within the client's reach.                            *)
THEOREM TwoReadersAgree == Spec => []ClientMatchesServer
  <1>1. traits \subseteq Traits => ClientMatchesServer
    <2> SUFFICES ASSUME Agreed PROVE Reached = Mounted
      BY TraitsAssumption DEF ClientMatchesServer, Agreed
    <2>1. \A t \in Scanned : /\ Referenced(t) = {t}
                             /\ ParseNamespace(t) = ExtractAttrNamespace(t)
                             /\ ~ Overwritten(t)
      BY ServedAsScanned
    <2>2. Mounted = UNION {Served(t) : t \in Scanned}
      <3>1. UNION {Referenced(t) : t \in Scanned} = Scanned
        BY <2>1
      <3>. QED  BY <3>1 DEF Mounted
    <2>3. Reached = UNION {Served(t) : t \in Scanned}
      <3>. DEFINE Called(t) ==
                {[kind |-> t.kind, namespace |-> ExtractAttrNamespace(t),
                  name |-> m.name, verb |-> m.verb, trait |-> t] : m \in t.methods}
      <3>1. {u \in Scanned : ~ Overwritten(u)} = Scanned
        BY <2>1
      <3>2. \A t \in Scanned : Called(t) = Served(t)
        BY <2>1 DEF Served, RouteSegment
      <3>3. Reached = UNION {Called(t) : t \in {u \in Scanned : ~ Overwritten(u)}}
        BY DEF Reached
      <3>. HIDE DEF Called
      <3>. QED  BY <3>1, <3>2, <3>3
    <2>. QED  BY <2>2, <2>3
  <1>. QED  BY <1>1, TraitsDeclared, PTL

-----------------------------------------------------------------------------
(* What FlattenSeq makes of a sequence of sequences, for every length: by  *)
(* a least length for which it does not, as the induction rules cannot be  *)
(* used.                                                                   *)
LEMMA LeastOf ==
    ASSUME NEW T \in SUBSET Nat, T # {}
    PROVE  \E n \in T : \A k \in T : n <= k
  <1>1. PICK n \in T : \A k \in T : <<k, n>> \notin OpToRel(<, Nat)
    BY NatLessThanWellFounded, WFMin, Zenon
  <1>2. \A k \in T : ~ (k < n)
    BY <1>1, Zenon DEF OpToRel
  <1>. QED  BY <1>2

(* f[k] is what the first k steps make of the beginning.                   *)
Folds(f, n, first, step) ==
    f[0] = first /\ \A k \in 1 .. n : f[k] = step[k][f[k - 1]]

(* A fold over n steps exists.                                             *)
LEMMA FoldExists ==
    ASSUME NEW n \in Nat, NEW V, NEW first \in V, NEW step \in [1 .. n -> [V -> V]]
    PROVE  \E f \in [0 .. n -> V] : Folds(f, n, first, step)
  <1>. DEFINE Up(m) == \E f \in [0 .. m -> V] : Folds(f, m, first, step)
              Bad == {m \in 0 .. n : ~ Up(m)}
  <1>1. ASSUME Bad # {} PROVE FALSE
    <2>1. PICK m \in Bad : \A k \in Bad : m <= k
      <3>1. Bad \in SUBSET Nat
        OBVIOUS
      <3>. HIDE DEF Bad
      <3>. QED  BY <1>1, <3>1, LeastOf
    <2>2. m # 0
      <3>. SUFFICES ASSUME m = 0 PROVE FALSE
        OBVIOUS
      <3>. DEFINE f == [k \in 0 .. 0 |-> first]
      <3>1. f \in [0 .. 0 -> V] /\ Folds(f, 0, first, step)
        BY DEF Folds
      <3>. QED  BY <2>1, <3>1
    <2>3. PICK f \in [0 .. m - 1 -> V] : Folds(f, m - 1, first, step)
      <3>1. m - 1 \in 0 .. n /\ m - 1 \notin Bad
        BY <2>1, <2>2
      <3>. QED BY <3>1
    <2>. DEFINE g == [k \in 0 .. m |-> IF k = m THEN step[m][f[m - 1]] ELSE f[k]]
    <2>4. m \in 1 .. n /\ m - 1 \in 0 .. m - 1
      BY <2>1, <2>2
    <2>5. g \in [0 .. m -> V]
      BY <2>3, <2>4
    <2>6. Folds(g, m, first, step)
      BY <2>3, <2>4 DEF Folds
    <2>. QED  BY <2>1, <2>5, <2>6
  <1>2. Up(n)
    <2>1. n \in 0 .. n /\ Bad = {}
      BY <1>1
    <2>. HIDE DEF Up
    <2>. QED  BY <2>1
  <1>. QED  BY <1>2

(* f[k] is what FlattenSeq makes of the first k elements of ss.            *)
Flattens(f, ss) ==
    /\ f[0] = << >>
    /\ \A k \in 1 .. Len(ss) : f[k] = f[k - 1] \o ss[k]

LEMMA Flattened ==
    ASSUME NEW S, NEW ss \in Seq(Seq(S))
    PROVE  \E f \in [0 .. Len(ss) -> Seq(S)] :
               Flattens(f, ss) /\ FlattenSeq(ss) = f[Len(ss)]
  <1>. DEFINE n == Len(ss)
              step == [k \in 1 .. n |-> [v \in Seq(S) |-> v \o ss[k]]]
  <1>1. n \in Nat /\ << >> \in Seq(S) /\ \A k \in 1 .. n : ss[k] \in Seq(S)
    OBVIOUS
  <1>2. step \in [1 .. n -> [Seq(S) -> Seq(S)]]
    BY <1>1
  <1>3. PICK f \in [0 .. n -> Seq(S)] :
            f[0] = << >> /\ \A k \in 1 .. n : f[k] = step[k][f[k - 1]]
    <2>. DEFINE V == Seq(S)
                first == << >>
    <2>1. n \in Nat
      BY <1>1
    <2>2. first \in V
      BY <1>1
    <2>3. step \in [1 .. n -> [V -> V]]
      BY <1>2
    <2>. HIDE DEF step, n, V, first
    <2>4. \E f \in [0 .. n -> V] : Folds(f, n, first, step)
      BY <2>1, <2>2, <2>3, FoldExists, Zenon
    <2>. QED  BY <2>4 DEF V, first, Folds
  <1>4. \A k \in 1 .. n : f[k - 1] \in Seq(S) /\ f[k] = f[k - 1] \o ss[k]
    <2>. SUFFICES ASSUME NEW k \in 1 .. n
                  PROVE  f[k - 1] \in Seq(S) /\ f[k] = f[k - 1] \o ss[k]
      OBVIOUS
    <2>. HIDE DEF n, step
    <2>0. k - 1 \in 0 .. n
      BY <1>1
    <2>1. f[k - 1] \in Seq(S) /\ f[k] = step[k][f[k - 1]]
      BY <1>3, <2>0
    <2>2. step[k] = [v \in Seq(S) |-> v \o ss[k]]
      BY DEF step
    <2>. QED  BY <2>1, <2>2
  <1>. HIDE DEF step
  <1>5. Flattens(f, ss)
    BY <1>3, <1>4 DEF Flattens
  <1>6. CASE n = 0
    BY <1>3, <1>5, <1>6 DEF FlattenSeq
  <1>7. CASE n # 0
    <2>. DEFINE Fits(h) == h = [i \in 1 .. n |-> IF i = 1 THEN ss[i] ELSE h[i - 1] \o ss[i]]
                g == [i \in 1 .. n |-> f[i]]
                c == CHOOSE h : Fits(h)
    <2>1. Fits(g)
      <3>1. \A i \in 1 .. n : g[i] = IF i = 1 THEN ss[i] ELSE g[i - 1] \o ss[i]
        <4>. TAKE i \in 1 .. n
        <4>. HIDE DEF n
        <4>1. CASE i = 1
          <5>1. f[1] = << >> \o ss[1] /\ ss[1] \in Seq(S)
            <6>1. f[1] = f[1 - 1] \o ss[1]
              BY <1>4, <4>1
            <6>2. f[1 - 1] = << >>
              BY <1>3
            <6>. QED  BY <1>1, <4>1, <6>1, <6>2
          <5>2. << >> \o ss[1] = ss[1]
            BY <5>1, ConcatEmptySeq
          <5>. QED  BY <4>1, <5>1, <5>2
        <4>2. CASE i # 1
          <5>1. i - 1 \in 1 .. n
            BY <1>1, <4>2
          <5>2. g[i] = f[i] /\ g[i - 1] = f[i - 1]
            BY <5>1
          <5>. HIDE DEF g
          <5>. QED  BY <1>4, <4>2, <5>2
        <4>. QED  BY <4>1, <4>2
      <3>. QED  BY <3>1
    <2>2. FlattenSeq(ss) = c[n]
      BY <1>7 DEF FlattenSeq
    <2>3. Fits(c)
      <3>. HIDE DEF Fits
      <3>. QED  BY <2>1
    <2>. DEFINE Bad == {k \in 1 .. n : c[k] # g[k]}
    <2>4. ASSUME Bad # {} PROVE FALSE
      <3>. HIDE DEF c, g
      <3>1. PICK k \in Bad : \A j \in Bad : k <= j
        <4>1. Bad \in SUBSET Nat
          OBVIOUS
        <4>. HIDE DEF Bad
        <4>. QED  BY <2>4, <4>1, LeastOf
      <3>2. k = 1 \/ c[k - 1] = g[k - 1]
        BY <3>1
      <3>3. /\ c[k] = IF k = 1 THEN ss[k] ELSE c[k - 1] \o ss[k]
            /\ g[k] = IF k = 1 THEN ss[k] ELSE g[k - 1] \o ss[k]
        BY <2>1, <2>3, <3>1
      <3>. QED  BY <3>1, <3>2, <3>3
    <2>5. c[n] = g[n]
      <3>. HIDE DEF c, g
      <3>. QED  BY <1>1, <1>7, <2>4
    <2>6. g[n] = f[n]
      BY <1>1, <1>7
    <2>. HIDE DEF c, g
    <2>. QED  BY <1>5, <2>2, <2>5, <2>6
  <1>. QED  BY <1>6, <1>7

LEMMA FlattensStep ==
    ASSUME NEW f, NEW ss, Flattens(f, ss), NEW k \in 1 .. Len(ss)
    PROVE  f[k] = f[k - 1] \o ss[k]
  BY DEF Flattens

LEMMA FlattensTyped ==
    ASSUME NEW S, NEW ss \in Seq(Seq(S)), NEW f \in [0 .. Len(ss) -> Seq(S)],
           NEW k \in 1 .. Len(ss)
    PROVE  /\ k \in 0 .. Len(ss) /\ k - 1 \in 0 .. Len(ss)
           /\ f[k] \in Seq(S) /\ f[k - 1] \in Seq(S) /\ ss[k] \in Seq(S)
  <1>. DEFINE T == Seq(S)
  <1>1. ss \in Seq(T) /\ f \in [0 .. Len(ss) -> T]
    OBVIOUS
  <1>. HIDE DEF T
  <1>2. Len(ss) \in Nat /\ ss[k] \in T
    BY <1>1
  <1>3. k \in 0 .. Len(ss) /\ k - 1 \in 0 .. Len(ss)
    BY <1>2
  <1>4. f[k] \in T /\ f[k - 1] \in T
    BY <1>1, <1>3
  <1>. QED  BY <1>2, <1>3, <1>4 DEF T

LEMMA ElementsOf ==
    ASSUME NEW T, NEW s \in Seq(T)
    PROVE  /\ Len(s) \in Nat /\ DOMAIN s = 1 .. Len(s)
           /\ s = [i \in DOMAIN s |-> s[i]]
           /\ \A i \in DOMAIN s : s[i] \in T
  OBVIOUS

LEMMA FunctionIsSeq ==
    ASSUME NEW n \in Nat, NEW T, NEW f \in [1 .. n -> T]
    PROVE  f \in Seq(T) /\ Len(f) = n
  OBVIOUS

(* There is one such f only.                                               *)
LEMMA FlattensTo ==
    ASSUME NEW S, NEW ss \in Seq(Seq(S)), NEW f, Flattens(f, ss)
    PROVE  FlattenSeq(ss) = f[Len(ss)] /\ FlattenSeq(ss) \in Seq(S)
  <1>1. PICK g \in [0 .. Len(ss) -> Seq(S)] :
            Flattens(g, ss) /\ FlattenSeq(ss) = g[Len(ss)]
    BY Flattened
  <1>. DEFINE Bad == {k \in 0 .. Len(ss) : f[k] # g[k]}
  <1>2. Len(ss) \in Nat
    OBVIOUS
  <1>3. ASSUME Bad # {} PROVE FALSE
    <2>1. PICK k \in Bad : \A j \in Bad : k <= j
      <3>1. Bad \in SUBSET Nat
        BY <1>2
      <3>. HIDE DEF Bad
      <3>. QED  BY <1>3, <3>1, LeastOf
    <2>2. k # 0
      BY <1>1, <2>1 DEF Flattens
    <2>3. f[k - 1] = g[k - 1]
      BY <1>2, <2>1, <2>2
    <2>4. k \in 1 .. Len(ss)
      BY <1>2, <2>1, <2>2
    <2>5. f[k] = f[k - 1] \o ss[k] /\ g[k] = g[k - 1] \o ss[k]
      BY <1>1, <2>4, FlattensStep
    <2>. QED  BY <2>1, <2>3, <2>5
  <1>4. f[Len(ss)] = g[Len(ss)]
    BY <1>2, <1>3
  <1>. QED  BY <1>1, <1>2, <1>4

LEMMA FlattenSingles ==
    ASSUME NEW S, NEW s \in Seq(S)
    PROVE  FlattenSeq([i \in DOMAIN s |-> <<s[i]>>]) = s
  <1>. DEFINE ss == [i \in DOMAIN s |-> <<s[i]>>]
              f == [k \in 0 .. Len(s) |-> SubSeq(s, 1, k)]
  <1>1. ss \in Seq(Seq(S)) /\ Len(ss) = Len(s) /\ Len(s) \in Nat
    <2>1. DOMAIN s = 1 .. Len(s) /\ Len(s) \in Nat /\ \A i \in DOMAIN s : <<s[i]>> \in Seq(S)
      OBVIOUS
    <2>2. ss \in [1 .. Len(s) -> Seq(S)]
      BY <2>1
    <2>. HIDE DEF ss
    <2>. QED  BY <2>1, <2>2, FunctionIsSeq
  <1>2. Flattens(f, ss)
    <2>1. f[0] = << >>
      <3>1. SubSeq(s, 1, 0) = << >>
        BY SubSeqEmpty
      <3>. QED  BY <1>1, <3>1
    <2>2. ASSUME NEW k \in 1 .. Len(s) PROVE f[k] = f[k - 1] \o ss[k]
      <3>1. SubSeq(s, 1, k) = SubSeq(s, 1, k - 1) \o <<s[k]>>
        BY <1>1, SubSeqRecursiveSecond
      <3>2. k \in 0 .. Len(s) /\ k - 1 \in 0 .. Len(s) /\ ss[k] = <<s[k]>>
        BY <1>1
      <3>. HIDE DEF ss
      <3>. QED  BY <3>1, <3>2
    <2>. HIDE DEF f, ss
    <2>. QED  BY <1>1, <2>1, <2>2 DEF Flattens
  <1>3. FlattenSeq(ss) = f[Len(ss)]
    <2>. HIDE DEF f, ss
    <2>. QED  BY <1>1, <1>2, FlattensTo
  <1>4. f[Len(s)] = s
    BY <1>1, SubSeqFull
  <1>. HIDE DEF f
  <1>. QED  BY <1>1, <1>3, <1>4

LEMMA FlattenConcat ==
    ASSUME NEW S, NEW ss \in Seq(Seq(S)), NEW tt \in Seq(Seq(S))
    PROVE  /\ ss \o tt \in Seq(Seq(S))
           /\ FlattenSeq(ss \o tt) = FlattenSeq(ss) \o FlattenSeq(tt)
  <1>1. PICK f \in [0 .. Len(ss) -> Seq(S)] :
            Flattens(f, ss) /\ FlattenSeq(ss) = f[Len(ss)]
    BY Flattened
  <1>2. PICK g \in [0 .. Len(tt) -> Seq(S)] :
            Flattens(g, tt) /\ FlattenSeq(tt) = g[Len(tt)]
    BY Flattened
  <1>. DEFINE m == Len(ss)
              n == Len(tt)
              h == [k \in 0 .. m + n |-> IF k <= m THEN f[k] ELSE f[m] \o g[k - m]]
  <1>3. /\ m \in Nat /\ n \in Nat
        /\ ss \o tt \in Seq(Seq(S)) /\ Len(ss \o tt) = m + n
        /\ \A k \in 1 .. m : ss[k] \in Seq(S)
        /\ \A k \in 1 .. n : tt[k] \in Seq(S)
    OBVIOUS
  <1>4. Flattens(h, ss \o tt)
    <2>. HIDE DEF m, n
    <2>1. h[0] = << >>
      BY <1>1, <1>3 DEF Flattens
    <2>2. ASSUME NEW k \in 1 .. m + n PROVE h[k] = h[k - 1] \o (ss \o tt)[k]
      <3>1. CASE k <= m
        <4>1. h[k] = f[k] /\ h[k - 1] = f[k - 1] /\ k \in 1 .. m
          BY <1>3, <3>1
        <4>2. (ss \o tt)[k] = ss[k]
          BY <1>3, <4>1 DEF m, n
        <4>. HIDE DEF h
        <4>. QED  BY <1>1, <4>1, <4>2 DEF Flattens, m
      <3>2. CASE ~ (k <= m)
        <4>1. h[k] = f[m] \o g[k - m] /\ k - m \in 1 .. n /\ k - m - 1 \in 0 .. n
          BY <1>3, <3>2
        <4>2. (ss \o tt)[k] = tt[k - m]
          BY <1>3, <3>2, <4>1 DEF m, n
        <4>. DEFINE x == k - m
        <4>x. x \in 1 .. n
          BY <4>1
        <4>3. f[m] \in Seq(S) /\ g[x - 1] \in Seq(S) /\ tt[x] \in Seq(S)
          <5>1. f[m] \in Seq(S)
            BY <1>1, FlattensTo DEF m
          <5>. HIDE DEF x
          <5>. QED  BY <1>2, <4>x, <5>1, FlattensTyped DEF n
        <4>4. g[x] = g[x - 1] \o tt[x]
          <5>. HIDE DEF x
          <5>. QED  BY <1>2, <4>x, FlattensStep DEF n
        <4>5. h[k - 1] = f[m] \o g[k - m - 1]
          <5>1. CASE k - 1 = m
            <6>1. h[k - 1] = f[m] /\ k - m - 1 = 0
              BY <1>3, <5>1
            <6>2. g[0] = << >>
              BY <1>2 DEF Flattens
            <6>. QED  BY <4>3, <6>1, <6>2, ConcatEmptySeq
          <5>2. CASE k - 1 # m
            <6>1. k - 1 \in 0 .. m + n /\ ~ (k - 1 <= m) /\ (k - 1) - m = k - m - 1
              BY <1>3, <3>2, <5>2
            <6>. QED  BY <6>1
          <5>. QED  BY <5>1, <5>2
        <4>. HIDE DEF h, x
        <4>6. (f[m] \o g[x - 1]) \o tt[x] = f[m] \o (g[x - 1] \o tt[x])
          <5>. DEFINE a == f[m]
                      b == g[x - 1]
                      c == tt[x]
          <5>1. a \in Seq(S) /\ b \in Seq(S) /\ c \in Seq(S)
            BY <4>3
          <5>. HIDE DEF a, b, c
          <5>2. (a \o b) \o c = a \o (b \o c)
            BY <5>1, ConcatAssociative
          <5>. QED  BY <5>2 DEF a, b, c
        <4>. QED  BY <4>1, <4>2, <4>4, <4>5, <4>6 DEF x
      <3>. QED  BY <3>1, <3>2
    <2>. HIDE DEF h
    <2>. QED  BY <1>3, <2>1, <2>2 DEF Flattens
  <1>5. h[m + n] = f[m] \o g[n]
    <2>. HIDE DEF m, n
    <2>1. f[m] \in Seq(S) /\ (n = 0 => g[n] = << >>)
      BY <1>1, <1>2, <1>3 DEF Flattens, m
    <2>2. CASE n = 0
      <3>1. h[m + n] = f[m]
        BY <1>3, <2>2
      <3>. QED  BY <2>1, <2>2, <3>1, ConcatEmptySeq
    <2>3. CASE n # 0
      <3>1. m + n \in 0 .. m + n /\ ~ (m + n <= m) /\ (m + n) - m = n
        BY <1>3, <2>3
      <3>. QED  BY <3>1
    <2>. QED  BY <2>2, <2>3
  <1>. HIDE DEF h
  <1>6. FlattenSeq(ss \o tt) = h[Len(ss \o tt)]
    BY <1>3, <1>4, FlattensTo
  <1>. QED  BY <1>1, <1>2, <1>3, <1>5, <1>6

LEMMA InSecond ==
    ASSUME NEW S, NEW a \in Seq(S), NEW b \in Seq(S), NEW x \in DOMAIN (a \o b),
           ~ (x <= Len(a))
    PROVE  x - Len(a) \in DOMAIN b /\ (a \o b)[x] = b[x - Len(a)]
  OBVIOUS

(* Whatever is in the result comes from one of the sequences.              *)
LEMMA FlattenMembers ==
    ASSUME NEW S, NEW ss \in Seq(Seq(S)), NEW j \in DOMAIN FlattenSeq(ss)
    PROVE  \E i \in DOMAIN ss : FlattenSeq(ss)[j] \in ToSet(ss[i])
  <1>1. PICK f \in [0 .. Len(ss) -> Seq(S)] :
            Flattens(f, ss) /\ FlattenSeq(ss) = f[Len(ss)]
    BY Flattened
  <1>. DEFINE Found(k) == \A x \in DOMAIN f[k] : \E i \in DOMAIN ss : f[k][x] \in ToSet(ss[i])
              Bad == {k \in 0 .. Len(ss) : ~ Found(k)}
  <1>2. Len(ss) \in Nat
    OBVIOUS
  <1>3. ASSUME Bad # {} PROVE FALSE
    <2>1. PICK k \in Bad : \A x \in Bad : k <= x
      <3>1. Bad \in SUBSET Nat
        BY <1>2
      <3>. HIDE DEF Bad
      <3>. QED  BY <1>3, <3>1, LeastOf
    <2>2. k # 0
      <3>1. f[0] = << >> /\ DOMAIN << >> = {}
        BY <1>1 DEF Flattens
      <3>. QED  BY <2>1, <3>1
    <2>3. k \in 1 .. Len(ss) /\ k - 1 \in 0 .. Len(ss)
      BY <1>2, <2>1, <2>2
    <2>4. Found(k - 1)
      <3>1. k - 1 \notin Bad
        <4>. HIDE DEF Bad
        <4>. QED  BY <2>1, <2>3
      <3>. QED  BY <2>3, <3>1
    <2>. HIDE DEF Bad
    <2>5. f[k] = f[k - 1] \o ss[k] /\ f[k - 1] \in Seq(S) /\ ss[k] \in Seq(S)
      BY <1>1, <2>3, FlattensStep, FlattensTyped
    <2>6. Found(k)
      <3>. SUFFICES ASSUME NEW x \in DOMAIN f[k]
                    PROVE  \E i \in DOMAIN ss : f[k][x] \in ToSet(ss[i])
        OBVIOUS
      <3>1. CASE x <= Len(f[k - 1])
        <4>1. x \in DOMAIN f[k - 1] /\ f[k][x] = f[k - 1][x]
          BY <2>5, <3>1
        <4>. QED  BY <2>4, <4>1
      <3>2. CASE ~ (x <= Len(f[k - 1]))
        <4>1. x - Len(f[k - 1]) \in DOMAIN ss[k] /\ f[k][x] = ss[k][x - Len(f[k - 1])]
          <5>. DEFINE a == f[k - 1]
                      b == ss[k]
          <5>1. /\ a \in Seq(S) /\ b \in Seq(S) /\ f[k] = a \o b
                /\ x \in DOMAIN (a \o b) /\ ~ (x <= Len(a))
            BY <2>5, <3>2
          <5>. HIDE DEF a, b
          <5>2. x - Len(a) \in DOMAIN b /\ (a \o b)[x] = b[x - Len(a)]
            BY <5>1, InSecond
          <5>. QED  BY <5>1, <5>2 DEF a, b
        <4>2. f[k][x] \in ToSet(ss[k]) /\ k \in DOMAIN ss
          BY <1>2, <2>3, <4>1 DEF ToSet
        <4>. QED  BY <4>2
      <3>. QED  BY <3>1, <3>2
    <2>. HIDE DEF Found
    <2>. QED  BY <2>1, <2>6 DEF Bad
  <1>4. Found(Len(ss))
    <2>. HIDE DEF Found
    <2>. QED  BY <1>2, <1>3
  <1>. QED  BY <1>1, <1>4

-----------------------------------------------------------------------------
(* What may be declared.                                                   *)
Field == [ident : FieldIdents, rename : Renames, flags : SUBSET {"skip", "flatten"}]
Variant == [ident : VariantIdents, rename : Renames, flags : SUBSET {"skip"},
            payload : BOOLEAN]
Items(shapes, members) ==
    [shape : shapes, rule : AnyRule, generic : BOOLEAN, members : members]

ItemInv ==
    \/ item = NoItem
    \/ item \in Items({"struct"}, Seq(Field))
    \/ item \in Items({"enum"}, Seq(Variant))
    \/ item \in Items({"unit", "tuple"}, {<< >>})

LEMMA ItemsDeclared == Spec => []ItemInv
  <1>1. Init => ItemInv
    BY DEF Init, ItemInv
  <1>2. ItemInv /\ [Next]_vars => ItemInv'
    <2>. SUFFICES ASSUME ItemInv, [Next]_vars PROVE ItemInv'
      OBVIOUS
    <2>1. ASSUME NEW shape \in Shape, NEW rule \in AnyRule, NEW generic \in BOOLEAN,
                 DeclareItem(shape, rule, generic)
          PROVE  ItemInv'
      <3>1. item' = [shape |-> shape, rule |-> rule, generic |-> generic, members |-> << >>]
        BY <2>1 DEF DeclareItem
      <3>2. << >> \in Seq(Field) /\ << >> \in Seq(Variant)
        OBVIOUS
      <3>3. shape \in {"struct"} \/ shape \in {"enum"} \/ shape \in {"unit", "tuple"}
        BY DEF Shape
      <3>4. \A shapes, members : shape \in shapes /\ << >> \in members
                => item' \in Items(shapes, members)
        BY <3>1 DEF Items
      <3>. QED  BY <3>2, <3>3, <3>4 DEF ItemInv
    <2>2. ASSUME NEW ident \in FieldIdents, NEW rename \in Renames,
                 NEW flags \in SUBSET {"skip", "flatten"}, AddField(ident, rename, flags)
          PROVE  ItemInv'
      <3>. DEFINE mem == [ident |-> ident, rename |-> rename, flags |-> flags]
      <3>1. item.shape = "struct" /\ item' = [item EXCEPT !.members = Append(@, mem)]
        BY <2>2 DEF AddField
      <3>2. item \in Items({"struct"}, Seq(Field))
        BY <3>1 DEF ItemInv, Items, NoItem
      <3>3. mem \in Field
        BY DEF Field
      <3>. HIDE DEF mem
      <3>4. item.members \in Seq(Field)
        BY <3>2 DEF Items
      <3>5. Append(item.members, mem) \in Seq(Field)
        BY <3>3, <3>4
      <3>6. item' \in Items({"struct"}, Seq(Field))
        BY <3>1, <3>2, <3>5 DEF Items
      <3>. QED  BY <3>6 DEF ItemInv
    <2>3. ASSUME NEW ident \in VariantIdents, NEW rename \in Renames,
                 NEW flags \in SUBSET {"skip"}, NEW payload \in BOOLEAN,
                 AddVariant(ident, rename, flags, payload)
          PROVE  ItemInv'
      <3>. DEFINE mem == [ident |-> ident, rename |-> rename, flags |-> flags,
                          payload |-> payload]
      <3>1. item.shape = "enum" /\ item' = [item EXCEPT !.members = Append(@, mem)]
        BY <2>3 DEF AddVariant
      <3>2. item \in Items({"enum"}, Seq(Variant))
        BY <3>1 DEF ItemInv, Items, NoItem
      <3>3. mem \in Variant
        BY DEF Variant
      <3>. HIDE DEF mem
      <3>4. item.members \in Seq(Variant)
        BY <3>2 DEF Items
      <3>5. Append(item.members, mem) \in Seq(Variant)
        BY <3>3, <3>4
      <3>6. item' \in Items({"enum"}, Seq(Variant))
        BY <3>1, <3>2, <3>5 DEF Items
      <3>. QED  BY <3>6 DEF ItemInv
    <2>4. ASSUME UNCHANGED item PROVE ItemInv'
      BY <2>4 DEF ItemInv
    <2>. QED
      BY <2>1, <2>2, <2>3, <2>4 DEF Next, DeclareTrait, AddSegment, SetParams, vars
  <1>. QED  BY <1>1, <1>2, PTL DEF Spec

-----------------------------------------------------------------------------
(* Identifiers in the style of their kind are what the rules leave alone.  *)
LEMMA FieldStyle ==
    ASSUME NEW s \in FieldIdents
    PROVE  /\ ToLower(s) = s
           /\ ToSnake(s) = s
  <1>1. s \in Seq({"a", "_"})
    BY IdentsAssumption
  <1>2. \A i \in DOMAIN s : s[i] # "A" /\ Lower(s[i]) = s[i]
    <2>. DEFINE T == {"a", "_"}
    <2>1. \A i \in DOMAIN s : s[i] \in T
      <3>. HIDE DEF T
      <3>. QED  BY <1>1, ElementsOf DEF T
    <2>. QED  BY <2>1 DEF Lower
  <1>3. s = [i \in DOMAIN s |-> s[i]]
    BY <1>1, ElementsOf
  <1>4. ToLower(s) = s
    BY <1>2, <1>3 DEF ToLower
  <1>5. [i \in DOMAIN s |-> IF s[i] = "A" /\ i > 1 THEN <<"_", "a">> ELSE <<Lower(s[i])>>]
            = [i \in DOMAIN s |-> <<s[i]>>]
    BY <1>2
  <1>6. ToSnake(s) = s
    BY <1>1, <1>5, FlattenSingles DEF ToSnake
  <1>. QED  BY <1>4, <1>6

LEMMA VariantStyle ==
    ASSUME NEW s \in VariantIdents
    PROVE  /\ ToPascal(s) = s
           /\ ToSnake(s) = Separated(s)
           /\ \A t : ToUpper(Kebab(t)) = Kebab(ToUpper(t))
  <1>1. s \in Seq({"a", "A"}) /\ s # << >> /\ s[1] = "A"
    BY IdentsAssumption
  <1>2. \A i \in DOMAIN s : i \in Nat /\ s[i] # "_" /\ (i > 1 => i - 1 \in DOMAIN s)
    <2>. DEFINE T == {"a", "A"}
    <2>1. \A i \in DOMAIN s : s[i] \in T
      <3>. HIDE DEF T
      <3>. QED  BY <1>1, ElementsOf DEF T
    <2>2. \A i \in DOMAIN s : s[i] # "_"
      BY <2>1
    <2>3. Len(s) \in Nat /\ DOMAIN s = 1 .. Len(s)
      BY <1>1
    <2>4. \A i \in 1 .. Len(s) : i \in Nat /\ (i > 1 => i - 1 \in 1 .. Len(s))
      BY <2>3
    <2>. QED  BY <2>2, <2>3, <2>4
  <1>3. ToPascal(s) = s
    <2>. DEFINE char(i) == IF s[i] = "_" THEN << >>
                           ELSE IF (i = 1 /\ TRUE) \/ (i > 1 /\ s[i - 1] = "_")
                             THEN <<Upper(s[i])>> ELSE <<s[i]>>
    <2>1. \A i \in DOMAIN s : char(i) = <<s[i]>>
      BY <1>1, <1>2 DEF Upper
    <2>2. [i \in DOMAIN s |-> char(i)] = [i \in DOMAIN s |-> <<s[i]>>]
      BY <2>1
    <2>3. ToPascal(s) = FlattenSeq([i \in DOMAIN s |-> char(i)])
      BY DEF ToPascal, Joined
    <2>. HIDE DEF char
    <2>. QED  BY <1>1, <2>2, <2>3, FlattenSingles
  <1>4. ToSnake(s) = Separated(s)
    <2>1. [i \in DOMAIN s |-> IF s[i] = "A" /\ i > 1 THEN <<"_", "a">> ELSE <<Lower(s[i])>>]
             = [i \in DOMAIN s |-> IF i > 1 /\ s[i] = "A" THEN <<"_", Lower(s[i])>>
                                                         ELSE <<Lower(s[i])>>]
      BY DEF Lower
    <2>. QED  BY <2>1 DEF ToSnake, Separated
  <1>5. \A t : ToUpper(Kebab(t)) = Kebab(ToUpper(t))
    BY DEF ToUpper, Kebab, Upper
  <1>. QED  BY <1>3, <1>4, <1>5

(* A field has the name that serde gives it, and so has a variant.         *)
LEMMA FieldNames ==
    ASSUME NEW ident \in FieldIdents, NEW rule \in Rule \cup {NoRule}
    PROVE  ApplyRenameAll(ident, rule) = ApplyToField(ident, rule)
  BY FieldStyle DEF Rule, NoRule, ApplyRenameAll, ApplyToField, ToPascal, ToCamel

LEMMA VariantNames ==
    ASSUME NEW ident \in VariantIdents, NEW rule \in Rule \cup {NoRule}
    PROVE  ApplyRenameAll(ident, rule) = ApplyToVariant(ident, rule)
  BY VariantStyle DEF Rule, NoRule, ApplyRenameAll, ApplyToVariant, ToCamel

(* What the builder accepts has in TypeScript the very names that serde    *)
(* writes, or, for an enum, may write, and what has no such declaration    *)
(* becomes one that does not parse, whatever the members, their names and  *)
(* their number.                                                           *)
THEOREM TypesMirrorSerde == Spec => []TyMirrorsSerde
  <1>1. ItemInv => TyMirrorsSerde
    <2>. SUFFICES ASSUME ItemInv, item.shape \in {"struct", "enum"}, Supported(item)
                  PROVE  TyMirrorsSerde
      BY DEF TyMirrorsSerde
    <2>. DEFINE D == DOMAIN item.members
                mem(i) == item.members[i]
    <2>1. item.rule \in AnyRule
      BY DEF ItemInv, Items, NoItem
    <2>4. ASSUME NEW i \in D, Declared(item, mem(i)), mem(i).rename = << >>
          PROVE  item.rule \in Rule \cup {NoRule}
      BY <2>1, <2>4 DEF Supported, AnyRule
    <2>2. CASE item.shape = "struct"
      <3>1. \A i \in D : mem(i) \in Field
        <4>1. item.members \in Seq(Field)
          BY <2>2 DEF ItemInv, Items, NoItem
        <4>. QED  BY <4>1
      <3>2. \A i \in D : /\ Declared(item, mem(i)) <=> "skip" \notin mem(i).flags
                         /\ Declared(item, mem(i)) =>
                               WireName(item, mem(i)) = SerdeName(item, mem(i))
        BY <2>2, <2>4, <3>1, FieldNames DEF WireName, SerdeName, Declared, Field
      <3>3. [i \in D |-> IF Declared(item, mem(i)) THEN <<WireName(item, mem(i))>> ELSE << >>]
               = [i \in D |-> IF "skip" \in mem(i).flags THEN << >>
                                                        ELSE <<SerdeName(item, mem(i))>>]
        BY <3>2
      <3>4. TsNames(item) = SerdeNames(item)
        BY <3>3 DEF TsNames, SerdeNames
      <3>. QED  BY <2>2, <3>4 DEF TyMirrorsSerde, TsParses
    <2>3. CASE item.shape = "enum"
      <3>1. item.members \in Seq(Variant)
        BY <2>3 DEF ItemInv, Items, NoItem
      <3>2. \A i \in D : /\ WireName(item, mem(i)) = SerdeName(item, mem(i))
                         /\ Declared(item, mem(i))
        <4>1. \A i \in D : mem(i) \in Variant
          BY <3>1
        <4>. QED
          BY <2>3, <2>4, <4>1, VariantNames DEF WireName, SerdeName, Declared, Variant
      <3>. DEFINE names == [i \in D |-> WireName(item, mem(i))]
                  S == {names[i] : i \in D}
                  wire == [i \in D |-> IF "skip" \in mem(i).flags THEN << >>
                                                             ELSE <<SerdeName(item, mem(i))>>]
      <3>3. D = 1 .. Len(item.members) /\ Len(item.members) \in Nat
        BY <3>1
      <3>4. names \in Seq(S) /\ DOMAIN names = D
        <4>1. names \in [1 .. Len(item.members) -> S]
          BY <3>3
        <4>. HIDE DEF names, S
        <4>. QED  BY <3>3, <4>1, FunctionIsSeq
      <3>5. TsNames(item) = names
        <4>1. [i \in D |-> IF Declared(item, mem(i)) THEN <<WireName(item, mem(i))>> ELSE << >>]
                 = [i \in DOMAIN names |-> <<names[i]>>]
          BY <3>2, <3>4
        <4>2. FlattenSeq([i \in DOMAIN names |-> <<names[i]>>]) = names
          <5>. HIDE DEF names
          <5>. QED  BY <3>4, FlattenSingles
        <4>. QED  BY <4>1, <4>2 DEF TsNames
      <3>6. \A i \in D : wire[i] = << >> \/ wire[i] = <<names[i]>>
        BY <3>2
      <3>7. wire \in Seq(Seq(S)) /\ DOMAIN wire = D
        <4>1. \A i \in D : wire[i] \in Seq(S)
          <5>1. \A i \in D : names[i] \in S
            OBVIOUS
          <5>. HIDE DEF names, S, wire
          <5>2. << >> \in Seq(S) /\ \A x \in S : <<x>> \in Seq(S)
            OBVIOUS
          <5>. QED  BY <3>6, <5>1, <5>2
        <4>2. wire \in [1 .. Len(item.members) -> Seq(S)]
          <5>. HIDE DEF S
          <5>. QED  BY <3>3, <4>1
        <4>. HIDE DEF wire, S
        <4>. QED  BY <3>3, <4>2, FunctionIsSeq
      <3>8. SerdeNames(item) = FlattenSeq(wire)
        BY DEF SerdeNames
      <3>9. ASSUME NEW j \in DOMAIN FlattenSeq(wire)
            PROVE  FlattenSeq(wire)[j] \in ToSet(names)
        <4>. HIDE DEF wire, names, S
        <4>1. PICK i \in D : FlattenSeq(wire)[j] \in ToSet(wire[i])
          BY <3>7, FlattenMembers
        <4>2. FlattenSeq(wire)[j] = names[i]
          BY <3>6, <4>1 DEF ToSet
        <4>. QED  BY <3>4, <4>2 DEF ToSet
      <3>. HIDE DEF wire, names
      <3>10. ToSet(SerdeNames(item)) \subseteq ToSet(TsNames(item))
        BY <3>5, <3>8, <3>9 DEF ToSet
      <3>11. TsNames(item) # << >> <=> item.members # << >>
        BY <3>1, <3>3, <3>4, <3>5
      <3>. QED  BY <2>3, <3>10, <3>11 DEF TyMirrorsSerde, TsParses
    <2>. QED  BY <2>2, <2>3
  <1>. QED  BY <1>1, ItemsDeclared, PTL

-----------------------------------------------------------------------------
(* Segments, one character at a time.                                      *)
Extended(segs, c) ==
    IF c = "/" THEN Append(segs, << >>)
               ELSE [segs EXCEPT ![Len(segs)] = Append(@, c)]

Splits(f, path) ==
    /\ f[0] = << >>
    /\ \A k \in 1 .. Len(path) : f[k] = Extended(f[k - 1], path[k])

LEMMA ExtendedTyped ==
    ASSUME NEW C, NEW segs \in Seq(Seq(C)), NEW c \in C
    PROVE  Extended(segs, c) \in Seq(Seq(C))
  <1>. DEFINE T == Seq(C)
  <1>1. << >> \in T /\ \A t \in T : Append(t, c) \in T
    OBVIOUS
  <1>2. segs \in Seq(T)
    OBVIOUS
  <1>. HIDE DEF T
  <1>3. CASE c = "/"
    BY <1>1, <1>2, <1>3 DEF Extended, T
  <1>4. CASE c # "/"
    <2>1. CASE segs = << >>
      <3>1. [segs EXCEPT ![Len(segs)] = Append(segs[Len(segs)], c)] = << >>
        BY <2>1
      <3>. QED  BY <1>4, <2>1, <3>1 DEF Extended
    <2>2. CASE segs # << >>
      <3>1. Len(segs) \in 1 .. Len(segs) /\ segs[Len(segs)] \in T
        BY <1>2, <2>2
      <3>2. Append(segs[Len(segs)], c) \in T
        BY <1>1, <3>1
      <3>3. [segs EXCEPT ![Len(segs)] = Append(segs[Len(segs)], c)] \in Seq(T)
        BY <1>2, <3>1, <3>2, ExceptSeq
      <3>. QED  BY <1>4, <3>3 DEF Extended, T
    <2>. QED  BY <2>1, <2>2
  <1>. QED  BY <1>3, <1>4

LEMMA SegmentsSplit ==
    ASSUME NEW C, NEW path \in Seq(C)
    PROVE  \E f : Splits(f, path) /\ Segments(path) = f[Len(path)]
  <1>. DEFINE n == Len(path)
              V == Seq(Seq(C))
              first == << >>
              step == [k \in 1 .. n |-> [v \in V |-> Extended(v, path[k])]]
              Fits(h) == h = [k \in 0 .. n |->
                                IF k = 0 THEN << >>
                                ELSE IF path[k] = "/" THEN Append(h[k - 1], << >>)
                                ELSE [h[k - 1] EXCEPT ![Len(h[k - 1])] = Append(@, path[k])]]
              c == CHOOSE h : Fits(h)
  <1>1. n \in Nat /\ first \in V /\ \A k \in 1 .. n : path[k] \in C
    OBVIOUS
  <1>2. step \in [1 .. n -> [V -> V]]
    <2>1. \A k \in 1 .. n, v \in V : Extended(v, path[k]) \in V
      BY <1>1, ExtendedTyped
    <2>. HIDE DEF n, V
    <2>. QED  BY <2>1
  <1>3. PICK f \in [0 .. n -> V] : Folds(f, n, first, step)
    <2>1. n \in Nat
      BY <1>1
    <2>2. first \in V
      BY <1>1
    <2>. HIDE DEF n, V, first, step
    <2>. QED  BY <1>2, <2>1, <2>2, FoldExists, Zenon
  <1>4. Fits(f)
    <2>1. f[0] = << >>
      BY <1>3 DEF Folds
    <2>2. ASSUME NEW k \in 1 .. n PROVE f[k] = Extended(f[k - 1], path[k])
      <3>. HIDE DEF n, V
      <3>1. f[k - 1] \in V
        BY <1>1
      <3>2. step[k] = [v \in V |-> Extended(v, path[k])]
        OBVIOUS
      <3>. HIDE DEF step
      <3>3. f[k] = step[k][f[k - 1]]
        BY <1>3 DEF Folds
      <3>. QED  BY <3>1, <3>2, <3>3
    <2>. HIDE DEF n
    <2>3. \A k \in 0 .. n : f[k] = IF k = 0 THEN << >> ELSE Extended(f[k - 1], path[k])
      BY <1>1, <2>1, <2>2
    <2>4. f = [k \in 0 .. n |-> f[k]]
      OBVIOUS
    <2>5. f = [k \in 0 .. n |-> IF k = 0 THEN << >> ELSE Extended(f[k - 1], path[k])]
      <3>. HIDE DEF V
      <3>. QED  BY <2>3, <2>4
    <2>. QED  BY <2>5 DEF Extended
  <1>5. Fits(c)
    <2>. HIDE DEF Fits
    <2>. QED  BY <1>4
  <1>6. \A k \in 0 .. n : c[k] = IF k = 0 THEN << >> ELSE Extended(c[k - 1], path[k])
    <2>. HIDE DEF c, n
    <2>1. \A k \in 0 .. n :
              c[k] = IF k = 0 THEN << >>
                     ELSE IF path[k] = "/" THEN Append(c[k - 1], << >>)
                     ELSE [c[k - 1] EXCEPT ![Len(c[k - 1])] = Append(@, path[k])]
      BY <1>5
    <2>. QED  BY <2>1 DEF Extended
  <1>7. Segments(path) = c[n]
    BY DEF Segments
  <1>. HIDE DEF c, Fits, step
  <1>8. Splits(c, path)
    BY <1>1, <1>6 DEF Splits
  <1>. QED  BY <1>7, <1>8

(* A path of one more character.                                           *)
LEMMA SegmentsAppend ==
    ASSUME NEW C, NEW path \in Seq(C), NEW c \in C
    PROVE  Segments(Append(path, c)) = Extended(Segments(path), c)
  <1>. DEFINE longer == Append(path, c)
              n == Len(path)
  <1>1. /\ n \in Nat /\ longer \in Seq(C) /\ Len(longer) = n + 1 /\ longer[n + 1] = c
        /\ \A k \in 1 .. n : longer[k] = path[k]
    OBVIOUS
  <1>2. PICK f : Splits(f, longer) /\ Segments(longer) = f[n + 1]
    BY <1>1, SegmentsSplit
  <1>3. PICK g : Splits(g, path) /\ Segments(path) = g[n]
    BY SegmentsSplit
  <1>. DEFINE Bad == {k \in 0 .. n : f[k] # g[k]}
  <1>. HIDE DEF longer, n
  <1>4. ASSUME Bad # {} PROVE FALSE
    <2>1. PICK k \in Bad : \A j \in Bad : k <= j
      <3>1. Bad \in SUBSET Nat
        BY <1>1
      <3>. HIDE DEF Bad
      <3>. QED  BY <1>4, <3>1, LeastOf
    <2>2. k # 0
      BY <1>2, <1>3, <2>1 DEF Splits
    <2>3. k \in 1 .. n /\ k \in 1 .. n + 1
      BY <1>1, <2>1, <2>2
    <2>4. f[k - 1] = g[k - 1]
      BY <1>1, <2>1, <2>3
    <2>5. f[k] = Extended(f[k - 1], longer[k])
      BY <1>1, <1>2, <2>3 DEF Splits
    <2>6. g[k] = Extended(g[k - 1], path[k])
      BY <1>3, <2>3 DEF Splits, n
    <2>. QED  BY <1>1, <2>1, <2>3, <2>4, <2>5, <2>6
  <1>5. f[n] = g[n]
    BY <1>1, <1>4
  <1>6. f[n + 1] = Extended(f[n], c)
    <2>1. n + 1 \in 1 .. Len(longer) /\ (n + 1) - 1 = n
      BY <1>1
    <2>2. f[n + 1] = Extended(f[(n + 1) - 1], longer[n + 1])
      BY <1>2, <2>1 DEF Splits
    <2>. QED  BY <1>1, <2>1, <2>2
  <1>. QED  BY <1>2, <1>3, <1>5, <1>6 DEF longer

LEMMA SegmentsEmpty == Segments(<< >>) = << >>
  <1>1. << >> \in Seq({}) /\ Len(<< >>) = 0
    OBVIOUS
  <1>2. PICK f : Splits(f, << >>) /\ Segments(<< >>) = f[0]
    BY <1>1, SegmentsSplit
  <1>. QED  BY <1>2 DEF Splits

-----------------------------------------------------------------------------
(* Segments, each opened by a slash, are what the path of them splits      *)
(* into, and every path that begins with a slash is made of some.          *)
Slashed(segs) == FlattenSeq([k \in DOMAIN segs |-> <<"/">> \o segs[k]])

NoSlash(t) == \A i \in DOMAIN t : t[i] # "/"

Openings(segs) == [k \in DOMAIN segs |-> <<"/">> \o segs[k]]

LEMMA OpeningsTyped ==
    ASSUME NEW C, "/" \in C, NEW segs \in Seq(Seq(C))
    PROVE  /\ Openings(segs) \in Seq(Seq(C)) /\ Len(Openings(segs)) = Len(segs)
           /\ Slashed(segs) = FlattenSeq(Openings(segs))
           /\ \A k \in 1 .. Len(segs) : Openings(segs)[k] = <<"/">> \o segs[k]
  <1>. DEFINE T == Seq(C)
  <1>1. /\ Len(segs) \in Nat /\ DOMAIN segs = 1 .. Len(segs)
        /\ \A k \in 1 .. Len(segs) : segs[k] \in Seq(C)
    OBVIOUS
  <1>2. \A t \in T : <<"/">> \o t \in T
    OBVIOUS
  <1>. HIDE DEF T
  <1>3. Openings(segs) \in [1 .. Len(segs) -> T]
    BY <1>1, <1>2 DEF Openings, T
  <1>4. Openings(segs) \in Seq(T) /\ Len(Openings(segs)) = Len(segs)
    BY <1>1, <1>3, FunctionIsSeq
  <1>5. \A k \in 1 .. Len(segs) : Openings(segs)[k] = <<"/">> \o segs[k]
    BY <1>1 DEF Openings
  <1>6. Slashed(segs) = FlattenSeq(Openings(segs))
    BY DEF Slashed, Openings
  <1>. QED  BY <1>4, <1>5, <1>6 DEF T

LEMMA SlashedOne ==
    ASSUME NEW C, "/" \in C, NEW t \in Seq(C)
    PROVE  Slashed(<<t>>) = <<"/">> \o t
  <1>. DEFINE one == <<t>>
              open == Openings(one)
  <1>1. one \in Seq(Seq(C)) /\ Len(one) = 1 /\ one[1] = t
    OBVIOUS
  <1>. HIDE DEF one
  <1>2. /\ open \in Seq(Seq(C)) /\ Len(open) = 1 /\ 1 \in 1 .. Len(open)
        /\ open[1] = <<"/">> \o t
        /\ Slashed(one) = FlattenSeq(open)
    BY <1>1, OpeningsTyped
  <1>. HIDE DEF open
  <1>3. PICK f \in [0 .. 1 -> Seq(C)] : Flattens(f, open) /\ FlattenSeq(open) = f[1]
    BY <1>2, Flattened
  <1>4. f[1] = f[0] \o (<<"/">> \o t) /\ f[0] = << >>
    <2>1. f[1] = f[1 - 1] \o open[1]
      BY <1>2, <1>3, FlattensStep
    <2>2. f[0] = << >>
      BY <1>3 DEF Flattens
    <2>. QED  BY <1>2, <2>1, <2>2
  <1>5. <<"/">> \o t \in Seq(C)
    OBVIOUS
  <1>. QED  BY <1>2, <1>3, <1>4, <1>5, ConcatEmptySeq DEF one

LEMMA SlashedConcat ==
    ASSUME NEW C, "/" \in C, NEW ss \in Seq(Seq(C)), NEW tt \in Seq(Seq(C))
    PROVE  Slashed(ss \o tt) = Slashed(ss) \o Slashed(tt)
  <1>. DEFINE T == Seq(C)
  <1>1. ss \o tt \in Seq(T) /\ Len(ss \o tt) = Len(ss) + Len(tt)
        /\ Len(ss) \in Nat /\ Len(tt) \in Nat
    BY ConcatProperties
  <1>2. Openings(ss \o tt) = Openings(ss) \o Openings(tt)
    <2>. DEFINE first == Openings(ss)
                second == Openings(tt)
                both == Openings(ss \o tt)
    <2>1. /\ first \in Seq(T) /\ Len(first) = Len(ss)
          /\ second \in Seq(T) /\ Len(second) = Len(tt)
          /\ both \in Seq(T) /\ Len(both) = Len(ss) + Len(tt)
      BY <1>1, OpeningsTyped
    <2>2. /\ first \o second \in Seq(T)
          /\ Len(first \o second) = Len(ss) + Len(tt)
      <3>1. first \in Seq(T) /\ second \in Seq(T)
        BY <2>1
      <3>. HIDE DEF T, first, second
      <3>2. first \o second \in Seq(T) /\ Len(first \o second) = Len(first) + Len(second)
        BY <3>1, ConcatProperties
      <3>. QED  BY <2>1, <3>2
    <2>3. ASSUME NEW k \in 1 .. Len(ss) + Len(tt)
          PROVE  both[k] = (first \o second)[k]
      <3>1. both[k] = <<"/">> \o (ss \o tt)[k]
        BY <1>1, OpeningsTyped
      <3>2. CASE k <= Len(ss)
        <4>1. (ss \o tt)[k] = ss[k] /\ k \in 1 .. Len(ss)
          BY <1>1, <3>2
        <4>2. first[k] = <<"/">> \o ss[k]
          BY <4>1, OpeningsTyped
        <4>3. (first \o second)[k] = first[k]
          <5>. HIDE DEF T, first, second
          <5>. QED  BY <1>1, <2>1, <3>2, ConcatProperties
        <4>. QED  BY <3>1, <4>1, <4>2, <4>3
      <3>3. CASE ~ (k <= Len(ss))
        <4>1. (ss \o tt)[k] = tt[k - Len(ss)] /\ k - Len(ss) \in 1 .. Len(tt)
          BY <1>1, <3>3
        <4>2. second[k - Len(ss)] = <<"/">> \o tt[k - Len(ss)]
          BY <4>1, OpeningsTyped
        <4>3. (first \o second)[k] = second[k - Len(ss)]
          <5>. HIDE DEF T, first, second
          <5>. QED  BY <1>1, <2>1, <3>3, ConcatProperties
        <4>. QED  BY <3>1, <4>1, <4>2, <4>3
      <3>. QED  BY <3>2, <3>3
    <2>. HIDE DEF T, first, second, both
    <2>4. both = first \o second
      BY <2>1, <2>2, <2>3, SeqEqual
    <2>. QED  BY <2>4 DEF first, second, both
  <1>3. FlattenSeq(Openings(ss) \o Openings(tt))
            = FlattenSeq(Openings(ss)) \o FlattenSeq(Openings(tt))
    BY OpeningsTyped, FlattenConcat
  <1>4. /\ Slashed(ss) = FlattenSeq(Openings(ss)) /\ Slashed(tt) = FlattenSeq(Openings(tt))
        /\ Slashed(ss \o tt) = FlattenSeq(Openings(ss \o tt))
    BY DEF Slashed, Openings
  <1>. QED  BY <1>2, <1>3, <1>4

LEMMA ExceptLast ==
    ASSUME NEW T, NEW s \in Seq(T), NEW u \in T, NEW v \in T
    PROVE  [Append(s, u) EXCEPT ![Len(s) + 1] = v] = Append(s, v)
  <1>. DEFINE su == Append(s, u)
              sv == Append(s, v)
              n == Len(s) + 1
  <1>1. /\ su \in Seq(T) /\ Len(su) = n /\ \A i \in 1 .. Len(s) : su[i] = s[i]
        /\ sv \in Seq(T) /\ Len(sv) = n /\ \A i \in 1 .. Len(s) : sv[i] = s[i]
        /\ sv[n] = v /\ Len(s) \in Nat /\ n \in 1 .. n
    BY AppendProperties
  <1>. HIDE DEF su, sv
  <1>2. /\ [su EXCEPT ![n] = v] \in Seq(T) /\ Len([su EXCEPT ![n] = v]) = n
        /\ \A i \in 1 .. n : [su EXCEPT ![n] = v][i] = IF i = n THEN v ELSE su[i]
    BY <1>1, ExceptSeq
  <1>3. \A i \in 1 .. n : i = n \/ i \in 1 .. Len(s)
    BY <1>1
  <1>4. \A i \in 1 .. n : [su EXCEPT ![n] = v][i] = sv[i]
    BY <1>1, <1>2, <1>3
  <1>5. [su EXCEPT ![n] = v] = sv
    BY <1>1, <1>2, <1>4, SeqEqual
  <1>. QED  BY <1>5 DEF su, sv

(* A path of one more segment.                                             *)
LEMMA SegmentsOfText ==
    ASSUME NEW C, "/" \in C, NEW path \in Seq(C), NEW t \in Seq(C), NoSlash(t),
           Segments(path) \in Seq(Seq(C))
    PROVE  Segments(path \o (<<"/">> \o t)) = Append(Segments(path), t)
  <1>. DEFINE n == Len(t)
              segs == Segments(path)
              up(k) == path \o (<<"/">> \o SubSeq(t, 1, k))
              Holds(k) == Segments(up(k)) = Append(segs, SubSeq(t, 1, k))
              Bad == {k \in 0 .. n : ~ Holds(k)}
  <1>1. n \in Nat /\ \A k \in 0 .. n : SubSeq(t, 1, k) \in Seq(C)
    OBVIOUS
  <1>2. Holds(0)
    <2>1. SubSeq(t, 1, 0) = << >>
      BY SubSeqEmpty
    <2>2. <<"/">> \in Seq(C) /\ <<"/">> \o << >> = <<"/">>
      OBVIOUS
    <2>3. up(0) = Append(path, "/")
      BY <2>1, <2>2, AppendIsConcat
    <2>4. Segments(up(0)) = Extended(segs, "/")
      BY <2>3, SegmentsAppend
    <2>. QED  BY <2>1, <2>4 DEF Extended
  <1>3. ASSUME NEW k \in 1 .. n, Holds(k - 1) PROVE Holds(k)
    <2>. DEFINE u == SubSeq(t, 1, k - 1)
                c == t[k]
    <2>1. k \in 0 .. n /\ k - 1 \in 0 .. n /\ u \in Seq(C) /\ c \in C /\ c # "/"
      BY <1>1, ElementsOf DEF NoSlash
    <2>2. SubSeq(t, 1, k) = Append(u, c)
      <3>1. SubSeq(t, 1, k) = u \o <<c>>
        BY <1>1, SubSeqRecursiveSecond
      <3>. HIDE DEF u, c
      <3>. QED  BY <2>1, <3>1, AppendIsConcat
    <2>. HIDE DEF u, c
    <2>3. path \o (<<"/">> \o Append(u, c)) = Append(path \o (<<"/">> \o u), c)
      BY <2>1
    <2>4. up(k) = Append(up(k - 1), c) /\ up(k - 1) \in Seq(C)
      BY <2>1, <2>2, <2>3 DEF u
    <2>. HIDE DEF up
    <2>5. Segments(up(k)) = Extended(Segments(up(k - 1)), c)
      BY <2>1, <2>4, SegmentsAppend
    <2>6. Segments(up(k - 1)) = Append(segs, u)
      BY <1>3 DEF u
    <2>7. Extended(Append(segs, u), c) = Append(segs, Append(u, c))
      <3>. DEFINE T == Seq(C)
                  v == Append(u, c)
      <3>1. segs \in Seq(T) /\ u \in T /\ v \in T
        BY <2>1
      <3>. HIDE DEF T, segs, v
      <3>2. Append(segs, u)[Len(Append(segs, u))] = u /\ Len(Append(segs, u)) = Len(segs) + 1
        BY <3>1
      <3>3. [Append(segs, u) EXCEPT ![Len(segs) + 1] = v] = Append(segs, v)
        BY <3>1, ExceptLast
      <3>. QED  BY <2>1, <3>2, <3>3 DEF Extended, v
    <2>. QED  BY <2>2, <2>5, <2>6, <2>7
  <1>4. ASSUME Bad # {} PROVE FALSE
    <2>1. PICK k \in Bad : \A j \in Bad : k <= j
      <3>1. Bad \in SUBSET Nat
        BY <1>1
      <3>. HIDE DEF Bad
      <3>. QED  BY <1>4, <3>1, LeastOf
    <2>. HIDE DEF Holds
    <2>2. k # 0
      BY <1>2, <2>1
    <2>3. k \in 1 .. n /\ Holds(k - 1)
      BY <1>1, <2>1, <2>2
    <2>. QED  BY <1>3, <2>1, <2>3
  <1>5. Holds(n)
    <2>. HIDE DEF Holds
    <2>. QED  BY <1>1, <1>4
  <1>6. SubSeq(t, 1, n) = t
    BY SubSeqFull
  <1>. QED  BY <1>5, <1>6

(* What is made of segments without slashes splits into them.              *)
LEMMA SegmentsOfSlashed ==
    ASSUME NEW C, "/" \in C, NEW segs \in Seq(Seq(C)), \A i \in DOMAIN segs : NoSlash(segs[i])
    PROVE  Segments(Slashed(segs)) = segs
  <1>. DEFINE T == Seq(C)
              n == Len(segs)
              open == Openings(segs)
  <1>1. n \in Nat /\ segs \in Seq(T) /\ DOMAIN segs = 1 .. n
    OBVIOUS
  <1>2. /\ open \in Seq(T) /\ Len(open) = n
        /\ Slashed(segs) = FlattenSeq(open)
        /\ \A k \in 1 .. n : open[k] = <<"/">> \o segs[k]
    BY OpeningsTyped
  <1>. HIDE DEF open
  <1>3. PICK f \in [0 .. n -> T] : Flattens(f, open) /\ FlattenSeq(open) = f[n]
    BY <1>2, Flattened
  <1>. DEFINE Holds(k) == Segments(f[k]) = SubSeq(segs, 1, k)
              Bad == {k \in 0 .. n : ~ Holds(k)}
  <1>4. Holds(0)
    <2>1. f[0] = << >>
      BY <1>3 DEF Flattens
    <2>2. SubSeq(segs, 1, 0) = << >>
      BY SubSeqEmpty
    <2>. QED  BY <2>1, <2>2, SegmentsEmpty
  <1>5. ASSUME NEW k \in 1 .. n, Holds(k - 1) PROVE Holds(k)
    <2>. HIDE DEF T, n
    <2>1. f[k] = f[k - 1] \o open[k] /\ open[k] = <<"/">> \o segs[k]
      BY <1>2, <1>3, FlattensStep
    <2>2. /\ k - 1 \in 0 .. n /\ k - 1 \in Nat
          /\ f[k - 1] \in T /\ segs[k] \in T /\ NoSlash(segs[k])
      <3>1. k - 1 \in 0 .. n /\ k - 1 \in Nat /\ k \in DOMAIN segs
        BY <1>1
      <3>2. f[k - 1] \in T
        BY <3>1
      <3>3. segs[k] \in T
        BY <1>1, <3>1, ElementsOf
      <3>. QED  BY <3>1, <3>2, <3>3
    <2>. DEFINE before == SubSeq(segs, 1, k - 1)
                t == segs[k]
                path == f[k - 1]
    <2>3. before \in Seq(T)
      BY <1>1, <2>2 DEF n
    <2>4. Segments(path) = before
      BY <1>5
    <2>5. t \in Seq(C) /\ path \in Seq(C) /\ NoSlash(t) /\ before \in Seq(Seq(C))
      BY <2>2, <2>3 DEF T
    <2>. HIDE DEF before, t, path
    <2>6. Segments(path \o (<<"/">> \o t)) = Append(Segments(path), t)
      BY <2>4, <2>5, SegmentsOfText
    <2>7. SubSeq(segs, 1, k) = Append(before, t)
      <3>1. SubSeq(segs, 1, k) = before \o <<t>>
        BY <1>1, SubSeqRecursiveSecond DEF before, t, n
      <3>2. t \in T
        BY <2>5 DEF T
      <3>. QED  BY <2>3, <3>1, <3>2, AppendIsConcat
    <2>. QED  BY <2>1, <2>4, <2>6, <2>7 DEF t, path
  <1>6. ASSUME Bad # {} PROVE FALSE
    <2>1. PICK k \in Bad : \A j \in Bad : k <= j
      <3>1. Bad \in SUBSET Nat
        BY <1>1
      <3>. HIDE DEF Bad
      <3>. QED  BY <1>6, <3>1, LeastOf
    <2>. HIDE DEF Holds, n
    <2>2. k # 0
      BY <1>4, <2>1
    <2>3. k \in 1 .. n /\ Holds(k - 1)
      BY <1>1, <2>1, <2>2
    <2>. QED  BY <1>5, <2>1, <2>3
  <1>7. Holds(n)
    <2>. HIDE DEF Holds
    <2>. QED  BY <1>1, <1>6
  <1>8. SubSeq(segs, 1, n) = segs
    BY <1>1, SubSeqFull
  <1>. QED  BY <1>2, <1>3, <1>7, <1>8

(* The segments that path is made of.                                      *)
Parts(path, segs, C) ==
    /\ segs \in Seq(Seq(C)) /\ segs # << >>
    /\ \A i \in DOMAIN segs : NoSlash(segs[i])
    /\ Slashed(segs) = path

LEMMA OneMorePart ==
    ASSUME NEW C, "/" \in C, NEW path \in Seq(C), NEW segs, Parts(path, segs, C)
    PROVE  Parts(Append(path, "/"), Append(segs, << >>), C)
  <1>. DEFINE T == Seq(C)
              last == << << >> >>
  <1>1. segs \in Seq(T) /\ << >> \in T /\ last \in Seq(T) /\ Append(segs, << >>) = segs \o last
    BY AppendIsConcat DEF Parts
  <1>2. Append(segs, << >>) \in Seq(T) /\ Append(segs, << >>) # << >>
    <2>. HIDE DEF T
    <2>. QED  BY <1>1, AppendProperties
  <1>3. ASSUME NEW i \in DOMAIN Append(segs, << >>) PROVE NoSlash(Append(segs, << >>)[i])
    <2>1. \/ i \in DOMAIN segs /\ Append(segs, << >>)[i] = segs[i]
          \/ Append(segs, << >>)[i] = << >>
      <3>. HIDE DEF T
      <3>. QED  BY <1>1, AppendProperties
    <2>2. NoSlash(<< >>)
      BY DEF NoSlash
    <2>. QED  BY <2>1, <2>2 DEF Parts
  <1>4. Slashed(Append(segs, << >>)) = Append(path, "/")
    <2>1. Slashed(last) = <<"/">> \o << >>
      BY <1>1, SlashedOne DEF T
    <2>2. <<"/">> \in Seq(C) /\ <<"/">> \o << >> = <<"/">>
      OBVIOUS
    <2>3. Slashed(segs \o last) = Slashed(segs) \o Slashed(last)
      <3>. HIDE DEF last
      <3>. QED  BY <1>1, SlashedConcat DEF T
    <2>4. Append(path, "/") = path \o <<"/">>
      BY AppendIsConcat
    <2>. QED  BY <1>1, <2>1, <2>2, <2>3, <2>4 DEF Parts
  <1>. QED  BY <1>2, <1>3, <1>4 DEF Parts, T

LEMMA LongerPart ==
    ASSUME NEW C, "/" \in C, NEW path \in Seq(C), NEW segs, Parts(path, segs, C),
           NEW c \in C, c # "/"
    PROVE  \E more : Parts(Append(path, c), more, C)
  <1>. DEFINE T == Seq(C)
  <1>1. PICK before \in Seq(T), t \in T : segs = Append(before, t)
    <2>1. segs \in Seq(T) /\ segs # << >>
      BY DEF Parts
    <2>. HIDE DEF T
    <2>. QED  BY <2>1, SequenceEmptyOrAppend
  <1>. DEFINE tc == Append(t, c)
              more == Append(before, tc)
              was == <<t>>
              is == <<tc>>
  <1>2. tc \in T
    OBVIOUS
  <1>3. /\ was \in Seq(T) /\ segs = before \o was
        /\ is \in Seq(T) /\ more = before \o is
    <2>. HIDE DEF T, tc
    <2>1. was \in Seq(T) /\ is \in Seq(T)
      BY <1>1, <1>2
    <2>. QED  BY <1>1, <1>2, <2>1, AppendIsConcat
  <1>4. more \in Seq(T) /\ more # << >>
    <2>. HIDE DEF T, tc
    <2>. QED  BY <1>1, <1>2, AppendProperties
  <1>5. /\ Len(segs) = Len(before) + 1 /\ Len(more) = Len(before) + 1
        /\ Len(before) \in Nat /\ DOMAIN segs = 1 .. Len(segs) /\ DOMAIN more = 1 .. Len(more)
        /\ segs[Len(before) + 1] = t /\ more[Len(before) + 1] = tc
        /\ \A i \in 1 .. Len(before) : segs[i] = before[i] /\ more[i] = before[i]
    <2>. HIDE DEF T, tc
    <2>. QED  BY <1>1, <1>2
  <1>6. \A i \in DOMAIN more : NoSlash(more[i])
    <2>. SUFFICES ASSUME NEW i \in DOMAIN more PROVE NoSlash(more[i])
      OBVIOUS
    <2>. HIDE DEF T, tc, more
    <2>1. i \in DOMAIN segs /\ (i \in 1 .. Len(before) \/ i = Len(before) + 1)
      BY <1>5
    <2>2. NoSlash(segs[i])
      BY <2>1 DEF Parts
    <2>3. CASE i \in 1 .. Len(before)
      BY <1>5, <2>2, <2>3
    <2>4. CASE i = Len(before) + 1
      <3>1. NoSlash(t)
        BY <1>5, <2>2, <2>4
      <3>2. NoSlash(tc)
        <4>1. t \in Seq(C)
          BY <1>1 DEF T
        <4>2. \A j \in DOMAIN tc : tc[j] = c \/ (j \in DOMAIN t /\ tc[j] = t[j])
          BY <4>1 DEF tc
        <4>. QED  BY <3>1, <4>2 DEF NoSlash
      <3>. QED  BY <1>5, <2>4, <3>2
    <2>. QED  BY <2>1, <2>3, <2>4
  <1>7. Slashed(more) = Append(path, c)
    <2>. DEFINE head == Slashed(before)
    <2>1. head \in Seq(C)
      <3>1. Openings(before) \in Seq(Seq(C)) /\ head = FlattenSeq(Openings(before))
        BY <1>1, OpeningsTyped DEF T
      <3>. HIDE DEF head
      <3>. QED  BY <3>1, Flattened, FlattensTo
    <2>2. Slashed(was) = <<"/">> \o t /\ Slashed(is) = <<"/">> \o tc
      BY <1>1, <1>2, SlashedOne DEF T
    <2>. HIDE DEF was, is, tc, more
    <2>3. Slashed(segs) = head \o Slashed(was) /\ Slashed(more) = head \o Slashed(is)
      BY <1>1, <1>3, SlashedConcat DEF T
    <2>4. t \in Seq(C)
      BY <1>1 DEF T
    <2>. HIDE DEF head
    <2>5. head \o (<<"/">> \o Append(t, c)) = Append(head \o (<<"/">> \o t), c)
      BY <2>1, <2>4
    <2>. QED  BY <2>2, <2>3, <2>5 DEF tc, Parts
  <1>. QED  BY <1>4, <1>6, <1>7 DEF Parts, T

LEMMA PathHasParts ==
    ASSUME NEW C, "/" \in C, NEW path \in Seq(C), path # << >>, path[1] = "/"
    PROVE  \E segs : Parts(path, segs, C)
  <1>. DEFINE n == Len(path)
              Holds(k) == \E segs : Parts(SubSeq(path, 1, k), segs, C)
              Bad == {k \in 1 .. n : ~ Holds(k)}
  <1>1. n \in Nat /\ n # 0 /\ \A k \in 1 .. n : path[k] \in C
    OBVIOUS
  <1>2. Holds(1)
    <2>. DEFINE one == << << >> >>
    <2>1. << >> \in Seq(C) /\ one \in Seq(Seq(C)) /\ one # << >> /\ DOMAIN one = {1}
          /\ one[1] = << >>
      OBVIOUS
    <2>2. SubSeq(path, 1, 1) = <<"/">>
      <3>1. SubSeq(path, 1, 1) = SubSeq(path, 1, 1 - 1) \o <<path[1]>>
        BY <1>1, SubSeqRecursiveSecond
      <3>2. SubSeq(path, 1, 1 - 1) = << >>
        BY SubSeqEmpty
      <3>3. <<"/">> \in Seq(C)
        OBVIOUS
      <3>. QED  BY <3>1, <3>2, <3>3, ConcatEmptySeq
    <2>3. Slashed(one) = <<"/">> \o << >>
      BY <2>1, SlashedOne
    <2>4. <<"/">> \o << >> = <<"/">>
      OBVIOUS
    <2>. HIDE DEF one
    <2>5. Parts(<<"/">>, one, C)
      BY <2>1, <2>3, <2>4 DEF Parts, NoSlash
    <2>. QED  BY <2>2, <2>5
  <1>3. ASSUME NEW k \in 2 .. n, Holds(k - 1) PROVE Holds(k)
    <2>. DEFINE p == SubSeq(path, 1, k - 1)
                c == path[k]
    <2>1. p \in Seq(C) /\ c \in C
      BY <1>1
    <2>2. SubSeq(path, 1, k) = Append(p, c)
      <3>1. SubSeq(path, 1, k) = p \o <<c>>
        BY <1>1, SubSeqRecursiveSecond
      <3>. HIDE DEF p, c
      <3>. QED  BY <2>1, <3>1, AppendIsConcat
    <2>3. PICK segs : Parts(p, segs, C)
      BY <1>3
    <2>. HIDE DEF p, c
    <2>4. \E more : Parts(Append(p, c), more, C)
      <3>1. CASE c = "/"
        BY <2>1, <2>3, <3>1, OneMorePart
      <3>2. CASE c # "/"
        BY <2>1, <2>3, <3>2, LongerPart
      <3>. QED  BY <3>1, <3>2
    <2>. QED  BY <2>2, <2>4
  <1>4. ASSUME Bad # {} PROVE FALSE
    <2>1. PICK k \in Bad : \A j \in Bad : k <= j
      <3>1. Bad \in SUBSET Nat
        BY <1>1
      <3>. HIDE DEF Bad
      <3>. QED  BY <1>4, <3>1, LeastOf
    <2>. HIDE DEF Holds, n
    <2>2. k # 1
      BY <1>2, <2>1
    <2>3. k \in 2 .. n /\ Holds(k - 1)
      BY <1>1, <2>1, <2>2
    <2>. QED  BY <1>3, <2>1, <2>3
  <1>5. Holds(n)
    <2>. HIDE DEF Holds
    <2>. QED  BY <1>1, <1>4
  <1>6. SubSeq(path, 1, n) = path
    BY SubSeqFull
  <1>. QED  BY <1>5, <1>6

(* Segments that are no dots stay as they are.                             *)
LEMMA DotsStay ==
    ASSUME NEW T, NEW segs \in Seq(T),
           \A i \in DOMAIN segs : segs[i] # <<".">> /\ segs[i] # <<".", ".">>
    PROVE  DotsResolved(segs) = segs
  <1>. DEFINE n == Len(segs)
              Next1(v, s) == IF s = <<".">> THEN v
                             ELSE IF s = <<".", ".">>
                               THEN IF v = << >> THEN << >> ELSE Front(v)
                             ELSE Append(v, s)
              Fits(h) == h = [k \in 0 .. n |-> IF k = 0 THEN << >> ELSE Next1(h[k - 1], segs[k])]
              g == [k \in 0 .. n |-> SubSeq(segs, 1, k)]
              c == CHOOSE h : Fits(h)
  <1>1. n \in Nat /\ DOMAIN segs = 1 .. n
    OBVIOUS
  <1>2. \A k \in 1 .. n : /\ SubSeq(segs, 1, k) = Append(SubSeq(segs, 1, k - 1), segs[k])
                          /\ \A v : Next1(v, segs[k]) = Append(v, segs[k])
    <2>. SUFFICES ASSUME NEW k \in 1 .. n
                  PROVE  /\ SubSeq(segs, 1, k) = Append(SubSeq(segs, 1, k - 1), segs[k])
                         /\ \A v : Next1(v, segs[k]) = Append(v, segs[k])
      OBVIOUS
    <2>1. SubSeq(segs, 1, k) = SubSeq(segs, 1, k - 1) \o <<segs[k]>>
      BY <1>1, SubSeqRecursiveSecond
    <2>2. SubSeq(segs, 1, k - 1) \in Seq(T) /\ segs[k] \in T
      BY <1>1
    <2>. QED  BY <1>1, <2>1, <2>2, AppendIsConcat
  <1>. HIDE DEF Next1
  <1>3. Fits(g)
    <2>1. SubSeq(segs, 1, 0) = << >>
      BY SubSeqEmpty
    <2>. HIDE DEF n
    <2>2. \A k \in 0 .. n : SubSeq(segs, 1, k)
                               = IF k = 0 THEN << >> ELSE Next1(g[k - 1], segs[k])
      <3>. SUFFICES ASSUME NEW k \in 0 .. n
                    PROVE  SubSeq(segs, 1, k) = IF k = 0 THEN << >> ELSE Next1(g[k - 1], segs[k])
        OBVIOUS
      <3>1. CASE k = 0
        BY <2>1, <3>1
      <3>2. CASE k # 0
        <4>1. k \in 1 .. n /\ k - 1 \in 0 .. n
          BY <1>1, <3>2
        <4>2. g[k - 1] = SubSeq(segs, 1, k - 1)
          BY <4>1
        <4>. HIDE DEF g
        <4>. QED  BY <1>2, <3>2, <4>1, <4>2
      <3>. QED  BY <3>1, <3>2
    <2>. QED  BY <2>2
  <1>4. Fits(c)
    <2>. HIDE DEF Fits
    <2>. QED  BY <1>3
  <1>. DEFINE Bad == {k \in 0 .. n : c[k] # SubSeq(segs, 1, k)}
  <1>5. ASSUME Bad # {} PROVE FALSE
    <2>. HIDE DEF c, n
    <2>1. PICK k \in Bad : \A j \in Bad : k <= j
      <3>1. Bad \in SUBSET Nat
        BY <1>1
      <3>. HIDE DEF Bad
      <3>. QED  BY <1>5, <3>1, LeastOf
    <2>2. c[k] = IF k = 0 THEN << >> ELSE Next1(c[k - 1], segs[k])
      BY <1>4, <2>1
    <2>3. k # 0
      <3>1. SubSeq(segs, 1, 0) = << >>
        BY SubSeqEmpty
      <3>. QED  BY <2>1, <2>2, <3>1
    <2>4. k \in 1 .. n /\ c[k - 1] = SubSeq(segs, 1, k - 1)
      BY <1>1, <2>1, <2>3
    <2>. QED  BY <1>2, <2>1, <2>2, <2>3, <2>4
  <1>6. c[n] = segs
    <2>1. SubSeq(segs, 1, n) = segs
      BY SubSeqFull
    <2>. HIDE DEF c, n
    <2>2. n \in 0 .. n /\ Bad = {}
      BY <1>1, <1>5
    <2>. QED  BY <2>1, <2>2
  <1>7. DotsResolved(segs) = c[n]
    BY DEF DotsResolved, Next1
  <1>. QED  BY <1>6, <1>7

-----------------------------------------------------------------------------
(* Templates are made of segments.                                         *)
Segment == {Static} \cup {Named(p) : p \in Param} \cup {CatchAll(p) : p \in Param}

EndpointInv ==
    /\ endpoint = [template |-> endpoint.template, params |-> endpoint.params]
    /\ endpoint.template \in Seq(Segment)

LEMMA EndpointsDeclared == Spec => []EndpointInv
  <1>1. Init => EndpointInv
    BY DEF Init, NoEndpoint, EndpointInv
  <1>2. EndpointInv /\ [Next]_vars => EndpointInv'
    <2>. SUFFICES ASSUME EndpointInv, [Next]_vars PROVE EndpointInv'
      OBVIOUS
    <2>1. ASSUME NEW seg \in Segment, AddSegment(seg) PROVE EndpointInv'
      <3>. HIDE DEF Segment
      <3>1. Append(endpoint.template, seg) \in Seq(Segment)
        BY DEF EndpointInv
      <3>2. endpoint' = [endpoint EXCEPT !.template = Append(@, seg)]
        BY <2>1 DEF AddSegment
      <3>3. endpoint' = [template |-> Append(endpoint.template, seg),
                         params |-> endpoint.params]
        BY <3>2 DEF EndpointInv
      <3>. QED  BY <3>1, <3>3 DEF EndpointInv
    <2>2. ASSUME NEW params, SetParams(params) PROVE EndpointInv'
      <3>1. endpoint' = [template |-> endpoint.template, params |-> params]
        BY <2>2 DEF SetParams, EndpointInv
      <3>. QED  BY <3>1 DEF EndpointInv
    <2>3. ASSUME UNCHANGED endpoint PROVE EndpointInv'
      BY <2>3 DEF EndpointInv
    <2>4. CASE \E seg \in {Static} \cup {Named(p) : p \in Param} \cup {CatchAll(p) : p \in Param} :
                   AddSegment(seg)
      BY <2>1, <2>4 DEF Segment
    <2>5. CASE \E P \in (SUBSET Param) \ {{}} : \E params \in [P -> ParamTypes] : SetParams(params)
      BY <2>2, <2>5
    <2>. QED
      BY <2>3, <2>4, <2>5 DEF Next, DeclareTrait, DeclareItem, AddField, AddVariant, vars
  <1>. QED  BY <1>1, <1>2, PTL DEF Spec

-----------------------------------------------------------------------------
(* What a url is made of.  (A literal is a string, but no prover knows.)   *)
UrlChars ==
    (STRING \cup {"/", "s", "x", "1", "-", "%", "%2F", "%3F", "%25", "%252F"}) \ {"?"}

LEMMA EncodedText ==
    ASSUME NEW t \in Seq(STRING), \A i \in DOMAIN t : t[i] \notin {"%252F", "%3F", "%25"}
    PROVE  /\ EncodeURIComponent(t) \in Seq(UrlChars)
           /\ NoSlash(EncodeURIComponent(t))
           /\ PercentDecode(EncodeURIComponent(t)) = t
           /\ t # << >> => EncodeURIComponent(t) # << >>
           /\ t \notin Dots => EncodeURIComponent(t) \notin Dots
  <1>. DEFINE enc == EncodeURIComponent(t)
  <1>1. /\ Len(t) \in Nat /\ DOMAIN t = 1 .. Len(t) /\ t = [i \in DOMAIN t |-> t[i]]
        /\ \A i \in DOMAIN t : t[i] \in STRING
    BY ElementsOf
  <1>2. /\ DOMAIN enc = 1 .. Len(t)
        /\ \A i \in DOMAIN t : enc[i] = EncodeChar(t[i])
    BY <1>1 DEF EncodeURIComponent
  <1>3. \A i \in DOMAIN t : /\ EncodeChar(t[i]) \in UrlChars /\ EncodeChar(t[i]) # "/"
                            /\ DecodeChar(EncodeChar(t[i])) = t[i]
                            /\ EncodeChar(t[i]) = "." => t[i] = "."
    <2>1. ASSUME NEW c \in STRING, c \notin {"%252F", "%3F", "%25"}
          PROVE  /\ EncodeChar(c) \in UrlChars /\ EncodeChar(c) # "/"
                 /\ DecodeChar(EncodeChar(c)) = c
                 /\ EncodeChar(c) = "." => c = "."
      <3>1. CASE c \in {"/", "?", "%", "%2F"}
        BY <2>1, <3>1 DEF EncodeChar, DecodeChar, UrlChars
      <3>2. CASE c \notin {"/", "?", "%", "%2F"}
        <4>1. EncodeChar(c) = c /\ DecodeChar(c) = c
          BY <2>1, <3>2 DEF EncodeChar, DecodeChar
        <4>. QED  BY <3>2, <4>1 DEF UrlChars
      <3>. QED  BY <3>1, <3>2
    <2>. QED  BY <1>1, <2>1
  <1>4. enc \in Seq(UrlChars) /\ Len(enc) = Len(t)
    <2>1. enc \in [1 .. Len(t) -> UrlChars]
      BY <1>1, <1>3 DEF EncodeURIComponent
    <2>. HIDE DEF enc
    <2>. QED  BY <1>1, <2>1, FunctionIsSeq
  <1>5. PercentDecode(enc) = t
    <2>1. PercentDecode(enc) = [i \in DOMAIN enc |-> DecodeChar(enc[i])]
      BY DEF PercentDecode
    <2>. HIDE DEF enc
    <2>. QED  BY <1>1, <1>2, <1>3, <2>1
  <1>. HIDE DEF enc
  <1>6. t # << >> => enc # << >>
    BY <1>1, <1>4
  <1>7. ASSUME enc \in Dots PROVE t \in Dots
    <2>1. \A i \in DOMAIN t : t[i] = "."
      <3>1. \A i \in DOMAIN enc : enc[i] = "."
        BY <1>7 DEF Dots
      <3>. QED  BY <1>1, <1>2, <1>3, <3>1
    <2>2. Len(t) = 1 \/ Len(t) = 2
      BY <1>4, <1>7 DEF Dots
    <2>3. CASE Len(t) = 1
      <3>1. t = <<".">>
        BY <1>1, <2>1, <2>3
      <3>. QED  BY <3>1 DEF Dots
    <2>4. CASE Len(t) = 2
      <3>1. t = <<".", ".">>
        BY <1>1, <2>1, <2>4
      <3>. QED  BY <3>1 DEF Dots
    <2>. QED  BY <2>2, <2>3, <2>4
  <1>8. NoSlash(enc)
    BY <1>1, <1>2, <1>3 DEF NoSlash
  <1>. QED  BY <1>4, <1>5, <1>6, <1>7, <1>8 DEF enc

LEMMA WrittenNumber ==
    ASSUME NEW t \in {<<"1">>, <<"-", "1">>}
    PROVE  /\ t \in Seq(UrlChars) /\ NoSlash(t) /\ PercentDecode(t) = t
           /\ t # << >> /\ t \notin Dots
  <1>1. "1" \in UrlChars /\ "-" \in UrlChars
    BY DEF UrlChars
  <1>2. t \in Seq(UrlChars)
    <2>1. CASE t = <<"1">>
      BY <1>1, <2>1
    <2>2. CASE t = <<"-", "1">>
      BY <1>1, <2>2
    <2>. QED  BY <2>1, <2>2
  <1>3. \A i \in DOMAIN t : t[i] \in {"1", "-"}
    OBVIOUS
  <1>4. NoSlash(t)
    BY <1>3 DEF NoSlash
  <1>5. PercentDecode(t) = t
    BY <1>3 DEF PercentDecode, DecodeChar
  <1>6. t # << >> /\ t \notin Dots
    <2>1. t[1] # "." /\ Len(t) # 0
      OBVIOUS
    <2>2. \A d \in Dots : d[1] = "."
      BY DEF Dots
    <2>. QED  BY <2>1, <2>2
  <1>. QED  BY <1>2, <1>4, <1>5, <1>6

(* What is not encoded may be read as it is, if it holds no escapes.       *)
LEMMA UnencodedText ==
    ASSUME NEW t \in Seq(STRING),
           \A i \in DOMAIN t : t[i] \notin {"%252F", "%3F", "%25", "%2F", "?"}
    PROVE  t \in Seq(UrlChars) /\ PercentDecode(t) = t
  <1>1. /\ Len(t) \in Nat /\ DOMAIN t = 1 .. Len(t) /\ t = [i \in DOMAIN t |-> t[i]]
        /\ \A i \in DOMAIN t : t[i] \in STRING
    BY ElementsOf
  <1>2. t \in Seq(UrlChars)
    <2>1. t \in [1 .. Len(t) -> UrlChars]
      BY <1>1 DEF UrlChars
    <2>. QED  BY <1>1, <2>1, FunctionIsSeq
  <1>3. PercentDecode(t) = t
    BY <1>1 DEF PercentDecode, DecodeChar
  <1>. QED  BY <1>2, <1>3

(* There is no query to cut off.                                           *)
LEMMA PathIsUrl ==
    ASSUME NEW url \in Seq(UrlChars)
    PROVE  PathOf(url) = url
  <1>1. \A i \in 1 .. Len(url) : url[i] # "?"
    <2>1. \A i \in DOMAIN url : url[i] \in UrlChars
      BY ElementsOf
    <2>. QED  BY <2>1, ElementsOf DEF UrlChars
  <1>2. SelectInSeq(url, LAMBDA c : c = "?") = 0
    BY <1>1 DEF SelectInSeq
  <1>. QED  BY <1>2 DEF PathOf

-----------------------------------------------------------------------------
(* The pieces between the slashes of a url.                                *)
Piece(e, args, i) ==
    IF e.template[i] = Static THEN <<"s">> ELSE Interpolate(e, e.template[i], args)

LEMMA UrlIsSlashed ==
    ASSUME NEW e, NEW args
    PROVE  UrlMethod(e, args) = Slashed([i \in DOMAIN e.template |-> Piece(e, args, i)])
  <1>. DEFINE pieces == [i \in DOMAIN e.template |-> Piece(e, args, i)]
  <1>1. UrlMethod(e, args) = FlattenSeq([i \in DOMAIN e.template |-> <<"/">> \o Piece(e, args, i)])
    BY DEF UrlMethod, Piece
  <1>2. [i \in DOMAIN pieces |-> <<"/">> \o pieces[i]]
            = [i \in DOMAIN e.template |-> <<"/">> \o Piece(e, args, i)]
    OBVIOUS
  <1>. HIDE DEF pieces
  <1>. QED  BY <1>1, <1>2 DEF Slashed, pieces

(* The catch-all at the end of a url splits by itself.                     *)
LEMMA OpenSegments ==
    ASSUME NEW C, "/" \in C, NEW before \in Seq(Seq(C)),
           \A i \in DOMAIN before : NoSlash(before[i]),
           NEW t \in Seq(C)
    PROVE  \E us : /\ Parts(<<"/">> \o t, us, C)
                   /\ us \in Seq(Seq(C)) /\ before \o us \in Seq(Seq(C))
                   /\ Segments(<<"/">> \o t) = us
                   /\ Segments(Slashed(Append(before, t))) = before \o us
  <1>. DEFINE T == Seq(C)
              rest == <<"/">> \o t
              was == <<t>>
  <1>1. rest \in Seq(C) /\ rest # << >> /\ rest[1] = "/"
    OBVIOUS
  <1>2. PICK us : Parts(rest, us, C)
    <2>. HIDE DEF rest
    <2>. QED  BY <1>1, PathHasParts
  <1>3. us \in Seq(T) /\ t \in T
    BY <1>2 DEF Parts
  <1>4. was \in Seq(T) /\ Append(before, t) = before \o was
    <2>. HIDE DEF T
    <2>1. before \in Seq(T)
      BY DEF T
    <2>. QED  BY <1>3, <2>1, AppendIsConcat
  <1>5. Slashed(Append(before, t)) = Slashed(before) \o rest
    <2>1. Slashed(was) = rest
      BY <1>3, SlashedOne DEF T
    <2>. HIDE DEF was, rest
    <2>2. Slashed(before \o was) = Slashed(before) \o Slashed(was)
      BY <1>4, SlashedConcat DEF T
    <2>. QED  BY <1>4, <2>1, <2>2
  <1>6. Slashed(before \o us) = Slashed(before) \o rest
    <2>1. Slashed(before \o us) = Slashed(before) \o Slashed(us)
      BY <1>3, SlashedConcat DEF T
    <2>. QED  BY <1>2, <2>1 DEF Parts
  <1>7. before \o us \in Seq(T) /\ \A i \in DOMAIN (before \o us) : NoSlash((before \o us)[i])
    <2>. DEFINE both == before \o us
    <2>0. before \in Seq(T)
      OBVIOUS
    <2>. HIDE DEF T
    <2>1. /\ both \in Seq(T) /\ Len(both) = Len(before) + Len(us)
          /\ \A i \in 1 .. Len(before) + Len(us) :
                both[i] = IF i <= Len(before) THEN before[i] ELSE us[i - Len(before)]
      BY <1>3, <2>0, ConcatProperties
    <2>2. /\ Len(before) \in Nat /\ Len(us) \in Nat
          /\ DOMAIN before = 1 .. Len(before) /\ DOMAIN us = 1 .. Len(us)
          /\ DOMAIN both = 1 .. Len(before) + Len(us)
      BY <1>3, <2>0, <2>1
    <2>. HIDE DEF both
    <2>3. ASSUME NEW i \in DOMAIN both PROVE NoSlash(both[i])
      <3>1. CASE i <= Len(before)
        <4>1. i \in DOMAIN before /\ both[i] = before[i]
          BY <2>1, <2>2, <3>1
        <4>. QED  BY <4>1
      <3>2. CASE ~ (i <= Len(before))
        <4>1. i - Len(before) \in DOMAIN us /\ both[i] = us[i - Len(before)]
          BY <2>1, <2>2, <3>2
        <4>. QED  BY <1>2, <4>1 DEF Parts
      <3>. QED  BY <3>1, <3>2
    <2>. QED  BY <2>1, <2>3 DEF both
  <1>. DEFINE both == before \o us
  <1>8. Segments(Slashed(both)) = both
    <2>1. both \in Seq(Seq(C)) /\ \A i \in DOMAIN both : NoSlash(both[i])
      BY <1>7
    <2>. HIDE DEF both
    <2>. QED  BY <2>1, SegmentsOfSlashed
  <1>9. us \in Seq(Seq(C)) /\ both \in Seq(Seq(C))
    BY <1>3, <1>7
  <1>10. Segments(Slashed(Append(before, t))) = both
    BY <1>5, <1>6, <1>8
  <1>11. Segments(rest) = us
    <2>1. us \in Seq(Seq(C)) /\ Slashed(us) = rest /\ \A i \in DOMAIN us : NoSlash(us[i])
      BY <1>2 DEF Parts
    <2>. HIDE DEF rest
    <2>. QED  BY <2>1, SegmentsOfSlashed
  <1>. QED  BY <1>2, <1>9, <1>10, <1>11

(* ... and what is left after the other segments is the catch-all again.   *)
LEMMA RestIsText ==
    ASSUME NEW C, "/" \in C, NEW before \in Seq(Seq(C)), NEW us \in Seq(Seq(C)),
           NEW t \in Seq(C), Slashed(us) = <<"/">> \o t
    PROVE  Rest(before \o us, Len(before) + 1) = t
  <1>. DEFINE T == Seq(C)
              both == before \o us
              m == Len(before)
  <1>1. /\ m \in Nat /\ Len(us) \in Nat /\ DOMAIN us = 1 .. Len(us)
        /\ Len(both) = m + Len(us)
        /\ \A k \in 1 .. Len(us) : both[m + k] = us[k]
    <2>1. before \in Seq(T) /\ us \in Seq(T)
      OBVIOUS
    <2>. HIDE DEF T
    <2>. QED  BY <2>1
  <1>. HIDE DEF both, m
  <1>2. /\ Len(both) - (m + 1) + 1 = Len(us)
        /\ \A k \in 1 .. Len(us) : m + 1 + k - 1 = m + k
    BY <1>1
  <1>3. [k \in 1 .. Len(both) - (m + 1) + 1 |-> <<"/">> \o both[m + 1 + k - 1]]
            = [k \in DOMAIN us |-> <<"/">> \o us[k]]
    BY <1>1, <1>2
  <1>4. Rest(both, m + 1) = Tail(<<"/">> \o t)
    BY <1>3 DEF Rest, Slashed
  <1>5. Tail(<<"/">> \o t) = t
    OBVIOUS
  <1>. QED  BY <1>4, <1>5 DEF both, m

(* What the handler reads of its segments.                                 *)
ValueOf(e, segs, i) ==
    IF e.template[i].kind = "catch_all" THEN Rest(segs, i) ELSE segs[i]

LEMMA ReceivedIs ==
    ASSUME NEW e, NEW url, NEW V, NEW args \in [ParamsOf(e.template) -> V], NEW segs,
           ~ NamesHost(url), segs = DotsResolved(Segments(PathOf(url))),
           IF e.template[Len(e.template)].kind = "catch_all"
             THEN Len(segs) >= Len(e.template) ELSE Len(segs) = Len(e.template),
           \A i \in DOMAIN e.template :
               IF e.template[i] = Static THEN segs[i] = <<"s">>
               ELSE /\ ValueOf(e, segs, i) # << >>
                    /\ PercentDecode(ValueOf(e, segs, i)) = args[e.template[i].param]
    PROVE  Received(e, url) = args
  <1>. DEFINE indexOf(p) == CHOOSE i \in DOMAIN e.template :
                                e.template[i] # Static /\ e.template[i].param = p
              found == [p \in ParamsOf(e.template) |-> PercentDecode(ValueOf(e, segs, indexOf(p)))]
  <1>1. Received(e, url) = found
    BY DEF Received, ValueOf
  <1>2. ASSUME NEW p \in ParamsOf(e.template) PROVE found[p] = args[p]
    <2>1. \E i \in DOMAIN e.template : e.template[i] # Static /\ e.template[i].param = p
      BY DEF ParamsOf
    <2>2. /\ indexOf(p) \in DOMAIN e.template /\ e.template[indexOf(p)] # Static
          /\ e.template[indexOf(p)].param = p
      BY <2>1
    <2>. HIDE DEF indexOf
    <2>. QED  BY <2>2
  <1>. HIDE DEF found
  <1>3. found = args
    <2>1. DOMAIN found = ParamsOf(e.template)
      BY DEF found
    <2>2. found = [p \in ParamsOf(e.template) |-> found[p]]
      BY DEF found
    <2>. QED  BY <1>2, <2>1, <2>2
  <1>. QED  BY <1>1, <1>3

(* Each piece stands for its argument, and only a catch-all has slashes.   *)
LEMMA PieceOfArgument ==
    ASSUME NEW e, e.template \in Seq(Segment), NEW args, NEW i \in DOMAIN e.template,
           e.template[i] # Static =>
               /\ args[e.template[i].param] \in TextsOf(e.params[e.template[i].param])
               /\ Carried(e, i, args[e.template[i].param])
    PROVE  /\ Piece(e, args, i) \in Seq(UrlChars)
           /\ Piece(e, args, i) # << >>
           /\ e.template[i].kind # "catch_all" =>
                  NoSlash(Piece(e, args, i)) /\ Piece(e, args, i) \notin Dots
           /\ e.template[i].kind = "catch_all" =>
                  /\ e.template[i] # Static
                  /\ \A s \in ToSet(Segments(<<"/">> \o Piece(e, args, i))) : s \notin Dots
                  /\ i = 1 => Piece(e, args, i)[1] # "/"
           /\ IF e.template[i] = Static THEN Piece(e, args, i) = <<"s">>
              ELSE PercentDecode(Piece(e, args, i)) = args[e.template[i].param]
  <1>. DEFINE seg == e.template[i]
              piece == Piece(e, args, i)
              text == args[seg.param]
              number == {<<"1">>, <<"-", "1">>}
  <1>1. seg \in Segment
    BY ElementsOf
  <1>2. CASE seg = Static
    <2>1. piece = <<"s">> /\ seg.kind = "static"
      BY <1>2 DEF Piece, Static
    <2>2. piece \in Seq(UrlChars)
      <3>1. "s" \in UrlChars
        BY DEF UrlChars
      <3>. HIDE DEF UrlChars
      <3>. QED  BY <2>1, <3>1
    <2>3. piece # << >> /\ NoSlash(piece) /\ piece \notin Dots
      <3>1. piece[1] = "s" /\ Len(piece) = 1 /\ DOMAIN piece = {1}
        BY <2>1
      <3>2. \A d \in Dots : d[1] = "."
        BY DEF Dots
      <3>. HIDE DEF piece
      <3>. QED  BY <3>1, <3>2 DEF NoSlash
    <2>. QED  BY <1>2, <2>1, <2>2, <2>3
  <1>3. CASE seg # Static
    <2>1. PICK p \in Param : seg = Named(p) \/ seg = CatchAll(p)
      BY <1>1, <1>3 DEF Segment
    <2>2. text \in TextsOf(e.params[seg.param]) /\ Carried(e, i, text)
      BY <1>3
    <2>3. \A t \in Texts : t \in Seq(STRING) /\ \A j \in DOMAIN t : t[j] \notin {"%252F", "%3F", "%25"}
      BY TextsAssumption
    <2>4. piece = IF seg.kind = "catch_all" \/ IsNumericRust(e.params[seg.param])
                    THEN text ELSE EncodeURIComponent(text)
      BY <1>3 DEF Piece, Interpolate
    <2>5. IF IsNumericRust(e.params[seg.param]) THEN text \in number ELSE text \in Texts
      BY <2>2 DEF TextsOf
    <2>. HIDE DEF piece, text
    <2>6. CASE seg = CatchAll(p)
      <3>1. /\ seg.kind = "catch_all" /\ piece = text /\ text # << >>
            /\ \A k \in DOMAIN text : text[k] \notin {"?", "%2F"}
            /\ \A s \in ToSet(Segments(<<"/">> \o text)) : s \notin Dots
            /\ i = 1 => text[1] # "/"
        BY <2>2, <2>4, <2>6 DEF CatchAll, Carried
      <3>2. text \in Seq(UrlChars) /\ PercentDecode(text) = text
        <4>1. CASE text \in number
          BY <4>1, WrittenNumber
        <4>2. CASE text \in Texts
          <5>1. /\ text \in Seq(STRING)
                /\ \A k \in DOMAIN text : text[k] \notin {"%252F", "%3F", "%25", "%2F", "?"}
            BY <2>3, <3>1, <4>2
          <5>. QED  BY <5>1, UnencodedText
        <4>. QED  BY <2>5, <4>1, <4>2
      <3>. QED  BY <1>3, <3>1, <3>2 DEF piece, text
    <2>7. CASE seg = Named(p)
      <3>1. seg.kind # "catch_all" /\ text # << >> /\ text \notin Dots
        BY <2>2, <2>7 DEF Named, Carried, Dots
      <3>2. CASE IsNumericRust(e.params[seg.param])
        <4>1. piece = text /\ text \in number
          BY <2>4, <2>5, <3>2
        <4>2. /\ piece \in Seq(UrlChars) /\ NoSlash(piece) /\ PercentDecode(piece) = text
              /\ piece # << >> /\ piece \notin Dots
          BY <4>1, WrittenNumber
        <4>. QED  BY <1>3, <3>1, <4>2 DEF piece, text
      <3>3. CASE ~ IsNumericRust(e.params[seg.param])
        <4>1. piece = EncodeURIComponent(text) /\ text \in Texts
          BY <2>4, <2>5, <3>1, <3>3
        <4>2. /\ piece \in Seq(UrlChars) /\ NoSlash(piece) /\ PercentDecode(piece) = text
              /\ piece # << >> /\ piece \notin Dots
          BY <2>3, <3>1, <4>1, EncodedText
        <4>. QED  BY <1>3, <3>1, <4>2 DEF piece, text
      <3>. QED  BY <3>2, <3>3
    <2>. QED  BY <2>1, <2>6, <2>7
  <1>. QED  BY <1>2, <1>3

LEMMA SecondOfSlashed ==
    ASSUME NEW C, "/" \in C, NEW segs \in Seq(Seq(C)), segs # << >>, segs[1] # << >>
    PROVE  Slashed(segs)[2] = segs[1][1]
  <1>. DEFINE T == Seq(C)
              first == <<segs[1]>>
              head == <<"/">> \o segs[1]
              others == Tail(segs)
  <1>1. segs[1] \in T /\ first \in Seq(T) /\ others \in Seq(T) /\ segs = first \o others
    <2>1. segs \in Seq(T)
      OBVIOUS
    <2>. HIDE DEF T
    <2>2. segs[1] \in T /\ others \in Seq(T)
      BY <2>1
    <2>3. segs = <<Head(segs)>> \o others /\ Head(segs) = segs[1]
      BY <2>1
    <2>. QED  BY <2>2, <2>3
  <1>2. Slashed(segs) = head \o Slashed(others)
    <2>1. Slashed(first) = head
      BY <1>1, SlashedOne
    <2>. HIDE DEF first, others
    <2>2. Slashed(first \o others) = Slashed(first) \o Slashed(others)
      BY <1>1, SlashedConcat DEF T
    <2>. QED  BY <1>1, <2>1, <2>2
  <1>3. Slashed(others) \in Seq(C)
    <2>. HIDE DEF others
    <2>1. Openings(others) \in Seq(Seq(C)) /\ Slashed(others) = FlattenSeq(Openings(others))
      BY <1>1, OpeningsTyped DEF T
    <2>. QED  BY <2>1, Flattened, FlattensTo
  <1>4. /\ head \in Seq(C) /\ Len(head) \in Nat /\ Len(head) >= 2
        /\ head[2] = segs[1][1]
    BY <1>1
  <1>. HIDE DEF head, others
  <1>5. (head \o Slashed(others))[2] = head[2]
    BY <1>3, <1>4
  <1>. QED  BY <1>2, <1>4, <1>5

(* What the builder makes of the arguments is what the handler reads.      *)
LEMMA UrlArrives ==
    ASSUME NEW e, e.template \in Seq(Segment), e.template # << >>, RawMounts(e),
           NEW V, NEW args \in [ParamsOf(e.template) -> V],
           \A i \in DOMAIN e.template : e.template[i] # Static =>
               /\ args[e.template[i].param] \in TextsOf(e.params[e.template[i].param])
               /\ Carried(e, i, args[e.template[i].param])
    PROVE  Received(e, UrlMethod(e, args)) = args
  <1>. DEFINE C == UrlChars
              T == Seq(C)
              D == DOMAIN e.template
              n == Len(e.template)
              pieces == [i \in D |-> Piece(e, args, i)]
              url == UrlMethod(e, args)
  <1>1. n \in Nat /\ n # 0 /\ D = 1 .. n /\ n \in D
    <2>. HIDE DEF Segment
    <2>. QED  OBVIOUS
  <1>2. \A i \in D :
            /\ pieces[i] \in T /\ pieces[i] # << >>
            /\ e.template[i].kind # "catch_all" => NoSlash(pieces[i]) /\ pieces[i] \notin Dots
            /\ e.template[i].kind = "catch_all" =>
                   /\ e.template[i] # Static
                   /\ \A s \in ToSet(Segments(<<"/">> \o pieces[i])) : s \notin Dots
                   /\ i = 1 => pieces[i][1] # "/"
            /\ IF e.template[i] = Static THEN pieces[i] = <<"s">>
               ELSE PercentDecode(pieces[i]) = args[e.template[i].param]
    BY PieceOfArgument
  <1>3. pieces \in Seq(T) /\ Len(pieces) = n
    <2>1. pieces \in [1 .. n -> T]
      <3>. HIDE DEF T
      <3>. QED  BY <1>1, <1>2
    <2>. HIDE DEF pieces, T, n
    <2>. QED  BY <1>1, <2>1, FunctionIsSeq
  <1>4. url = Slashed(pieces)
    BY UrlIsSlashed
  <1>5. "/" \in C
    BY DEF UrlChars
  <1>6. PathOf(url) = url
    <2>1. Openings(pieces) \in Seq(Seq(C)) /\ Slashed(pieces) = FlattenSeq(Openings(pieces))
      <3>. HIDE DEF pieces, C
      <3>. QED  BY <1>3, <1>5, OpeningsTyped DEF T
    <2>2. Slashed(pieces) \in Seq(C)
      <3>. HIDE DEF pieces, C
      <3>. QED  BY <2>1, Flattened, FlattensTo
    <2>. HIDE DEF pieces, url
    <2>. QED  BY <1>4, <2>2, PathIsUrl
  <1>7. \A i \in D : e.template[i].kind = "catch_all" => i = n
    BY DEF RawMounts
  <1>10. ~ NamesHost(url)
    <2>1. pieces[1] \in T /\ pieces[1] # << >> /\ pieces[1][1] # "/"
      <3>1. 1 \in D
        BY <1>1
      <3>2. e.template[1].kind = "catch_all" \/ NoSlash(pieces[1])
        BY <1>2, <3>1
      <3>3. pieces[1] \in Seq(C) /\ pieces[1] # << >> => 1 \in DOMAIN pieces[1]
        <4>. HIDE DEF pieces, C
        <4>. QED  OBVIOUS
      <3>. QED  BY <1>2, <3>1, <3>2, <3>3 DEF NoSlash
    <2>. HIDE DEF pieces, url, C, n
    <2>2. Slashed(pieces)[2] = pieces[1][1]
      BY <1>1, <1>3, <1>5, <2>1, SecondOfSlashed
    <2>. QED  BY <1>4, <2>1, <2>2 DEF NamesHost
  <1>. HIDE DEF pieces, url, n, D, C
  <1>8. CASE e.template[n].kind # "catch_all"
    <2>1. \A i \in D : e.template[i].kind # "catch_all"
      BY <1>7, <1>8
    <2>2. Segments(url) = pieces
      <3>1. \A i \in D : NoSlash(pieces[i])
        BY <1>2, <2>1
      <3>2. DOMAIN pieces = D
        <4>. HIDE DEF T
        <4>. QED  BY <1>1, <1>3
      <3>3. pieces \in Seq(Seq(C))
        BY <1>3
      <3>. QED  BY <1>4, <1>5, <3>1, <3>2, <3>3, SegmentsOfSlashed
    <2>3. DotsResolved(pieces) = pieces
      <3>1. \A i \in DOMAIN pieces : pieces[i] # <<".">> /\ pieces[i] # <<".", ".">>
        BY <1>1, <1>2, <1>3, <2>1 DEF Dots
      <3>. QED  BY <1>3, <3>1, DotsStay
    <2>4. pieces = DotsResolved(Segments(PathOf(url)))
      BY <1>6, <2>2, <2>3
    <2>5. \A i \in D :
              IF e.template[i] = Static THEN pieces[i] = <<"s">>
              ELSE /\ ValueOf(e, pieces, i) # << >>
                   /\ PercentDecode(ValueOf(e, pieces, i)) = args[e.template[i].param]
      BY <1>2, <2>1 DEF ValueOf
    <2>6. Received(e, url) = args
      BY <1>3, <1>8, <1>10, <2>4, <2>5, ReceivedIs DEF n, D
    <2>. QED  BY <2>6 DEF url
  <1>9. CASE e.template[n].kind = "catch_all"
    <2>1. PICK before \in Seq(T), t \in T : pieces = Append(before, t)
      <3>. HIDE DEF T
      <3>1. pieces # << >>
        BY <1>1, <1>3
      <3>. QED  BY <1>3, <3>1, SequenceEmptyOrAppend
    <2>2. /\ Len(before) \in Nat /\ n = Len(before) + 1 /\ DOMAIN before = 1 .. Len(before)
          /\ pieces[n] = t
          /\ \A i \in DOMAIN before : i \in D /\ i # n /\ before[i] = pieces[i]
      <3>. HIDE DEF T
      <3>1. /\ Len(before) \in Nat /\ DOMAIN before = 1 .. Len(before)
            /\ Len(pieces) = Len(before) + 1 /\ pieces[Len(before) + 1] = t
            /\ \A i \in 1 .. Len(before) : before[i] = pieces[i]
        BY <2>1
      <3>. QED  BY <1>1, <1>3, <3>1
    <2>3. t # << >> /\ \A s \in ToSet(Segments(<<"/">> \o t)) : s \notin Dots
      BY <1>1, <1>2, <1>9, <2>2
    <2>4. \A i \in DOMAIN before : NoSlash(before[i]) /\ before[i] \notin Dots
      BY <1>2, <1>7, <2>2
    <2>5. before \in Seq(Seq(C)) /\ t \in Seq(C)
      BY <2>1
    <2>6. PICK us : /\ Parts(<<"/">> \o t, us, C)
                    /\ us \in Seq(Seq(C)) /\ before \o us \in Seq(Seq(C))
                    /\ Segments(<<"/">> \o t) = us
                    /\ Segments(Slashed(Append(before, t))) = before \o us
      BY <1>5, <2>4, <2>5, OpenSegments
    <2>. DEFINE segs == before \o us
    <2>7. us # << >> /\ Slashed(us) = <<"/">> \o t
      BY <2>6 DEF Parts
    <2>8. /\ Len(us) \in Nat /\ Len(us) # 0 /\ DOMAIN us = 1 .. Len(us)
          /\ Len(segs) = Len(before) + Len(us) /\ DOMAIN segs = 1 .. Len(before) + Len(us)
          /\ \A i \in DOMAIN before : segs[i] = before[i]
          /\ \A i \in DOMAIN segs : ~ (i <= Len(before)) =>
                 i - Len(before) \in DOMAIN us /\ segs[i] = us[i - Len(before)]
      <3>1. before \in Seq(T) /\ us \in Seq(T)
        BY <2>5, <2>6
      <3>. HIDE DEF T
      <3>. QED  BY <2>2, <2>7, <3>1
    <2>9. \A i \in DOMAIN us : us[i] \notin Dots
      <3>1. \A i \in DOMAIN us : us[i] \in ToSet(us)
        BY DEF ToSet
      <3>. QED  BY <2>3, <2>6, <3>1
    <2>10. Segments(url) = segs
      BY <1>4, <2>1, <2>6
    <2>11. Rest(segs, n) = t
      <3>1. us \in Seq(Seq(C)) /\ Slashed(us) = <<"/">> \o t
        BY <2>6, <2>7
      <3>2. Rest(before \o us, Len(before) + 1) = t
        BY <1>5, <2>5, <3>1, RestIsText
      <3>. QED  BY <2>2, <3>2
    <2>12. segs \in Seq(T)
      BY <2>6
    <2>. HIDE DEF segs
    <2>13. \A i \in DOMAIN segs : segs[i] \notin Dots
      <3>. SUFFICES ASSUME NEW i \in DOMAIN segs PROVE segs[i] \notin Dots
        OBVIOUS
      <3>1. CASE i <= Len(before)
        <4>1. i \in DOMAIN before
          BY <2>2, <2>8, <3>1
        <4>. QED  BY <2>4, <2>8, <4>1
      <3>2. CASE ~ (i <= Len(before))
        BY <2>8, <2>9, <3>2
      <3>. QED  BY <3>1, <3>2
    <2>14. DotsResolved(segs) = segs
      <3>1. \A i \in DOMAIN segs : segs[i] # <<".">> /\ segs[i] # <<".", ".">>
        BY <2>13 DEF Dots
      <3>. QED  BY <2>12, <3>1, DotsStay
    <2>15. segs = DotsResolved(Segments(PathOf(url)))
      BY <1>6, <2>10, <2>14
    <2>16. Len(segs) >= n
      BY <2>2, <2>8
    <2>17. \A i \in D :
              IF e.template[i] = Static THEN segs[i] = <<"s">>
              ELSE /\ ValueOf(e, segs, i) # << >>
                   /\ PercentDecode(ValueOf(e, segs, i)) = args[e.template[i].param]
      <3>. SUFFICES ASSUME NEW i \in D
                    PROVE  IF e.template[i] = Static THEN segs[i] = <<"s">>
                           ELSE /\ ValueOf(e, segs, i) # << >>
                                /\ PercentDecode(ValueOf(e, segs, i)) = args[e.template[i].param]
        OBVIOUS
      <3>1. CASE i = n
        <4>1. e.template[i] # Static /\ ValueOf(e, segs, i) = pieces[i]
          BY <1>2, <1>9, <2>2, <2>11, <3>1 DEF ValueOf
        <4>. QED  BY <1>2, <4>1
      <3>2. CASE i # n
        <4>1. e.template[i].kind # "catch_all"
          BY <1>7, <3>2
        <4>2. i \in DOMAIN before
          BY <1>1, <2>2, <3>2
        <4>3. segs[i] = pieces[i] /\ ValueOf(e, segs, i) = pieces[i]
          BY <2>2, <2>8, <4>1, <4>2 DEF ValueOf
        <4>. QED  BY <1>2, <4>3
      <3>. QED  BY <3>1, <3>2
    <2>18. Received(e, url) = args
      BY <1>9, <1>10, <2>15, <2>16, <2>17, ReceivedIs DEF n, D
    <2>. QED  BY <2>18 DEF url
  <1>. QED  BY <1>8, <1>9

(* A url takes its arguments to the handler: whatever the text of a String *)
(* parameter, of any length and with any slashes, percent and question     *)
(* marks, for every template that TypeScript and axum accept, the handler  *)
(* finds it under its parameter, and a catch-all its path (which texts of  *)
(* a catch-all are a path, Carried says).                                  *)
THEOREM UrlsRoundTrip == Spec => []UrlRoundTrips
  <1>1. EndpointInv => UrlRoundTrips
    <2>. DEFINE e == endpoint
                V == UNION {TextsOf(ty) : ty \in ParamTypes}
    <2>. SUFFICES ASSUME EndpointInv, RawAccepted(e), RawTypechecks(e), RawMounts(e),
                         NEW args \in [ParamsOf(e.template) -> V],
                         \A p \in DOMAIN args : args[p] \in TextsOf(e.params[p]),
                         \A i \in DOMAIN e.template : e.template[i] # Static =>
                             Carried(e, i, args[e.template[i].param])
                  PROVE  Received(e, UrlMethod(e, args)) = args
      BY DEF UrlRoundTrips, Usable, Calls, AllCarried
    <2>1. e.template \in Seq(Segment) /\ e.template # << >>
      BY DEF EndpointInv, RawAccepted
    <2>2. \A i \in DOMAIN e.template : e.template[i] # Static =>
              /\ args[e.template[i].param] \in TextsOf(e.params[e.template[i].param])
              /\ Carried(e, i, args[e.template[i].param])
      <3>. HIDE DEF V
      <3>1. DOMAIN args = ParamsOf(e.template)
        OBVIOUS
      <3>2. \A i \in DOMAIN e.template : e.template[i] # Static =>
                e.template[i].param \in ParamsOf(e.template)
        BY DEF ParamsOf
      <3>. QED  BY <3>1, <3>2
    <2>. HIDE DEF e, V
    <2>. QED  BY <2>1, <2>2, UrlArrives
  <1>. QED  BY <1>1, EndpointsDeclared, PTL
=============================================================================
