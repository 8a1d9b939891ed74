--------------------------- MODULE ApiCallProofs ----------------------------
(***************************************************************************)
(* What TLAPS proves about one call through a generated API (ApiCall), for *)
(* any types of parameters and results and any bounds: what an outcome     *)
(* says of the server; that the TypeScript signature is that of the Rust   *)
(* types, however deep they nest; and that the arguments arrive, in a body *)
(* as in a query string.                                                   *)
(***************************************************************************)
EXTENDS ApiCall, WellFoundedInduction, TLAPS

(* Nobody is told of an error before the call has settled, and the server  *)
(* has no response before it is done, and a whole one then.                *)
ToldAtTheEnd == client # "settled" => observed = << >>

ResponseIsWhole ==
    IF server = "done"
      THEN response = [status |-> response.status, body |-> response.body]
      ELSE response = Pending

Methods == [markers : Seq(Markers), params : Seq(ParamTypes),
            ret : ReturnTypes, fallible : BOOLEAN]

LinkOK == hasId \in BOOLEAN /\ registered \in BOOLEAN /\ (registered => hasId)

CallInv == TypeOK /\ ToldAtTheEnd /\ ResponseIsWhole /\ OutcomeIsTrue

(* What an outcome is.                                                     *)
LEMMA Outcomes ==
    /\ \A v : LET o == [value |-> v] IN
          o # Pending /\ DOMAIN o = {"value"} /\ o.value = v
    /\ \A c, st, b : LET o == [code |-> c, status |-> st, body |-> b] IN
          /\ o # Pending /\ DOMAIN o = {"code", "status", "body"}
          /\ o.status = st
    /\ LET o == [thrown |-> "TypeError"] IN
          o # Pending /\ DOMAIN o = {"thrown"}
    /\ \A st, b : LET r == [status |-> st, body |-> b] IN
          r # Pending /\ r.status = st /\ r.body = b
    /\ DOMAIN Pending = {"pending"}
  <1>1. DOMAIN Pending = {"pending"}
    BY DEF Pending
  <1>2. ASSUME NEW v
        PROVE  [value |-> v] # Pending /\ DOMAIN [value |-> v] = {"value"}
    <2>1. DOMAIN [value |-> v] = {"value"}
      OBVIOUS
    <2>. QED  BY <1>1, <2>1
  <1>3. ASSUME NEW c, NEW st, NEW b
        PROVE  /\ [code |-> c, status |-> st, body |-> b] # Pending
               /\ DOMAIN [code |-> c, status |-> st, body |-> b] = {"code", "status", "body"}
    <2>1. DOMAIN [code |-> c, status |-> st, body |-> b] = {"code", "status", "body"}
      OBVIOUS
    <2>. QED  BY <1>1, <2>1
  <1>4. /\ [thrown |-> "TypeError"] # Pending
        /\ DOMAIN [thrown |-> "TypeError"] = {"thrown"}
    <2>1. DOMAIN [thrown |-> "TypeError"] = {"thrown"}
      OBVIOUS
    <2>. QED  BY <1>1, <2>1
  <1>5. ASSUME NEW st, NEW b
        PROVE  [status |-> st, body |-> b] # Pending
    <2>1. DOMAIN [status |-> st, body |-> b] = {"status", "body"}
      OBVIOUS
    <2>. QED  BY <1>1, <2>1
  <1>. QED  BY <1>1, <1>2, <1>3, <1>4, <1>5

-----------------------------------------------------------------------------
(* A method is declared: nothing was called yet.                           *)
LEMMA InitCall == Init => CallInv
  <1>. SUFFICES ASSUME Init PROVE CallInv
    OBVIOUS
  <1>1. method \in [markers : Seq(Markers), params : Seq(ParamTypes),
                    ret : ReturnTypes, fallible : BOOLEAN]
    <2>1. << >> \in Seq(Markers) /\ << >> \in Seq(ParamTypes)
      OBVIOUS
    <2>2. \A S, T : << >> \in S /\ << >> \in T =>
              [markers : {<< >>}, params : {<< >>}, ret : ReturnTypes,
               fallible : BOOLEAN]
                 \subseteq [markers : S, params : T, ret : ReturnTypes,
                            fallible : BOOLEAN]
      OBVIOUS
    <2>. QED  BY <2>1, <2>2 DEF Init
  <1>2. /\ build = "declaring" /\ hasId = FALSE /\ registered = FALSE
        /\ client = "idle" /\ server = "idle" /\ response = Pending
        /\ outcome = Pending /\ observed = << >>
    BY DEF Init
  <1>3. TypeOK
    <2>1. Len(observed) = 0
      BY <1>2
    <2>2. Len(observed) <= 1
      BY <2>1
    <2>3. client = "settled" <=> outcome # Pending
      BY <1>2
    <2>. QED  BY <1>1, <1>2, <2>2, <2>3 DEF TypeOK
  <1>. QED
    BY <1>2, <1>3 DEF CallInv, ToldAtTheEnd, ResponseIsWhole, OutcomeIsTrue

(* Steps of the declaration and of the event socket, and the call itself.  *)
LEMMA QuietSteps ==
    ASSUME CallInv,
           UNCHANGED <<serverVars, outcome, observed>>,
           (client' = "settled") <=> (client = "settled"),
           client' = "reading" <=> client = "reading",
           client' \in {"idle", "waiting", "reading", "settled"},
           method' \in Methods,
           build' \in {"declaring", "built", "panicked"},
           LinkOK'
    PROVE  CallInv'
  BY DEF CallInv, TypeOK, ToldAtTheEnd, ResponseIsWhole, OutcomeIsTrue,
         IsResult, IsRpcError, WasHandled, serverVars, Methods, LinkOK

(* A value that settles the call is the body of a good response.           *)
LEMMA SettleCall ==
    ASSUME CallInv, client \in {"waiting", "reading"}, client' = "settled",
           UNCHANGED <<decl, link, serverVars>>,
           \/ /\ outcome' = [value |-> response.body] /\ observed' = observed
              /\ client = "reading" /\ response.status = 200
           \/ \E code : /\ outcome' = [code |-> code, status |-> 0, body |-> Null]
                       /\ observed' = Append(observed, outcome')
           \/ \E code, body :
                 /\ outcome' = [code |-> code, status |-> response.status, body |-> body]
                 /\ observed' = Append(observed, outcome')
                 /\ client = "reading"
           \/ /\ outcome' = [thrown |-> "TypeError"] /\ observed' = observed
              /\ client = "reading" /\ response.status # 200
    PROVE  CallInv'
  <1>1. observed = << >> /\ (client = "reading" => server = "done")
    BY DEF CallInv, ToldAtTheEnd, TypeOK
  <1>2. outcome' # Pending /\ observed' \in {<< >>, <<outcome'>>}
    BY <1>1, Outcomes
  <1>3. TypeOK'
    BY <1>2 DEF CallInv, TypeOK, decl, link, serverVars
  <1>4. ToldAtTheEnd' /\ ResponseIsWhole'
    BY DEF CallInv, ToldAtTheEnd, ResponseIsWhole, serverVars
  <1>5. OutcomeIsTrue'
    <2>. USE DEF OutcomeIsTrue, IsResult, IsRpcError, WasHandled, serverVars
    <2>1. CASE /\ outcome' = [value |-> response.body] /\ observed' = observed
               /\ client = "reading" /\ response.status = 200
      <3>1. DOMAIN outcome' = {"value"} /\ outcome'.value = response.body
        BY <2>1, Outcomes
      <3>2. response = [status |-> 200, body |-> response.body] /\ server = "done"
        BY <1>1, <2>1 DEF CallInv, ResponseIsWhole
      <3>. QED  BY <1>1, <2>1, <3>1, <3>2
    <2>2. ASSUME NEW code, outcome' = [code |-> code, status |-> 0, body |-> Null],
                 observed' = Append(observed, outcome')
          PROVE  OutcomeIsTrue'
      <3>1. DOMAIN outcome' = {"code", "status", "body"} /\ outcome'.status = 0
        BY <2>2, Outcomes
      <3>2. observed' = <<outcome'>>
        BY <1>1, <2>2
      <3>. QED  BY <3>1, <3>2
    <2>3. ASSUME NEW code, NEW body,
                 outcome' = [code |-> code, status |-> response.status, body |-> body],
                 observed' = Append(observed, outcome'), client = "reading"
          PROVE  OutcomeIsTrue'
      <3>1. /\ DOMAIN outcome' = {"code", "status", "body"}
            /\ outcome'.status = response.status
        BY <2>3, Outcomes
      <3>2. observed' = <<outcome'>>
        BY <1>1, <2>3
      <3>. QED  BY <1>1, <2>3, <3>1, <3>2
    <2>4. CASE /\ outcome' = [thrown |-> "TypeError"] /\ observed' = observed
               /\ client = "reading" /\ response.status # 200
      <3>1. DOMAIN outcome' = {"thrown"}
        BY <2>4, Outcomes
      <3>. QED  BY <1>1, <2>4, <3>1
    <2>. QED  BY <2>1, <2>2, <2>3, <2>4
  <1>. QED  BY <1>3, <1>4, <1>5 DEF CallInv

(* The server moves on before it is done, and a call that has settled by   *)
(* then has no value and no status.                                        *)
LEMMA ServerStep ==
    ASSUME CallInv, server # "done", UNCHANGED <<decl, link, client, outcome, observed>>,
           \/ server' = "handling" /\ response' = response
           \/ \E status \in Status : \E body : Answer(status, body)
    PROVE  CallInv'
  <1>1. /\ response = Pending
        /\ client # "reading"
        /\ client = "settled" =>
              ~ IsResult /\ IsRpcError /\ outcome.status = 0
    <2>1. response = Pending /\ client # "reading"
      BY DEF CallInv, ResponseIsWhole, TypeOK
    <2>. QED  BY <2>1, Outcomes DEF CallInv, OutcomeIsTrue, WasHandled
  <1>2. /\ server' \in {"handling", "done"}
        /\ server' = "done" =>
              /\ response' = [status |-> response'.status, body |-> response'.body]
              /\ response'.status \in Status
        /\ server' # "done" => response' = Pending
    BY <1>1 DEF Answer
  <1>3. TypeOK'
    BY <1>1, <1>2 DEF CallInv, TypeOK, decl, link
  <1>4. ToldAtTheEnd' /\ ResponseIsWhole'
    BY <1>2 DEF CallInv, ToldAtTheEnd, ResponseIsWhole
  <1>5. OutcomeIsTrue'
    BY <1>1 DEF CallInv, OutcomeIsTrue, IsResult, IsRpcError
  <1>. QED  BY <1>3, <1>4, <1>5 DEF CallInv

(* Every step keeps the invariant.                                         *)
LEMMA NextCall == CallInv /\ [Next]_vars => CallInv'
  <1>. SUFFICES ASSUME CallInv, [Next]_vars PROVE CallInv'
    OBVIOUS
  <1>0. /\ method \in Methods
        /\ build \in {"declaring", "built", "panicked"}
        /\ client \in {"idle", "waiting", "reading", "settled"}
        /\ LinkOK
    BY DEF CallInv, TypeOK, Methods, LinkOK
  <1>a. UNCHANGED link => LinkOK'
    BY <1>0 DEF LinkOK, link
  <1>. USE DEF decl, link, callVars, serverVars
  <1>1. ASSUME NEW verb \in Markers, Mark(verb) PROVE CallInv'
    <2>1. Append(method.markers, verb) \in Seq(Markers)
      BY <1>0 DEF Methods
    <2>2. method' = [method EXCEPT !.markers = Append(method.markers, verb)]
      BY <1>1 DEF Mark
    <2>3. method' \in Methods
      BY <1>0, <2>1, <2>2 DEF Methods
    <2>. QED  BY <1>0, <1>a, <1>1, <2>3, QuietSteps DEF Mark
  <1>2. ASSUME NEW ty \in ParamTypes, AddParam(ty) PROVE CallInv'
    <2>1. Append(method.params, ty) \in Seq(ParamTypes)
      BY <1>0 DEF Methods
    <2>2. method' = [method EXCEPT !.params = Append(method.params, ty)]
      BY <1>2 DEF AddParam
    <2>3. method' \in Methods
      BY <1>0, <2>1, <2>2 DEF Methods
    <2>. QED  BY <1>0, <1>a, <1>2, <2>3, QuietSteps DEF AddParam
  <1>3. CASE Generate \/ Connects \/ Disconnects
    <2>1. Connects \/ Disconnects => LinkOK'
      BY <1>0 DEF Connects, Disconnects, LinkOK
    <2>. QED  BY <1>0, <1>a, <1>3, <2>1, QuietSteps DEF Generate, Connects, Disconnects
  <1>4. ASSUME NEW given \in ArgValues, Call(given) PROVE CallInv'
    BY <1>0, <1>a, <1>4, QuietSteps DEF Call
  <1>5. CASE FetchFails
    BY <1>5, SettleCall DEF FetchFails, Fail, SettleWith
  <1>6. CASE FetchResolves
    BY <1>6 DEF FetchResolves, CallInv, TypeOK, ToldAtTheEnd, ResponseIsWhole,
       OutcomeIsTrue, IsResult, IsRpcError, WasHandled
  <1>7. CASE ReadBody
    BY <1>7, SettleCall DEF ReadBody, Fail, SettleWith
  <1>8. CASE BodyFails
    BY <1>8, SettleCall DEF BodyFails, Fail, SettleWith
  <1>9. CASE Serve
    BY <1>9, ServerStep DEF Serve, Answer, Status
  <1>10. CASE Returns
    BY <1>10, ServerStep DEF Returns, Answer, Status
  <1>11. CASE UNCHANGED vars
    BY <1>0, <1>a, <1>11, QuietSteps DEF vars
  <1>. QED
    BY <1>1, <1>2, <1>3, <1>4, <1>5, <1>6, <1>7, <1>8, <1>9, <1>10, <1>11 DEF Next

(* A call keeps to its protocol: one side waits for the other, and an      *)
(* error is told once.                                                     *)
THEOREM CallTypeCorrect == Spec => []TypeOK
  <1>1. CallInv => TypeOK
    BY DEF CallInv
  <1>. QED  BY <1>1, InitCall, NextCall, PTL DEF Spec

(* Wherever the connection breaks, the outcome is no lie: a value is what  *)
(* the method returned, a status is how the server answered, and a failure *)
(* is an RpcError that the observers were given, once, unless the body of  *)
(* an answer that is not ok broke off.                                     *)
THEOREM OutcomeIsTheServers == Spec => []OutcomeIsTrue
  <1>1. CallInv => OutcomeIsTrue
    BY DEF CallInv
  <1>. QED  BY <1>1, InitCall, NextCall, PTL DEF Spec

-----------------------------------------------------------------------------
(* Induction in the form the proofs use it: if anything goes wrong, there  *)
(* is a first place where it does.                                         *)
LEMMA LeastOf ==
    ASSUME NEW T \in SUBSET Nat, T # {}
    PROVE  \E n \in T : \A k \in T : n <= k
  <1>1. PICK n \in T : \A k \in T : <<k, n>> \notin OpToRel(<, Nat)
    BY NatLessThanWellFounded, WFMin, Zenon
  <1>2. \A k \in T : ~ (k < n)
    BY <1>1, Zenon DEF OpToRel
  <1>. QED  BY <1>2

(* What Values makes of the k innermost of the layers, for every k.        *)
IsLayering(f, layers, S) ==
    /\ f[0] = S
    /\ \A k \in 1 .. Len(layers) : f[k] = Wrap(layers[Len(layers) + 1 - k], f[k - 1])

(* The recursive function in Values exists: if it did not for all layers,  *)
(* there would be a least number of layers for which it does not.          *)
LEMMA LayersExist ==
    ASSUME NEW layers, NEW S, Len(layers) \in Nat
    PROVE  \E f : f = [k \in 0 .. Len(layers) |->
                         IF k = 0 THEN S ELSE Wrap(layers[Len(layers) + 1 - k], f[k - 1])]
  <1>. DEFINE L == Len(layers)
              Up(f, n) == f = [k \in 0 .. n |->
                                 IF k = 0 THEN S ELSE Wrap(layers[L + 1 - k], f[k - 1])]
              Bad == {n \in 0 .. L : ~ \E f : Up(f, n)}
  <1>1. CASE Bad = {}
    BY <1>1
  <1>2. CASE Bad # {}
    <2>1. PICK n \in Bad : \A k \in Bad : n <= k
      <3>1. Bad \subseteq Nat
        OBVIOUS
      <3>. HIDE DEF Bad
      <3>. QED BY <1>2, <3>1, LeastOf
    <2>2. n # 0
      <3>. SUFFICES ASSUME n = 0 PROVE FALSE
        OBVIOUS
      <3>. DEFINE f == [k \in 0 .. 0 |-> S]
      <3>1. Up(f, 0)
        OBVIOUS
      <3>. QED  BY <2>1, <3>1
    <2>3. PICK f : Up(f, n - 1)
      <3>. HIDE DEF Up
      <3>1. n - 1 \in 0 .. L /\ n - 1 \notin Bad
        BY <2>1, <2>2
      <3>. QED BY <3>1
    <2>. DEFINE g == [k \in 0 .. n |-> IF k = n THEN Wrap(layers[L + 1 - n], f[n - 1]) ELSE f[k]]
    <2>4. Up(g, n)
      BY <2>1, <2>2, <2>3
    <2>. QED  BY <2>1, <2>4
  <1>. QED  BY <1>1, <1>2

(* So Values is what the recursion makes of all the layers.                *)
LEMMA ValuesAreLayered ==
    ASSUME NEW layers \in Seq(Layer), NEW S
    PROVE  \E f : IsLayering(f, layers, S) /\ Values(layers, S) = f[Len(layers)]
  <1>. DEFINE L == Len(layers)
              Fits(f) == f = [k \in 0 .. L |->
                                IF k = 0 THEN S ELSE Wrap(layers[L + 1 - k], f[k - 1])]
              f == CHOOSE f : Fits(f)
  <1>1. Fits(f)
    BY LayersExist
  <1>2. Values(layers, S) = f[L]
    BY DEF Values
  <1>3. ASSUME NEW k \in 0 .. L
        PROVE  f[k] = IF k = 0 THEN S ELSE Wrap(layers[L + 1 - k], f[k - 1])
    <2>. HIDE DEF f
    <2>. QED  BY <1>1
  <1>4. IsLayering(f, layers, S)
    <2>1. L \in Nat
      OBVIOUS
    <2>. HIDE DEF f
    <2>. QED  BY <1>3, <2>1 DEF IsLayering
  <1>. QED  BY <1>2, <1>4

(* What the innermost layers make does not depend on those outside them.   *)
LEMMA LayersAgree ==
    ASSUME NEW inner \in Seq(Layer), NEW outer \in Seq(Layer), NEW S, NEW f, NEW g,
           IsLayering(f, inner, S), IsLayering(g, outer, S),
           Len(inner) <= Len(outer),
           \A k \in 1 .. Len(inner) :
               inner[Len(inner) + 1 - k] = outer[Len(outer) + 1 - k]
    PROVE  \A k \in 0 .. Len(inner) : f[k] = g[k]
  <1>. DEFINE Bad == {k \in 0 .. Len(inner) : f[k] # g[k]}
  <1>. SUFFICES ASSUME Bad # {} PROVE FALSE
    OBVIOUS
  <1>1. PICK k \in Bad : \A j \in Bad : k <= j
    <2>1. Bad \subseteq Nat
      OBVIOUS
    <2>. HIDE DEF Bad
    <2>. QED  BY <2>1, LeastOf
  <1>2. k # 0
    BY <1>1 DEF IsLayering
  <1>3. f[k - 1] = g[k - 1]
    BY <1>1, <1>2
  <1>4. /\ f[k] = Wrap(inner[Len(inner) + 1 - k], f[k - 1])
        /\ g[k] = Wrap(outer[Len(outer) + 1 - k], g[k - 1])
    BY <1>1, <1>2 DEF IsLayering
  <1>. QED  BY <1>1, <1>2, <1>3, <1>4

(* A type without Option and Vec, and one with either.                     *)
LEMMA FewLayers ==
    ASSUME NEW S
    PROVE  /\ Values(<< >>, S) = S
           /\ \A w \in Layer : Values(<<w>>, S) = Wrap(w, S)
  <1>1. Values(<< >>, S) = S
    <2>1. PICK f : IsLayering(f, << >>, S) /\ Values(<< >>, S) = f[0]
      <3>1. << >> \in Seq(Layer) /\ Len(<< >>) = 0
        OBVIOUS
      <3>. QED  BY <3>1, ValuesAreLayered
    <2>. QED  BY <2>1 DEF IsLayering
  <1>2. ASSUME NEW w \in Layer PROVE Values(<<w>>, S) = Wrap(w, S)
    <2>1. PICK f : IsLayering(f, <<w>>, S) /\ Values(<<w>>, S) = f[1]
      <3>1. <<w>> \in Seq(Layer) /\ Len(<<w>>) = 1
        OBVIOUS
      <3>. QED  BY <3>1, ValuesAreLayered
    <2>2. f[0] = S /\ f[1] = Wrap(w, f[0])
      BY <2>1 DEF IsLayering
    <2>. QED  BY <2>1, <2>2
  <1>. QED  BY <1>1, <1>2

(* n times Vec.                                                            *)
VecLayers(n) == [j \in 1 .. n |-> "Vec"]

(* One Vec more around n of them.                                          *)
LEMMA VecValues ==
    ASSUME NEW n \in Nat, NEW S
    PROVE  Values(VecLayers(n + 1), S) = Arrays(Values(VecLayers(n), S))
  <1>1. ASSUME NEW m \in Nat
        PROVE  VecLayers(m) \in Seq(Layer) /\ Len(VecLayers(m)) = m
               /\ \A j \in 1 .. m : VecLayers(m)[j] = "Vec"
    BY DEF VecLayers, Layer
  <1>2. PICK f : IsLayering(f, VecLayers(n), S) /\ Values(VecLayers(n), S) = f[n]
    BY <1>1, ValuesAreLayered
  <1>3. PICK g : IsLayering(g, VecLayers(n + 1), S) /\ Values(VecLayers(n + 1), S) = g[n + 1]
    <2>1. n + 1 \in Nat
      OBVIOUS
    <2>2. VecLayers(n + 1) \in Seq(Layer) /\ Len(VecLayers(n + 1)) = n + 1
      BY <1>1, <2>1
    <2>. QED  BY <2>2, ValuesAreLayered
  <1>4. f[n] = g[n]
    BY <1>1, <1>2, <1>3, LayersAgree
  <1>5. g[n + 1] = Wrap("Vec", g[n])
    <2>1. Len(VecLayers(n + 1)) = n + 1 /\ VecLayers(n + 1)[1] = "Vec"
      BY <1>1
    <2>2. n + 1 \in 1 .. n + 1 /\ (n + 1) - 1 = n /\ (n + 1) + 1 - (n + 1) = 1
      OBVIOUS
    <2>. QED  BY <1>3, <2>1, <2>2 DEF IsLayering
  <1>. QED  BY <1>2, <1>3, <1>4, <1>5 DEF Wrap

-----------------------------------------------------------------------------
Alternative == [atom : {"string", "number", "Hit", "null"}, arrays : Nat]

(* What Rendered makes of the k innermost of the layers, for every k.       *)
IsRendering(g, layers, first) ==
    /\ g[0] = first
    /\ \A k \in 1 .. Len(layers) : g[k] = Render(layers[Len(layers) + 1 - k], g[k - 1])

(* The recursive function in Rendered exists, too.                         *)
LEMMA RenderingExists ==
    ASSUME NEW layers, NEW first, Len(layers) \in Nat
    PROVE  \E f : f = [k \in 0 .. Len(layers) |->
                         IF k = 0 THEN first ELSE Render(layers[Len(layers) + 1 - k], f[k - 1])]
  <1>. DEFINE L == Len(layers)
              Up(f, n) == f = [k \in 0 .. n |->
                                 IF k = 0 THEN first ELSE Render(layers[L + 1 - k], f[k - 1])]
              Bad == {n \in 0 .. L : ~ \E f : Up(f, n)}
  <1>1. CASE Bad = {}
    BY <1>1
  <1>2. CASE Bad # {}
    <2>1. PICK n \in Bad : \A k \in Bad : n <= k
      <3>1. Bad \subseteq Nat
        OBVIOUS
      <3>. HIDE DEF Bad
      <3>. QED BY <1>2, <3>1, LeastOf
    <2>2. n # 0
      <3>. SUFFICES ASSUME n = 0 PROVE FALSE
        OBVIOUS
      <3>. DEFINE f == [k \in 0 .. 0 |-> first]
      <3>1. Up(f, 0)
        OBVIOUS
      <3>. QED  BY <2>1, <3>1
    <2>3. PICK f : Up(f, n - 1)
      <3>. HIDE DEF Up
      <3>1. n - 1 \in 0 .. L /\ n - 1 \notin Bad
        BY <2>1, <2>2
      <3>. QED BY <3>1
    <2>. DEFINE g == [k \in 0 .. n |-> IF k = n THEN Render(layers[L + 1 - n], f[n - 1]) ELSE f[k]]
    <2>4. Up(g, n)
      BY <2>1, <2>2, <2>3
    <2>. QED  BY <2>1, <2>4
  <1>. QED  BY <1>1, <1>2

(* So Rendered is what the recursion makes of all the layers.              *)
LEMMA IsRendered ==
    ASSUME NEW layers \in Seq(Layer), NEW first
    PROVE  \E f : IsRendering(f, layers, first) /\ Rendered(layers, first) = f[Len(layers)]
  <1>. DEFINE L == Len(layers)
              Fits(f) == f = [k \in 0 .. L |->
                                IF k = 0 THEN first ELSE Render(layers[L + 1 - k], f[k - 1])]
              f == CHOOSE f : Fits(f)
  <1>1. Fits(f)
    BY RenderingExists
  <1>2. Rendered(layers, first) = f[L]
    BY DEF Rendered
  <1>3. ASSUME NEW k \in 0 .. L
        PROVE  f[k] = IF k = 0 THEN first ELSE Render(layers[L + 1 - k], f[k - 1])
    <2>. HIDE DEF f
    <2>. QED  BY <1>1
  <1>4. IsRendering(f, layers, first)
    <2>1. L \in Nat
      OBVIOUS
    <2>. HIDE DEF f
    <2>. QED  BY <1>3, <2>1 DEF IsRendering
  <1>. QED  BY <1>2, <1>4

-----------------------------------------------------------------------------
(* A value is expected of a rendered type if it is of one alternative.     *)
LEMMA RenderedAlternatives ==
    ASSUME NEW alts
    PROVE  \A v : v \in TsValues(alts) <=>
              \E i \in DOMAIN alts :
                  v \in Values(VecLayers(alts[i].arrays), OfAtom(alts[i].atom))
  BY DEF TsValues, VecLayers

(* A union of one alternative.                                             *)
LEMMA OneAlternative ==
    ASSUME NEW a, NEW n \in Nat
    PROVE  TsValues(<<[atom |-> a, arrays |-> n]>>) = Values(VecLayers(n), OfAtom(a))
  <1>. DEFINE alts == <<[atom |-> a, arrays |-> n]>>
  <1>1. DOMAIN alts = {1} /\ alts[1].atom = a /\ alts[1].arrays = n
    OBVIOUS
  <1>2. \A v : v \in TsValues(alts) <=> v \in Values(VecLayers(n), OfAtom(a))
    <2>. HIDE DEF alts
    <2>. QED  BY <1>1, RenderedAlternatives
  <1>3. TsValues(alts) = Values(VecLayers(n), OfAtom(a))
    <2>. HIDE DEF alts
    <2>. QED  BY <1>2
  <1>. QED  BY <1>3

(* No layers add nothing.                                                  *)
LEMMA NoLayers == ASSUME NEW S PROVE Values(VecLayers(0), S) = S
  <1>1. VecLayers(0) = << >>
    BY DEF VecLayers
  <1>. QED  BY <1>1, FewLayers

(* Option adds null to what is expected, and to nothing else.              *)
LEMMA OptionAlternative ==
    ASSUME NEW alts \in Seq(Alternative)
    PROVE  TsValues(Render("Option", alts)) = TsValues(alts) \cup {Null}
  <1>. DEFINE null == [atom |-> "null", arrays |-> 0]
              more == Append(alts, null)
              Of1(b, v) == v \in Values(VecLayers(b.arrays), OfAtom(b.atom))
  <1>1. /\ DOMAIN more = DOMAIN alts \cup {Len(alts) + 1}
        /\ \A i \in DOMAIN alts : more[i] = alts[i]
        /\ more[Len(alts) + 1] = null
    <2>1. null \in Alternative
      BY DEF Alternative
    <2>. HIDE DEF null
    <2>. QED  BY <2>1
  <1>2. \A v : Of1(null, v) <=> v = Null
    <2>1. null.arrays = 0 /\ null.atom = "null"
      OBVIOUS
    <2>2. OfAtom("null") = {Null}
      BY DEF OfAtom
    <2>. QED  BY <2>1, <2>2, NoLayers
  <1>3. \A v : v \in TsValues(more) <=> \E i \in DOMAIN more : Of1(more[i], v)
    BY RenderedAlternatives
  <1>4. \A v : v \in TsValues(alts) <=> \E i \in DOMAIN alts : Of1(alts[i], v)
    BY RenderedAlternatives
  <1>5. Render("Option", alts) = more
    BY DEF Render
  <1>. HIDE DEF null, more, Of1
  <1>. QED  BY <1>1, <1>2, <1>3, <1>4, <1>5

(* Vec adds [] to the last alternative; here, to the only one.             *)
LEMMA VecAlternative ==
    ASSUME NEW a, NEW n \in Nat
    PROVE  Render("Vec", <<[atom |-> a, arrays |-> n]>>) = <<[atom |-> a, arrays |-> n + 1]>>
  BY DEF Render

(* serde and TypeScript agree on the bases.                                *)
LEMMA SameBase ==
    ASSUME NEW ty \in WireType
    PROVE  OfAtom(Atom(ty.base)) = OfBase(ty.base)
           /\ Atom(ty.base) \in {"string", "number", "Hit"}
  BY DEF WireType, OfAtom, Atom, OfBase

(* The rendered type is exact: by induction on the layers, the k innermost *)
(* are rendered exactly, and to a single alternative with k suffixes if    *)
(* all of them are Vec. Vec around anything but Vec or the base is Vec     *)
(* around Option.                                                          *)
LEMMA Exactness ==
    ASSUME NEW ty \in WireType, ~ VecOfOption(ty)
    PROVE  IsExact(ty)
  <1>. DEFINE layers == ty.outer
              L == Len(layers)
              a == Atom(ty.base)
              S == OfBase(ty.base)
              AllVec(k) == \A j \in 1 .. k : layers[L + 1 - j] = "Vec"
  <1>1. layers \in Seq(Layer) /\ L \in Nat
    BY DEF WireType
  <1>2. PICK f : IsLayering(f, layers, S) /\ Serialised(ty) = f[L]
    BY <1>1, ValuesAreLayered DEF Serialised
  <1>3. PICK g : IsRendering(g, layers, <<[atom |-> a, arrays |-> 0]>>)
                 /\ RustTypeToTs(ty) = g[L]
    BY <1>1, IsRendered DEF RustTypeToTs
  <1>4. \A k \in 1 .. L : layers[L + 1 - k] \in {"Option", "Vec"}
    BY <1>1 DEF Layer
  <1>5. \A k \in 2 .. L : layers[L + 1 - k] = "Vec" => layers[L + 1 - (k - 1)] = "Vec"
    <2>. SUFFICES ASSUME NEW k \in 2 .. L, layers[L + 1 - k] = "Vec",
                         layers[L + 1 - (k - 1)] # "Vec"
                  PROVE  FALSE
      OBVIOUS
    <2>. DEFINE i == L + 1 - (k - 1)
    <2>1. i \in DOMAIN layers \ {1} /\ i - 1 = L + 1 - k /\ k - 1 \in 1 .. L
      BY <1>1
    <2>2. layers[i] = "Option" /\ layers[i - 1] = "Vec"
      BY <1>4, <2>1
    <2>. QED  BY <2>1, <2>2 DEF VecOfOption
  <1>. DEFINE Same(k) == /\ g[k] \in Seq(Alternative)
                         /\ TsValues(g[k]) = f[k]
                         /\ AllVec(k) => g[k] = <<[atom |-> a, arrays |-> k]>>
              Bad == {k \in 0 .. L : ~ Same(k)}
  <1>6. Same(0)
    <2>1. g[0] = <<[atom |-> a, arrays |-> 0]>>
      BY <1>3 DEF IsRendering
    <2>2. f[0] = S
      BY <1>2 DEF IsLayering
    <2>3. g[0] \in Seq(Alternative)
      BY <2>1, SameBase DEF Alternative
    <2>4. TsValues(g[0]) = S
      BY <2>1, OneAlternative, NoLayers, SameBase
    <2>. QED  BY <2>1, <2>2, <2>3, <2>4
  <1>7. ASSUME NEW k \in 1 .. L, Same(k - 1), layers[L + 1 - k] = "Vec" => AllVec(k - 1)
        PROVE  Same(k) /\ (layers[L + 1 - k] = "Vec" => AllVec(k))
    <2>1. g[k] = Render(layers[L + 1 - k], g[k - 1])
      BY <1>3 DEF IsRendering
    <2>2. f[k] = Wrap(layers[L + 1 - k], f[k - 1])
      BY <1>2 DEF IsLayering
    <2>3. CASE layers[L + 1 - k] = "Option"
      <3>1. g[k] = Append(g[k - 1], [atom |-> "null", arrays |-> 0])
        BY <2>1, <2>3 DEF Render
      <3>2. [atom |-> "null", arrays |-> 0] \in Alternative
        BY DEF Alternative
      <3>3. g[k] \in Seq(Alternative)
        BY <1>7, <3>1, <3>2
      <3>4. TsValues(g[k]) = f[k]
        BY <1>7, <2>1, <2>2, <2>3, OptionAlternative DEF Wrap
      <3>5. ~ AllVec(k)
        BY <2>3
      <3>. QED  BY <2>3, <3>3, <3>4, <3>5
    <2>4. CASE layers[L + 1 - k] = "Vec"
      <3>1. g[k - 1] = <<[atom |-> a, arrays |-> k - 1]>> /\ k - 1 \in Nat
        BY <1>7, <2>4
      <3>2. g[k] = <<[atom |-> a, arrays |-> k]>>
        <4>1. g[k] = <<[atom |-> a, arrays |-> (k - 1) + 1]>>
          BY <2>1, <2>4, <3>1, VecAlternative
        <4>2. (k - 1) + 1 = k
          OBVIOUS
        <4>. QED  BY <4>1, <4>2
      <3>3. [atom |-> a, arrays |-> k] \in Alternative
        BY SameBase DEF Alternative
      <3>4. g[k] \in Seq(Alternative)
        BY <3>2, <3>3
      <3>5. TsValues(g[k]) = f[k]
        <4>1. TsValues(g[k]) = Values(VecLayers(k), S)
          BY <3>2, OneAlternative, SameBase
        <4>2. f[k - 1] = Values(VecLayers(k - 1), S)
          BY <1>7, <3>1, OneAlternative, SameBase
        <4>3. Values(VecLayers((k - 1) + 1), S) = Arrays(Values(VecLayers(k - 1), S))
          BY <3>1, VecValues
        <4>4. f[k] = Arrays(f[k - 1])
          BY <2>2, <2>4 DEF Wrap
        <4>5. (k - 1) + 1 = k
          OBVIOUS
        <4>. QED  BY <4>1, <4>2, <4>3, <4>4, <4>5
      <3>6. AllVec(k)
        BY <1>7, <2>4
      <3>. QED  BY <3>2, <3>4, <3>5, <3>6
    <2>. QED  BY <1>4, <2>3, <2>4
  <1>8. Same(L)
    <2>. DEFINE Down(k) == layers[L + 1 - k] = "Vec" => AllVec(k)
                Wrong == {k \in 0 .. L : ~ (Same(k) /\ (k # 0 => Down(k)))}
    <2>. SUFFICES ASSUME Wrong # {} PROVE FALSE
      BY <1>1
    <2>1. PICK k \in Wrong : \A j \in Wrong : k <= j
      <3>1. Wrong \subseteq Nat
        OBVIOUS
      <3>. HIDE DEF Wrong
      <3>. QED  BY <3>1, LeastOf
    <2>. HIDE DEF Same
    <2>2. k # 0
      BY <1>6, <2>1
    <2>3. k - 1 \in 0 .. L /\ k - 1 \notin Wrong
      BY <2>1, <2>2
    <2>4. Same(k - 1) /\ (k - 1 # 0 => Down(k - 1))
      BY <2>3
    <2>5. layers[L + 1 - k] = "Vec" => AllVec(k - 1)
      BY <1>1, <1>5, <2>1, <2>2, <2>4
    <2>6. Same(k) /\ Down(k)
      BY <1>7, <2>1, <2>2, <2>4, <2>5
    <2>. QED  BY <2>1, <2>6
  <1>. QED  BY <1>2, <1>3, <1>8 DEF IsExact

-----------------------------------------------------------------------------
(* JSON values of different kinds differ.                                  *)
LEMMA Kinds ==
    /\ DOMAIN Null = {"null"} /\ DOMAIN Refused = {"refused"}
    /\ \A s : DOMAIN Str(s) = {"str"} /\ Str(s).str = s
    /\ \A n : DOMAIN Num(n) = {"num"} /\ Num(n).num = n
    /\ \A o : DOMAIN Obj(o) = {"obj"}
    /\ \A q : DOMAIN Arr(q) = {"arr"}
  BY DEF Null, Refused, Str, Num, Obj, Arr

(* A refusal is no value of a type, by induction on its layers.            *)
LEMMA NoRefusal ==
    ASSUME NEW ty \in WireType
    PROVE  Refused \notin Serialised(ty)
  <1>. DEFINE S == OfBase(ty.base)
              L == Len(ty.outer)
  <1>1. ty.outer \in Seq(Layer) /\ L \in Nat
    BY DEF WireType
  <1>2. PICK f : IsLayering(f, ty.outer, S) /\ Serialised(ty) = f[L]
    BY <1>1, ValuesAreLayered DEF Serialised
  <1>. DEFINE Bad == {k \in 0 .. L : Refused \in f[k]}
  <1>3. 0 \notin Bad
    <2>1. f[0] = S
      BY <1>2 DEF IsLayering
    <2>2. \A v \in S : DOMAIN v \in {{"str"}, {"num"}, {"obj"}}
      BY Kinds DEF OfBase, WireType
    <2>. QED  BY <2>1, <2>2, Kinds
  <1>4. ASSUME NEW k \in 1 .. L, Refused \notin f[k - 1] PROVE Refused \notin f[k]
    <2>1. f[k] = Wrap(ty.outer[L + 1 - k], f[k - 1])
      BY <1>2 DEF IsLayering
    <2>2. Refused # Null
      BY Kinds
    <2>3. \A T : Refused \notin Arrays(T)
      BY Kinds DEF Arrays
    <2>. QED  BY <1>4, <2>1, <2>2, <2>3 DEF Wrap
  <1>5. Bad = {}
    <2>. SUFFICES ASSUME Bad # {} PROVE FALSE
      OBVIOUS
    <2>1. PICK k \in Bad : \A j \in Bad : k <= j
      <3>1. Bad \subseteq Nat
        OBVIOUS
      <3>. HIDE DEF Bad
      <3>. QED  BY <3>1, LeastOf
    <2>2. k # 0 /\ k \in 1 .. L
      BY <1>3, <2>1
    <2>3. k - 1 \notin Bad
      BY <2>1, <2>2
    <2>. QED  BY <1>4, <2>1, <2>2, <2>3
  <1>. QED  BY <1>1, <1>2, <1>5

(* A primitive survives the way through text.                              *)
LEMMA TextRoundTrips ==
    ASSUME NEW base \in {"String", "i32"}, NEW v \in OfBase(base)
    PROVE  /\ Pairs(v) = <<StringOf(v)>> /\ v # Null
           /\ FromText(base, StringOf(v)) = v
  <1>1. CASE base = "String"
    <2>1. PICK s : v = Str(s)
      BY <1>1 DEF OfBase
    <2>2. v # Null /\ ~ IsArr(v) /\ "str" \in DOMAIN v
      BY <2>1, Kinds DEF IsArr
    <2>3. StringOf(v) = s
      BY <2>1, <2>2, Kinds DEF StringOf
    <2>4. FromText(base, s) = Str(s)
      BY <1>1 DEF FromText
    <2>. QED  BY <2>1, <2>2, <2>3, <2>4 DEF Pairs
  <1>2. CASE base = "i32"
    <2>1. PICK n \in Number : v = Num(n)
      BY <1>2 DEF OfBase
    <2>2. v # Null /\ ~ IsArr(v) /\ "str" \notin DOMAIN v /\ "num" \in DOMAIN v
      BY <2>1, Kinds DEF IsArr
    <2>3. StringOf(v) = Decimal(n)
      BY <2>1, <2>2, Kinds DEF StringOf
    <2>4. \A m \in Number : Decimal(m) = Decimal(n) => m = n
      BY NumbersAssumption
    <2>5. (CHOOSE m \in Number : Decimal(m) = Decimal(n)) = n
      BY <2>4
    <2>6. FromText(base, Decimal(n)) = Num(n)
      BY <1>2, <2>5 DEF FromText
    <2>. QED  BY <2>1, <2>2, <2>3, <2>6 DEF Pairs
  <1>. QED  BY <1>1, <1>2

(* What a query-safe type can be.                                          *)
LEMMA QuerySafeLayers ==
    ASSUME NEW ty \in WireType, IsQuerySafe(ty)
    PROVE  /\ ty.base \in {"String", "i32"}
           /\ ty.outer \in {<< >>, <<"Option">>, <<"Vec">>}
  <1>1. CASE IsPrimitive(ty)
    BY <1>1 DEF IsPrimitive
  <1>2. CASE ty.outer # << >> /\ IsPrimitive(Unwrapped(ty))
    <2>. DEFINE o == ty.outer
    <2>1. Unwrapped(ty).outer = Tail(o) /\ Unwrapped(ty).base = ty.base
      BY DEF Unwrapped, Of
    <2>2. o \in Seq(Layer) /\ o # << >> /\ Tail(o) = << >>
      BY <1>2, <2>1 DEF WireType, IsPrimitive
    <2>3. Len(o) = 1
      <3>. HIDE DEF o
      <3>1. Len(Tail(o)) = Len(o) - 1 /\ Len(o) \in Nat
        BY <2>2
      <3>2. Len(Tail(o)) = 0
        <4>1. Len(<< >>) = 0
          OBVIOUS
        <4>. QED  BY <2>2, <4>1
      <3>. QED  BY <3>1, <3>2
    <2>4. o = <<o[1]>> /\ o[1] \in Layer
      <3>. HIDE DEF o
      <3>. QED  BY <2>2, <2>3
    <2>. QED  BY <1>2, <2>1, <2>4 DEF Layer, IsPrimitive
  <1>. QED  BY <1>1, <1>2 DEF IsQuerySafe

(* A query-safe argument survives the way through the query string; if it  *)
(* is a Vec it is refused.                                                 *)
LEMMA QueryRoundTrips ==
    ASSUME NEW ty \in WireType, IsQuerySafe(ty), NEW v \in Serialised(ty)
    PROVE  IF ty.outer = <<"Vec">> THEN FromQuery(ty, Pairs(v)) = Refused
                                   ELSE FromQuery(ty, Pairs(v)) = v
  <1>. DEFINE S == OfBase(ty.base)
  <1>1. /\ Values(<< >>, S) = S
        /\ Values(<<"Option">>, S) = S \cup {Null}
    BY FewLayers DEF Wrap, Layer
  <1>2. ty.base \in {"String", "i32"} /\ ty.outer \in {<< >>, <<"Option">>, <<"Vec">>}
    BY QuerySafeLayers
  <1>3. << >> # <<"Option">> /\ << >> # <<"Vec">> /\ <<"Option">> # <<"Vec">>
    OBVIOUS
  <1>4. \A x : Len(<<x>>) = 1 /\ <<x>>[1] = x
    OBVIOUS
  <1>5. CASE ty.outer = << >>
    <2>1. v \in S
      BY <1>1, <1>5 DEF Serialised
    <2>2. Pairs(v) = <<StringOf(v)>> /\ FromText(ty.base, StringOf(v)) = v
      BY <1>2, <2>1, TextRoundTrips
    <2>. QED  BY <1>3, <1>4, <1>5, <2>2 DEF FromQuery
  <1>6. CASE ty.outer = <<"Option">>
    <2>1. v \in S \cup {Null}
      BY <1>1, <1>6 DEF Serialised
    <2>2. CASE v \in S
      <3>1. Pairs(v) = <<StringOf(v)>> /\ FromText(ty.base, StringOf(v)) = v
        BY <1>2, <2>2, TextRoundTrips
      <3>. QED  BY <1>3, <1>4, <1>6, <3>1 DEF FromQuery
    <2>3. CASE v = Null
      <3>1. ~ IsArr(Null)
        BY Kinds DEF IsArr
      <3>2. Pairs(v) = << >>
        BY <2>3, <3>1 DEF Pairs
      <3>3. Len(<< >>) = 0
        OBVIOUS
      <3>. QED  BY <1>3, <1>6, <2>3, <3>2, <3>3 DEF FromQuery
    <2>. QED  BY <2>1, <2>2, <2>3
  <1>7. CASE ty.outer = <<"Vec">>
    BY <1>3, <1>7 DEF FromQuery
  <1>. QED  BY <1>2, <1>3, <1>5, <1>6, <1>7

-----------------------------------------------------------------------------
(* What is on the wire is what was passed, of the method as it was built;  *)
(* and whoever was handled had its arguments.                              *)
BuiltIsAccepted == build = "built" => Accepted(method)

WireOK ==
    /\ client = "idle" => request = Pending /\ server = "idle"
    /\ request = Pending => server = "idle"
    /\ request # Pending =>
          /\ build = "built"
          /\ \A i \in WireParams(method) : args[i] \in Serialised(method.params[i])
          /\ request.payload = Payload(method, args)

Arrived(i) ==
    /\ ConnInject(method.params[i]) = "required" => handled[i] = SomeConn
    /\ ConnInject(method.params[i]) = "optional" => handled[i] \in {SomeConn, Null}
    /\ ConnInject(method.params[i]) = "wire" => handled[i] = args[i]

ArgsInv ==
    /\ BuiltIsAccepted
    /\ WireOK
    /\ WasHandled => \A i \in DOMAIN method.params : Arrived(i)
    /\ AcceptedIsCallable

LEMMA InitArgs == Init => ArgsInv
  BY DEF Init, ArgsInv, BuiltIsAccepted, WireOK, WasHandled, AcceptedIsCallable

(* Before a call is made there is nothing to arrive.                       *)
LEMMA IdleArgs ==
    ASSUME ArgsInv, (build # "built" /\ BuiltIsAccepted') \/ UNCHANGED <<method, build>>,
           UNCHANGED <<args, request, serverVars>>,
           client' = "idle" => client = "idle"
    PROVE  ArgsInv'
  <1>1. BuiltIsAccepted'
    BY DEF ArgsInv, BuiltIsAccepted
  <1>2. WireOK'
    BY DEF ArgsInv, WireOK, serverVars
  <1>3. WasHandled' => \A i \in (DOMAIN method.params)' : Arrived(i)'
    BY DEF ArgsInv, WireOK, WasHandled, Arrived, serverVars
  <1>4. AcceptedIsCallable'
    BY DEF ArgsInv, WireOK, AcceptedIsCallable, HasQueryVec, serverVars
  <1>. QED  BY <1>1, <1>2, <1>3, <1>4 DEF ArgsInv

LEMMA CallArgs ==
    ASSUME ArgsInv, NEW given \in ArgValues, Call(given)
    PROVE  ArgsInv'
  <1>1. /\ server' = "idle" /\ client' = "waiting" /\ build' = "built" /\ build = "built"
        /\ method' = method /\ args' = given
    BY DEF Call, ArgsInv, WireOK, decl, serverVars
  <1>2. \A i \in WireParams(method) : given[i] \in Serialised(method.params[i])
    BY DEF ArgValues
  <1>3. request'.payload = Payload(method, given)
    BY DEF Call
  <1>4. WireOK'
    BY <1>1, <1>2, <1>3 DEF WireOK
  <1>5. BuiltIsAccepted' /\ ~ WasHandled' /\ AcceptedIsCallable'
    BY <1>1 DEF ArgsInv, BuiltIsAccepted, WasHandled, AcceptedIsCallable
  <1>. QED  BY <1>4, <1>5 DEF ArgsInv

(* What the handler's extractor makes of what is on the wire: the argument *)
(* or a refusal, and that only of a Vec in a query string.                 *)
LEMMA ArgExtracted ==
    ASSUME CallInv, ArgsInv, request # Pending, NEW i \in WireParams(method)
    PROVE  LET data == Extracted(method, request.payload) IN
           /\ data[i] = args[i] \/ data[i] = Refused
           /\ data[i] = Refused => HasQueryVec
  <1>. DEFINE ty == method.params[i]
              data == Extracted(method, request.payload)
  <1>1. /\ ConnInject(ty) = "wire" /\ ty \in WireType
        /\ i \in DOMAIN method.params
    BY TypeAssumption DEF WireParams, CallInv, TypeOK
  <1>2. args[i] \in Serialised(ty) /\ Accepted(method)
    BY DEF ArgsInv, WireOK, BuiltIsAccepted
  <1>3. args[i] # Refused
    BY <1>1, <1>2, NoRefusal
  <1>4. request.payload = Payload(method, args)
    BY DEF ArgsInv, WireOK
  <1>5. CASE HasBody(VerbOf(method))
    <2>1. request.payload.json = args
      BY <1>4, <1>5 DEF Payload
    <2>2. data[i] = FromJson(ty, args[i])
      BY <1>5, <2>1 DEF Extracted
    <2>. QED  BY <1>2, <1>3, <2>2 DEF FromJson
  <1>6. CASE ~ HasBody(VerbOf(method))
    <2>1. request.payload.query = QueryOf(method, args)
      BY <1>4, <1>6 DEF Payload
    <2>2. request.payload.query[i] = Pairs(args[i])
      BY <2>1 DEF QueryOf
    <2>3. data[i] = FromQuery(ty, Pairs(args[i]))
      BY <1>6, <2>2 DEF Extracted
    <2>4. IsQuerySafe(ty)
      BY <1>2, <1>6 DEF Accepted
    <2>5. CASE ty.outer = <<"Vec">>
      <3>1. "Vec" \in ToSet(ty.outer)
        BY <2>5 DEF ToSet
      <3>2. HasQueryVec
        BY <1>6, <3>1 DEF HasQueryVec
      <3>3. data[i] = Refused
        BY <1>1, <1>2, <2>3, <2>4, <2>5, QueryRoundTrips
      <3>. QED  BY <3>2, <3>3
    <2>6. CASE ty.outer # <<"Vec">>
      <3>1. data[i] = args[i]
        BY <1>1, <1>2, <2>3, <2>4, <2>6, QueryRoundTrips
      <3>. QED  BY <1>3, <3>1
    <2>. QED  BY <2>5, <2>6
  <1>. QED  BY <1>5, <1>6

(* The handler: what is extracted is the argument; a required Conn is      *)
(* there, or the answer is 409.                                            *)
LEMMA ServeArgs ==
    ASSUME CallInv, ArgsInv, Serve
    PROVE  ArgsInv'
  <1>. DEFINE data == Extracted(method, request.payload)
              Required(i) == ConnInject(method.params[i]) = "required"
  <1>1. /\ request # Pending /\ server = "idle" /\ server' # "idle"
        /\ UNCHANGED <<method, build, client, args, request>>
        /\ client # "idle"
    BY DEF Serve, Answer, decl, callVars, ArgsInv, WireOK
  <1>2. WireOK' /\ BuiltIsAccepted' /\ (HasQueryVec => HasQueryVec')
    BY <1>1 DEF ArgsInv, WireOK, BuiltIsAccepted, HasQueryVec
  <1>3. CASE \E i \in WireParams(method) : data[i] = Refused
    <2>1. Answer(400, Null)
      BY <1>3 DEF Serve
    <2>2. HasQueryVec
      BY <1>1, <1>3, ArgExtracted
    <2>3. server' = "done" /\ response'.status = 400
      BY <2>1, Outcomes DEF Answer
    <2>4. ~ WasHandled' /\ AcceptedIsCallable'
      BY <1>2, <2>2, <2>3 DEF WasHandled, AcceptedIsCallable
    <2>. QED  BY <1>2, <2>4 DEF ArgsInv
  <1>4. CASE NeedsConn(method) /\ ~ HasCaller
             /\ ~ \E i \in WireParams(method) : data[i] = Refused
    <2>1. server' = "done" /\ response'.status = 409
      BY <1>4, Outcomes DEF Serve, Answer
    <2>2. ~ WasHandled' /\ AcceptedIsCallable'
      BY <2>1 DEF WasHandled, AcceptedIsCallable
    <2>. QED  BY <1>2, <2>2 DEF ArgsInv
  <1>5. CASE ~ (NeedsConn(method) /\ ~ HasCaller)
             /\ ~ \E i \in WireParams(method) : data[i] = Refused
    <2>1. /\ server' = "handling"
          /\ handled' = [i \in DOMAIN method.params |-> ArgumentFor(i, data)]
      BY <1>5 DEF Serve
    <2>2. ASSUME NEW i \in DOMAIN method.params PROVE Arrived(i)'
      <3>1. handled'[i] = ArgumentFor(i, data)
        BY <2>1
      <3>2. CASE Required(i)
        <4>1. HasCaller
          BY <1>5, <3>2 DEF NeedsConn
        <4>. QED  BY <1>1, <3>1, <3>2, <4>1 DEF ArgumentFor, Arrived
      <3>3. CASE ConnInject(method.params[i]) = "optional"
        BY <1>1, <3>1, <3>3 DEF ArgumentFor, Arrived
      <3>4. CASE ConnInject(method.params[i]) = "wire"
        <4>1. i \in WireParams(method) /\ handled'[i] = data[i] /\ data[i] # Refused
          BY <1>5, <3>1, <3>4 DEF ArgumentFor, WireParams
        <4>2. data[i] = args[i]
          BY <1>1, <4>1, ArgExtracted
        <4>. QED  BY <1>1, <3>4, <4>1, <4>2 DEF Arrived
      <3>. QED  BY <1>1, <3>2, <3>3, <3>4 DEF Arrived
    <2>3. \A i \in (DOMAIN method.params)' : Arrived(i)'
      BY <1>1, <2>2
    <2>4. AcceptedIsCallable'
      BY <2>1 DEF AcceptedIsCallable
    <2>. QED  BY <1>2, <2>3, <2>4 DEF ArgsInv
  <1>. QED  BY <1>3, <1>4, <1>5

LEMMA ReturnsArgs ==
    ASSUME ArgsInv, Returns
    PROVE  ArgsInv'
  <1>1. /\ server = "handling" /\ server' = "done" /\ response'.status \in {200, 404}
    BY Outcomes DEF Returns, Answer
  <1>2. UNCHANGED <<method, build, client, args, request, handled>>
    BY DEF Returns, decl, callVars
  <1>3. WasHandled /\ BuiltIsAccepted' /\ WireOK' /\ AcceptedIsCallable'
    BY <1>1, <1>2 DEF ArgsInv, BuiltIsAccepted, WireOK, WasHandled, AcceptedIsCallable
  <1>. QED  BY <1>2, <1>3 DEF ArgsInv, Arrived

LEMMA NextArgs == CallInv /\ ArgsInv /\ [Next]_vars => ArgsInv'
  <1>. SUFFICES ASSUME CallInv, ArgsInv, [Next]_vars PROVE ArgsInv'
    OBVIOUS
  <1>. USE DEF decl, link, callVars, serverVars
  <1>1. ASSUME NEW verb \in Markers, Mark(verb) PROVE ArgsInv'
    BY <1>1, IdleArgs DEF Mark, BuiltIsAccepted
  <1>2. ASSUME NEW ty \in ParamTypes, AddParam(ty) PROVE ArgsInv'
    BY <1>2, IdleArgs DEF AddParam, BuiltIsAccepted
  <1>3. CASE Generate
    <2>1. BuiltIsAccepted'
      BY <1>3 DEF Generate, BuiltIsAccepted
    <2>. QED  BY <1>3, <2>1, IdleArgs DEF Generate
  <1>4. CASE Connects \/ Disconnects
    BY <1>4, IdleArgs DEF Connects, Disconnects
  <1>5. CASE FetchFails \/ FetchResolves \/ ReadBody \/ BodyFails
    BY <1>5, IdleArgs DEF FetchFails, FetchResolves, ReadBody, BodyFails, Fail, SettleWith
  <1>6. CASE UNCHANGED vars
    BY <1>6, IdleArgs DEF vars
  <1>. QED
    BY <1>1, <1>2, <1>3, <1>4, <1>5, <1>6, CallArgs, ServeArgs, ReturnsArgs DEF Next

(* Whatever the types and the verb of a method that the generator accepts, *)
(* and whenever the event socket comes and goes, the trait method is       *)
(* called with what the caller passed, and with a Conn where it requires   *)
(* one (emit_ts.rs:117-164, emit_rust.rs:220-318).                         *)
THEOREM ArgumentsArrive == Spec => []ArgsArrive
  <1>1. ASSUME ArgsInv PROVE ArgsArrive
    <2>. SUFFICES ASSUME WasHandled, NEW i \in DOMAIN method.params
                  PROVE  CASE ConnInject(method.params[i]) = "wire"     -> handled[i] = args[i]
                           [] ConnInject(method.params[i]) = "required" -> handled[i] = SomeConn
                           [] ConnInject(method.params[i]) = "optional" -> handled[i] \in {SomeConn, Null}
      BY DEF ArgsArrive
    <2>1. Arrived(i)
      BY <1>1 DEF ArgsInv
    <2>2. ConnInject(method.params[i]) \in {"wire", "required", "optional"}
      BY DEF ConnInject
    <2>. QED  BY <2>1, <2>2 DEF Arrived
  <1>. QED
    BY <1>1, InitCall, NextCall, InitArgs, NextArgs, PTL DEF Spec

(* No extractor refuses what the client makes of well-typed arguments of a *)
(* method that the generator accepted, Vec in a query string apart.        *)
THEOREM AcceptedCallable == Spec => []AcceptedIsCallable
  <1>1. ArgsInv => AcceptedIsCallable
    BY DEF ArgsInv
  <1>. QED
    BY <1>1, InitCall, NextCall, InitArgs, NextArgs, PTL DEF Spec

(* The types in the TypeScript signature of a method admit exactly the     *)
(* values that its Rust types have, however deep Option and Vec nest, Vec  *)
(* directly around Option apart (types.rs:28-60).                          *)
THEOREM SignatureExact == Spec => []SignatureIsExact
  <1>1. ASSUME CallInv PROVE SignatureIsExact
    <2>1. SignatureTypes \subseteq WireType
      BY <1>1, TypeAssumption DEF SignatureTypes, WireParams, CallInv, TypeOK
    <2>. QED  BY <2>1, Exactness DEF SignatureIsExact
  <1>. QED
    BY <1>1, InitCall, NextCall, PTL DEF Spec
=============================================================================
