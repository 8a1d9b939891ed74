------------------------------ MODULE ApiCall -------------------------------
(***************************************************************************)
(* One call through a generated API: a method is declared, the code        *)
(* generator accepts it or panics, and the TypeScript client calls it over *)
(* a network that may fail at any point (defaultRpc.call in                *)
(* rpc_runtime.ts, and the handler that emit_rust.rs writes).  Meanwhile   *)
(* the event socket that ties the call to a Conn comes and goes.           *)
(***************************************************************************)
EXTENDS Codegen

CONSTANTS
    ParamTypes,    \* types of the parameters that are declared
    ReturnTypes,   \* Ok types
    Markers,       \* verbs that markers may name
    MaxParams,     \* bound on the parameters of a method
    MaxMarkers     \* bound on its verb markers

ASSUME VerbAssumption == Markers \subseteq Verb
ASSUME TypeAssumption ==     \* rustc accepts &Conn only where it is injected
    /\ \A ty \in ParamTypes : ConnInject(ty) = "wire" => ty \in WireType
    /\ ReturnTypes \subseteq WireType
ASSUME SizeAssumption == MaxParams \in Nat /\ MaxMarkers \in Nat

VARIABLES
    method,     \* the declaration
    build,      \* "declaring", "built" or "panicked"
    hasId,      \* whether the client knows its id
    registered, \* whether Conns has a live connection under that id
    client,     \* the client's side of the call
    args,       \* the arguments passed, by parameter
    request,    \* the request on the wire
    server,     \* the server's side of the call
    handled,    \* what the trait method was called with
    response,
    outcome,    \* what the promise settled with
    observed    \* the errors that onError handlers were given

decl == <<method, build>>
link == <<hasId, registered>>
callVars == <<client, args, outcome, observed>>
serverVars == <<server, handled, response>>
vars == <<decl, link, callVars, request, serverVars>>

Pending == [pending |-> TRUE]
NotHandled == << >>

(* The Conn in an argument list; an optional one may be None.              *)
SomeConn == [conn |-> TRUE]

Status == {200, 400, 404, 409}

TypeOK ==
    /\ method \in [markers : Seq(Markers), params : Seq(ParamTypes),
                   ret : ReturnTypes, fallible : BOOLEAN]
    /\ build \in {"declaring", "built", "panicked"}
    /\ hasId \in BOOLEAN
    /\ registered \in BOOLEAN
    /\ registered => hasId
    /\ client \in {"idle", "waiting", "reading", "settled"}
    /\ server \in {"idle", "handling", "done"}
    /\ server = "done" => response.status \in Status
    /\ client = "reading" => server = "done"
    /\ client = "settled" <=> outcome # Pending
    /\ Len(observed) <= 1

Init ==
    /\ method \in [markers : {<< >>}, params : {<< >>}, ret : ReturnTypes,
                   fallible : BOOLEAN]
    /\ build = "declaring"
    /\ hasId = FALSE
    /\ registered = FALSE
    /\ client = "idle"
    /\ args = << >>
    /\ request = Pending
    /\ server = "idle"
    /\ handled = NotHandled
    /\ response = Pending
    /\ outcome = Pending
    /\ observed = << >>

-----------------------------------------------------------------------------
(* The declaration, and the generator's verdict.                           *)
Mark(verb) ==
    /\ build = "declaring"
    /\ Len(method.markers) < MaxMarkers
    /\ method.params = << >>
    /\ method' = [method EXCEPT !.markers = Append(@, verb)]
    /\ UNCHANGED <<build, link, callVars, request, serverVars>>

AddParam(ty) ==
    /\ build = "declaring"
    /\ Len(method.params) < MaxParams
    /\ method' = [method EXCEPT !.params = Append(@, ty)]
    /\ UNCHANGED <<build, link, callVars, request, serverVars>>

Generate ==
    /\ build = "declaring"
    /\ build' = IF Accepted(method) THEN "built" ELSE "panicked"
    /\ UNCHANGED <<method, link, callVars, request, serverVars>>

(* The event socket is welcomed, or lost, which the id survives.           *)
Connects ==
    /\ build = "built"
    /\ ~ registered
    /\ hasId' = TRUE
    /\ registered' = TRUE
    /\ UNCHANGED <<decl, callVars, request, serverVars>>

Disconnects ==
    /\ registered
    /\ registered' = FALSE
    /\ UNCHANGED <<decl, hasId, callVars, request, serverVars>>

-----------------------------------------------------------------------------
(* The generated method calls rpc.call, which calls fetch.                 *)
Call(given) ==
    /\ build = "built"
    /\ client = "idle"
    /\ client' = "waiting"
    /\ args' = given
    /\ request' = [verb |-> VerbOf(method), identified |-> hasId,
                   payload |-> Payload(method, given)]
    /\ UNCHANGED <<decl, link, outcome, observed, serverVars>>

SettleWith(result) == client' = "settled" /\ outcome' = result

(* A new RpcError goes to the observers, then to the caller.               *)
Fail(code, status, body) ==
    LET err == [code |-> code, status |-> status, body |-> body]
    IN  SettleWith(err) /\ observed' = Append(observed, err)

(* fetch rejects, whatever became of the request on the server.            *)
FetchFails ==
    /\ client = "waiting"
    /\ Fail("NETWORK", 0, Null)
    /\ UNCHANGED <<decl, link, args, request, serverVars>>

(* fetch resolves with the head of the response.                           *)
FetchResolves ==
    /\ client = "waiting"
    /\ server = "done"
    /\ client' = "reading"
    /\ UNCHANGED <<decl, link, args, outcome, observed, request, serverVars>>

(* Fault: the status is not looked at.                                     *)
ReadBodyBlind ==
    /\ client = "reading"
    /\ SettleWith([value |-> response.body])
    /\ UNCHANGED <<observed, decl, link, args, request, serverVars>>

(* The body arrives, and is the result or makes the error.                 *)
ReadBody ==
    /\ client = "reading"
    /\ IF response.status = 200
         THEN /\ SettleWith([value |-> response.body])
              /\ UNCHANGED observed
         ELSE Fail("HTTP", response.status, response.body)
    /\ UNCHANGED <<decl, link, args, request, serverVars>>

(* The connection breaks before the body is complete.  Only the json() of  *)
(* a good response is inside a try.                                        *)
BodyFails ==
    /\ client = "reading"
    /\ IF response.status = 200
         THEN Fail("BAD_BODY", response.status, Null)
         ELSE /\ SettleWith([thrown |-> "TypeError"])
              /\ UNCHANGED observed
    /\ UNCHANGED <<decl, link, args, request, serverVars>>

-----------------------------------------------------------------------------
(* The axum handler: Caller and the arguments are extracted, a required    *)
(* Conn is insisted on, and the trait method is called.                    *)
HasCaller == request.identified /\ registered

ArgumentFor(i, data) ==
    CASE ConnInject(method.params[i]) = "wire"                   -> data[i]
      [] ConnInject(method.params[i]) # "wire" /\ HasCaller      -> SomeConn
      [] ConnInject(method.params[i]) # "wire" /\ ~ HasCaller    -> Null

Answer(status, body) == server' = "done" /\ response' = [status |-> status, body |-> body]

Serve ==
    LET data == Extracted(method, request.payload) IN
    /\ request # Pending
    /\ server = "idle"
    /\ IF \E i \in WireParams(method) : data[i] = Refused
         THEN Answer(400, Null) /\ UNCHANGED handled
       ELSE IF NeedsConn(method) /\ ~ HasCaller
         THEN Answer(409, Str("x")) /\ UNCHANGED handled
       ELSE /\ server' = "handling"
            /\ handled' = [i \in DOMAIN method.params |-> ArgumentFor(i, data)]
            /\ UNCHANGED response
    /\ UNCHANGED <<decl, link, callVars, request>>

(* The trait method returns: Json of its value, or the error's response.   *)
Returns ==
    /\ server = "handling"
    /\ \/ \E v \in Serialised(method.ret) : Answer(200, v)
       \/ method.fallible /\ Answer(404, Obj("error"))
    /\ UNCHANGED <<decl, link, callVars, request, handled>>

ArgValues ==
    LET m == method IN
    {f \in [WireParams(m) -> UNION {Serialised(m.params[i]) : i \in WireParams(m)}] :
        \A i \in WireParams(m) : f[i] \in Serialised(m.params[i])}

Next ==
    \/ \E verb \in Markers : Mark(verb)
    \/ \E ty \in ParamTypes : AddParam(ty)
    \/ Generate
    \/ Connects
    \/ Disconnects
    \/ \E given \in ArgValues : Call(given)
    \/ FetchFails
    \/ FetchResolves
    \/ ReadBody
    \/ BodyFails
    \/ Serve
    \/ Returns

Spec == Init /\ [][Next]_vars

-----------------------------------------------------------------------------
WasHandled == server # "idle" /\ (server = "handling" \/ response.status \in {200, 404})

(* What the caller passed is what the trait method is called with, and a   *)
(* required Conn is there (emit_ts.rs:117-164, emit_rust.rs:220-318).      *)
ArgsArrive ==
    WasHandled => \A i \in DOMAIN method.params :
        CASE ConnInject(method.params[i]) = "wire"     -> handled[i] = args[i]
          [] ConnInject(method.params[i]) = "required" -> handled[i] = SomeConn
          [] ConnInject(method.params[i]) = "optional" -> handled[i] \in {SomeConn, Null}

HasQueryVec ==
    /\ ~ HasBody(VerbOf(method))
    /\ \E i \in WireParams(method) : "Vec" \in ToSet(method.params[i].outer)

(* A method that the generator accepted can be called: the extractors      *)
(* refuse no well-typed arguments, Vec in a query string apart.            *)
AcceptedIsCallable ==
    (server = "done" /\ ~ HasQueryVec) => response.status # 400

VecOfOption(ty) ==
    \E i \in DOMAIN ty.outer \ {1} : ty.outer[i] = "Option" /\ ty.outer[i - 1] = "Vec"

SignatureTypes == {method.params[i] : i \in WireParams(method)} \cup {method.ret}

IsExact(ty) == TsValues(RustTypeToTs(ty)) = Serialised(ty)

(* The TypeScript signature admits exactly the values that the Rust types  *)
(* have, Vec directly around Option apart.                                 *)
SignatureIsExact ==
    build = "built" => \A ty \in SignatureTypes : VecOfOption(ty) \/ IsExact(ty)

IsResult == "value" \in DOMAIN outcome

IsRpcError == "code" \in DOMAIN outcome

(* The outcome tells the caller what the server did: a value is what the   *)
(* method returned, and an error with a status is how the server answered. *)
(* A call fails with an RpcError that the observers are given first, as    *)
(* :257-259 says of every failure path.  There is one that does not: when  *)
(* the body of an answer that is not ok breaks off, res.text() (:272)      *)
(* throws a TypeError that no observer sees.                               *)
OutcomeIsTrue ==
    client = "settled" =>
        /\ IsResult =>
              WasHandled /\ response = [status |-> 200, body |-> outcome.value]
        /\ IsRpcError =>
              /\ observed = <<outcome>>
              /\ outcome.status # 0 =>
                    server = "done" /\ outcome.status = response.status
        /\ ~ IsRpcError => observed = << >>
        /\ ~ IsRpcError /\ ~ IsResult =>
              server = "done" /\ response.status # 200

(* "Only primitives, Option<primitive>, and Vec<primitive> round-trip      *)
(* cleanly ... We reject the rest at codegen time" (types.rs:170-173).     *)
QuerySafeIsCallable == server = "done" => response.status # 400

=============================================================================
