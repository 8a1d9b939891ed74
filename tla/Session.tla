------------------------------- MODULE Session -------------------------------
(***************************************************************************)
(* The session runtime of draad (crates/draad/src/runtime/session.rs): one *)
(* session_loop task per WebSocket, which owns a writer task (the socket's *)
(* sink) and a pump task (the bus receiver), and registers its connection  *)
(* under a client id in the shared registry Conns.                         *)
(*                                                                         *)
(* A reconnecting client replays its client id, so several sockets may     *)
(* carry one id at once; each has a ConnId of its own.                     *)
(***************************************************************************)
EXTENDS EventBus, FiniteSets

CONSTANTS
    Client,         \* client ids: server-assigned uuids, or replayed by ?resume=
    NoClient,       \* the client id of a socket that was not accepted yet
    NoSocket,       \* "no entry" in the registry
    MaxDirect       \* bound on the direct sends queued on one socket

ASSUME NoClientAssumption == NoClient \notin Client
ASSUME NoSocketAssumption == NoSocket \notin Socket
ASSUME MaxDirectAssumption == MaxDirect \in Nat

VARIABLES
    phase,      \* phase[s]: where session_loop stands on socket s
    connId,     \* connId[s]: the ConnId of s; 0 before it is accepted
    nextConn,   \* NEXT_CONN
    client,     \* client[s]: the client id of s
    registry,   \* Conns: registry[c] is the socket registered under c
    lastBound,  \* history: the socket that bound c last
    held,       \* sockets whose Conn was handed out by Conns::get or Caller
    subs,       \* subs[s]: the topics s is subscribed to
    mark,       \* history: mark[s][t] = Len(log) when t last entered or left subs[s]
    out,        \* out[s]: every frame ever accepted by the mpsc channel of s
    written,    \* written[s]: how many of them the writer took off and wrote
    writer,     \* writer[s]: the writer task
    pump,       \* pump[s]: the pump task
    hold        \* hold[s]: the frame the pump has received and not disposed of

loopVars == <<phase, connId, nextConn, client>>
dirVars  == <<registry, lastBound, held>>
subVars  == <<subs, mark>>
outVars  == <<out, written, writer>>
pumpVars == <<pump, hold>>
vars == <<busVars, loopVars, dirVars, subVars, outVars, pumpVars>>

Phases == {"idle", "binding", "welcoming", "connecting", "reading",
           "disconnecting", "unbinding", "aborting", "ended", "panicked"}

(* The wire frames; an event is named by its position in log.              *)
Welcome == [kind |-> "welcome", pos |-> 0]
Direct  == [kind |-> "direct", pos |-> 0]
Event(i) == [kind |-> "event", pos |-> i]

Frame == {Welcome, Direct} \cup {Event(i) : i \in 1 .. MaxPublish}

LoopTypeOK ==
    /\ phase \in [Socket -> Phases]
    /\ connId \in [Socket -> Nat]
    /\ nextConn \in Nat \ {0}
    /\ client \in [Socket -> Client \cup {NoClient}]

DirTypeOK ==
    /\ registry \in [Client -> Socket \cup {NoSocket}]
    /\ lastBound \in [Client -> Socket \cup {NoSocket}]
    /\ held \in SUBSET Socket

SubTypeOK ==
    /\ subs \in [Socket -> SUBSET Topic]
    /\ mark \in [Socket -> [Topic -> 0 .. MaxPublish]]

OutTypeOK ==
    /\ out \in [Socket -> Seq(Frame)]
    /\ written \in [Socket -> Nat]
    /\ writer \in [Socket -> {"absent", "running", "gone"}]

(* A pump that is checking or sending has in hand a frame it has passed.   *)
PumpTypeOK ==
    /\ pump \in [Socket -> {"absent", "idle", "checking", "sending", "gone"}]
    /\ hold \in [Socket -> 0 .. MaxPublish]
    /\ \A s \in Socket :
          pump[s] \in {"checking", "sending"} => hold[s] \in 1 .. cursor[s]

TypeOK ==
    /\ BusTypeOK
    /\ LoopTypeOK
    /\ DirTypeOK
    /\ SubTypeOK
    /\ OutTypeOK
    /\ PumpTypeOK

Init ==
    /\ BusInit
    /\ phase = [s \in Socket |-> "idle"]
    /\ connId = [s \in Socket |-> 0]
    /\ nextConn = 1
    /\ client = [s \in Socket |-> NoClient]
    /\ registry = [c \in Client |-> NoSocket]
    /\ lastBound = [c \in Client |-> NoSocket]
    /\ held = {}
    /\ subs = [s \in Socket |-> {}]
    /\ mark = [s \in Socket |-> [t \in Topic |-> 0]]
    /\ out = [s \in Socket |-> << >>]
    /\ written = [s \in Socket |-> 0]
    /\ writer = [s \in Socket |-> "absent"]
    /\ pump = [s \in Socket |-> "absent"]
    /\ hold = [s \in Socket |-> 0]

-----------------------------------------------------------------------------
(* Operations of Conn.  They need no lock but that of subs, so any task    *)
(* that has a clone may call them, whatever became of the socket.          *)

(* Fault: a frame overtakes those that the writer has not taken yet.       *)
EnqueueUrgent(s, f) ==
    /\ out' = IF writer[s] = "running"
                THEN [out EXCEPT ![s] = SubSeq(@, 1, written[s]) \o <<f>>
                                            \o SubSeq(@, written[s] + 1, Len(@))]
                ELSE out
    /\ UNCHANGED <<written, writer>>

(* tx.send: accepted while the writer task still owns the other end.       *)
Enqueue(s, f) ==
    /\ out' = IF writer[s] = "running"
                THEN [out EXCEPT ![s] = Append(@, f)] ELSE out
    /\ UNCHANGED <<written, writer>>

MoveMark(s, t) == mark' = [mark EXCEPT ![s][t] = Len(log)]

ConnSubscribe(s, t) ==
    /\ subs' = [subs EXCEPT ![s] = @ \cup {t}]
    /\ IF t \in subs[s] THEN UNCHANGED mark ELSE MoveMark(s, t)
    /\ UNCHANGED outVars

ConnUnsubscribe(s, t) ==
    /\ subs' = [subs EXCEPT ![s] = @ \ {t}]
    /\ IF t \in subs[s] THEN MoveMark(s, t) ELSE UNCHANGED mark
    /\ UNCHANGED outVars

DirectsOf(s) == Cardinality({k \in DOMAIN out[s] : out[s][k] = Direct})

ConnSend(s) ==
    /\ DirectsOf(s) < MaxDirect
    /\ Enqueue(s, Direct)
    /\ UNCHANGED subVars

ConnOp(s) ==
    /\ \/ \E t \in Topic : ConnSubscribe(s, t) \/ ConnUnsubscribe(s, t)
       \/ ConnSend(s)
    /\ UNCHANGED <<busVars, loopVars, dirVars, pumpVars>>

-----------------------------------------------------------------------------
(* session_loop, one action per stretch between two awaits.                *)

StepPhase(s, from, to) ==
    /\ phase[s] = from
    /\ phase' = [phase EXCEPT ![s] = to]
    /\ UNCHANGED <<connId, nextConn, client>>

(* The upgrade completes: the loop takes a ConnId, adopts the replayed id  *)
(* or draws a uuid that no socket has, subscribes the bus receiver, and    *)
(* spawns the writer and the pump, before its first await.                 *)
Accept(s, c, resumed) ==
    /\ phase[s] = "idle"
    /\ resumed \/ \A r \in Socket : client[r] # c
    /\ phase' = [phase EXCEPT ![s] = "binding"]
    /\ connId' = [connId EXCEPT ![s] = nextConn]
    /\ nextConn' = nextConn + 1
    /\ client' = [client EXCEPT ![s] = c]
    /\ BusSubscribe(s)
    /\ writer' = [writer EXCEPT ![s] = "running"]
    /\ pump' = [pump EXCEPT ![s] = "idle"]
    /\ UNCHANGED <<dirVars, subVars, out, written, hold>>

(* conns.bind: a resume overwrites the entry of the older socket.          *)
Bind(s) ==
    /\ StepPhase(s, "binding", "welcoming")
    /\ registry' = [registry EXCEPT ![client[s]] = s]
    /\ lastBound' = [lastBound EXCEPT ![client[s]] = s]
    /\ UNCHANGED <<busVars, held, subVars, outVars, pumpVars>>

SendWelcome(s) ==
    /\ StepPhase(s, "welcoming", "connecting")
    /\ Enqueue(s, Welcome)
    /\ UNCHANGED <<busVars, dirVars, subVars, pumpVars>>

(* S::on_connect returns; what it did to its conn were HookUses steps.     *)
OnConnect(s) ==
    /\ StepPhase(s, "connecting", "reading")
    /\ UNCHANGED <<busVars, dirVars, subVars, outVars, pumpVars>>

(* One frame of the client: subscribe and unsubscribe are draad's; an      *)
(* application frame runs on_message, which may use its conn.  Frames that *)
(* parse as neither are ignored.                                           *)
ReadFrame(s) ==
    /\ phase[s] = "reading"
    /\ ConnOp(s)

(* A close frame, an error or the end of the stream leaves the read loop.  *)
StreamEnds(s) ==
    /\ StepPhase(s, "reading", "disconnecting")
    /\ UNCHANGED <<busVars, dirVars, subVars, outVars, pumpVars>>

(* Fault: the loop returns after the hook, past unbind.                    *)
OnDisconnectReturns(s) ==
    /\ StepPhase(s, "disconnecting", "aborting")
    /\ UNCHANGED <<busVars, dirVars, subVars, outVars, pumpVars>>

OnDisconnect(s) ==
    /\ StepPhase(s, "disconnecting", "unbinding")
    /\ UNCHANGED <<busVars, dirVars, subVars, outVars, pumpVars>>

(* on_connect and on_disconnect may use the conn while they run.           *)
HookUses(s) ==
    /\ phase[s] \in {"connecting", "disconnecting"}
    /\ ConnOp(s)

(* The ConnId of the registered connection, if there is one.               *)
RegisteredId(c) == IF registry[c] = NoSocket THEN 0 ELSE connId[registry[c]]

(* Fault: unbind removes the entry, whoever owns it now.                   *)
UnbindAnyway(s) ==
    /\ StepPhase(s, "unbinding", "aborting")
    /\ registry' = [registry EXCEPT ![client[s]] = NoSocket]
    /\ UNCHANGED <<busVars, lastBound, held, subVars, outVars, pumpVars>>

(* conns.unbind: only if the entry is still this socket's.                 *)
Unbind(s) ==
    /\ StepPhase(s, "unbinding", "aborting")
    /\ registry' = IF RegisteredId(client[s]) = connId[s]
                     THEN [registry EXCEPT ![client[s]] = NoSocket]
                     ELSE registry
    /\ UNCHANGED <<busVars, lastBound, held, subVars, outVars, pumpVars>>

(* pump.abort() and writer.abort() only request it: see PumpAborted.       *)
Abort(s) ==
    /\ StepPhase(s, "aborting", "ended")
    /\ UNCHANGED <<busVars, dirVars, subVars, outVars, pumpVars>>

(* A hook panics: the task unwinds past unbind and abort, and dropping the *)
(* JoinHandles leaves the pump and the writer running.                     *)
HookPanics(s) ==
    /\ \E p \in {"connecting", "reading", "disconnecting"} :
          StepPhase(s, p, "panicked")
    /\ UNCHANGED <<busVars, dirVars, subVars, outVars, pumpVars>>

-----------------------------------------------------------------------------
(* The pump task.                                                          *)

PumpEnds(s) ==
    /\ pump' = [pump EXCEPT ![s] = "gone"]
    /\ hold' = [hold EXCEPT ![s] = 0]
    /\ BusDrop(s)

PumpRecv(s) ==
    /\ pump[s] = "idle"
    /\ BusRecv(s)
    /\ pump' = [pump EXCEPT ![s] = "checking"]
    /\ hold' = [hold EXCEPT ![s] = cursor[s] + 1]
    /\ UNCHANGED <<loopVars, dirVars, subVars, outVars>>

PumpLagged(s) ==
    /\ pump[s] = "idle"
    /\ BusLagged(s)
    /\ UNCHANGED <<loopVars, dirVars, subVars, outVars, pumpVars>>

(* Fault: a pump that would have to wait for the lock drops the frame.     *)
PumpCheckTryLock(s) ==
    /\ pump[s] = "checking"
    /\ \/ /\ log[hold[s]] \in subs[s]
          /\ pump' = [pump EXCEPT ![s] = "sending"]
          /\ UNCHANGED hold
       \/ /\ pump' = [pump EXCEPT ![s] = "idle"]
          /\ hold' = [hold EXCEPT ![s] = 0]
    /\ UNCHANGED <<busVars, loopVars, dirVars, subVars, outVars>>

(* Fault: no filter.                                                       *)
PumpCheckNothing(s) ==
    /\ pump[s] = "checking"
    /\ pump' = [pump EXCEPT ![s] = "sending"]
    /\ UNCHANGED <<hold, busVars, loopVars, dirVars, subVars, outVars>>

(* subs.lock().await.contains(&frame.topic); the guard is released before  *)
(* the send, so a subscription may change in between.                      *)
PumpCheck(s) ==
    /\ pump[s] = "checking"
    /\ IF log[hold[s]] \in subs[s]
         THEN /\ pump' = [pump EXCEPT ![s] = "sending"]
              /\ UNCHANGED hold
         ELSE /\ pump' = [pump EXCEPT ![s] = "idle"]
              /\ hold' = [hold EXCEPT ![s] = 0]
    /\ UNCHANGED <<busVars, loopVars, dirVars, subVars, outVars>>

(* Fault: a frame that was queued is not taken off.                        *)
PumpSendRepeats(s) ==
    /\ pump[s] = "sending"
    /\ Len(out[s]) < MaxPublish
    /\ Enqueue(s, Event(hold[s]))
    /\ UNCHANGED <<pumpVars, busVars, loopVars, dirVars, subVars>>

(* tx.send fails once the writer is gone, and that ends the pump.          *)
PumpSend(s) ==
    /\ pump[s] = "sending"
    /\ Enqueue(s, Event(hold[s]))
    /\ IF writer[s] = "running"
         THEN /\ pump' = [pump EXCEPT ![s] = "idle"]
              /\ hold' = [hold EXCEPT ![s] = 0]
              /\ UNCHANGED busVars
         ELSE PumpEnds(s)
    /\ UNCHANGED <<loopVars, dirVars, subVars>>

(* Fault: an abort does not wake a pump that waits for the bus.            *)
PumpAbortedLate(s) ==
    /\ phase[s] = "ended"
    /\ pump[s] = "checking"
    /\ PumpEnds(s)
    /\ UNCHANGED <<loopVars, dirVars, subVars, outVars>>

(* An abort takes effect where the pump awaits: on the bus or on the lock. *)
PumpAborted(s) ==
    /\ phase[s] = "ended"
    /\ pump[s] \in {"idle", "checking"}
    /\ PumpEnds(s)
    /\ UNCHANGED <<loopVars, dirVars, subVars, outVars>>

-----------------------------------------------------------------------------
(* The writer task: the single owner of the sink.                          *)

Unwritten(s) == writer[s] = "running" /\ written[s] < Len(out[s])

WriterStep(s) ==
    /\ Unwritten(s)
    /\ written' = [written EXCEPT ![s] = @ + 1]
    /\ UNCHANGED <<busVars, loopVars, dirVars, subVars, out, writer, pumpVars>>

WriterEnds(s) ==
    /\ writer' = [writer EXCEPT ![s] = "gone"]
    /\ UNCHANGED <<busVars, loopVars, dirVars, subVars, out, written, pumpVars>>

(* sink.send(msg).await returned an error.                                 *)
WriterFails(s) == Unwritten(s) /\ WriterEnds(s)

WriterAborted(s) ==
    /\ phase[s] = "ended"
    /\ writer[s] = "running"
    /\ WriterEnds(s)

-----------------------------------------------------------------------------
(* The rest of the application: RPC handlers and whatever holds a Conns.   *)

(* Conns::get, and the Caller extractor: a clone of the entry.             *)
Get(c) ==
    /\ registry[c] # NoSocket
    /\ held' = held \cup {registry[c]}
    /\ UNCHANGED <<busVars, loopVars, registry, lastBound, subVars, outVars,
                   pumpVars>>

UseHandle(s) ==
    /\ s \in held
    /\ ConnOp(s)

(* Conns::send_to: the send happens under the registry's lock.             *)
SendTo(c) ==
    /\ registry[c] # NoSocket
    /\ ConnSend(registry[c])
    /\ UNCHANGED <<busVars, loopVars, dirVars, pumpVars>>

(* An emitter, or Conn::publish, publishes on the shared bus.              *)
Emit(t) ==
    /\ BusPublish(t)
    /\ UNCHANGED <<loopVars, dirVars, subVars, outVars, pumpVars>>

LoopProceeds(s) ==
    \/ Bind(s)
    \/ SendWelcome(s)
    \/ OnConnect(s)
    \/ OnDisconnect(s)
    \/ Unbind(s)
    \/ Abort(s)

PumpProceeds(s) ==
    \/ PumpRecv(s)
    \/ PumpLagged(s)
    \/ PumpCheck(s)
    \/ PumpSend(s)

Next ==
    \/ \E s \in Socket :
          \/ \E c \in Client, resumed \in BOOLEAN : Accept(s, c, resumed)
          \/ LoopProceeds(s)
          \/ ReadFrame(s)
          \/ HookUses(s)
          \/ StreamEnds(s)
          \/ HookPanics(s)
          \/ PumpProceeds(s)
          \/ PumpAborted(s)
          \/ WriterStep(s)
          \/ WriterFails(s)
          \/ WriterAborted(s)
          \/ UseHandle(s)
    \/ \E c \in Client : Get(c) \/ SendTo(c)
    \/ \E t \in Topic : Emit(t)

(* tokio runs every spawned task that can run; hooks return; a client that *)
(* is connected drains its socket, so a started write ends one way or the  *)
(* other.  Nothing obliges a client to connect, to send or to close.       *)
Fairness ==
    \A s \in Socket :
        /\ WF_vars(LoopProceeds(s))
        /\ WF_vars(PumpProceeds(s))
        /\ WF_vars(PumpAborted(s))
        /\ WF_vars(WriterStep(s))
        /\ WF_vars(WriterAborted(s))

Spec == Init /\ [][Next]_vars

FairSpec == Spec /\ Fairness

-----------------------------------------------------------------------------
(* The socket has bound its entry and has not reached unbind's lock yet.   *)
IsBound(s) == phase[s] \in {"welcoming", "connecting", "reading",
                            "disconnecting", "unbinding"}

(* The entry of a client is the socket that bound it last or none, and as  *)
(* long as that socket has not unbound, it is there: the late disconnect   *)
(* of an older socket never clobbers a resumed session (session.rs:177).   *)
RegistryIsLastBinder ==
    \A c \in Client :
        LET s == lastBound[c] IN
        /\ registry[c] \in {s, NoSocket}
        /\ s # NoSocket /\ IsBound(s) => registry[c] = s

(* Only a panic lets an entry outlive its socket: whoever is in Conns has  *)
(* not unbound, or lost its task to a hook that panicked, and is           *)
(* registered under its own id (session.rs:153-158).                       *)
NoDanglingEntry ==
    \A c \in Client : registry[c] # NoSocket =>
        /\ IsBound(registry[c]) \/ phase[registry[c]] = "panicked"
        /\ client[registry[c]] = c

(* Where in the queue of a socket events stand, and which those are.       *)
EventIndices(s) == {k \in DOMAIN out[s] : out[s][k].kind = "event"}

Queued(s) == {out[s][k].pos : k \in EventIndices(s)}

(* Since a topic was subscribed, every event on it that the pump has       *)
(* passed is queued, in the pump's hand, or was lost to lag: filter, lock  *)
(* and queue lose nothing while the pump lives.                            *)
NoSilentLoss ==
    \A s \in live : \A t \in subs[s] : \A i \in mark[s][t] + 1 .. cursor[s] :
        log[i] = t => i \in Queued(s) \cup {hold[s]} \cup missed[s]

(* Once an unsubscribe has returned, no event published later on the topic *)
(* is queued for the socket, however late the pump was with older ones.    *)
UnsubscribeIsFinal ==
    \A s \in Socket : \A i \in Queued(s) :
        log[i] \notin subs[s] => i <= mark[s][log[i]]

(* Everything that a closed socket held is given back, unless its hook     *)
(* panics: its entry, its bus receiver and its writer.                     *)
TornDown ==
    \A s \in Socket :
        phase[s] = "disconnecting" ~>
            \/ /\ \A c \in Client : registry[c] # s
               /\ s \notin live
               /\ writer[s] = "gone"
            \/ phase[s] = "panicked"

WasWritten(s, i) == \E k \in 1 .. written[s] : out[s][k] = Event(i)

(* An event on a subscribed topic reaches the client, unless lag, an       *)
(* unsubscribe or the end of the connection intervenes.                    *)
Delivered ==
    \A s \in Socket : \A t \in Topic : \A i \in 1 .. MaxPublish :
        (/\ s \in live
         /\ i <= Len(log) /\ log[i] = t
         /\ t \in subs[s] /\ i > mark[s][t]) ~>
            \/ WasWritten(s, i)
            \/ i \in missed[s]
            \/ t \notin subs[s]
            \/ s \notin live
            \/ writer[s] = "gone"

(* The k-th smallest member of a set of numbers.                           *)
AtPlace(S, k) == {i \in S : Cardinality({j \in S : j <= i}) = k}

Nth(S, k) == CHOOSE i \in AtPlace(S, k) : TRUE

(* The events put in the queue of a socket, by position.                   *)
EventsOut(s) ==
    [k \in 1 .. Cardinality(EventIndices(s)) |->
        out[s][Nth(EventIndices(s), k)].pos]

Feed == INSTANCE Feed WITH
    Subscriber <- Socket,
    Window <- Capacity,
    member <- live,
    wanted <- subs,
    turned <- mark,
    given <- [s \in Socket |-> EventsOut(s)],
    omitted <- [s \in Socket |->
        IF s \in live THEN (1 .. cursor[s]) \ (Queued(s) \cup {hold[s]}) ELSE {}]

(* With its filter, its lock and its queue, the pump serves a socket as    *)
(* the plain feed would, narrowed to the topics it has subscribed: what is *)
(* left out was overwritten, or not subscribed when its turn came, and     *)
(* what is handed over was subscribed or left the ring before its topic    *)
(* was unsubscribed (session.rs:354-373).                                  *)
FeedSpec == Feed!Spec

Newest(s) ==
    \A r \in Socket : client[r] = client[s] => connId[r] <= connId[s]

(* "ids: the client_ids of every currently-connected client", and a        *)
(* reconnect "isn't clobbered by the old socket's late disconnect"         *)
(* (session.rs:209 and :177-179): a client whose newest socket is up is    *)
(* in the registry.                                                        *)
NewestIsAddressable ==
    \A s \in Socket :
        IsBound(s) /\ Newest(s) => registry[client[s]] # NoSocket
=============================================================================
