----------------------------- MODULE WsHandler ------------------------------
(***************************************************************************)
(* ws_handler / ws_session (crates/draad/src/runtime/mod.rs): the default  *)
(* WebSocket handler.  One task per socket selects between the bus and the *)
(* socket: every bus frame is forwarded, whatever its topic, client frames *)
(* are drained, and any error or close ends the task.                      *)
(***************************************************************************)
EXTENDS EventBus

VARIABLES
    task,      \* task[s]: where the ws_session task of s stands
    sending,   \* sending[s]: the frame whose socket.send is in progress
    got        \* got[s]: the frames written to the socket, in order

vars == <<busVars, task, sending, got>>

TypeOK ==
    /\ BusTypeOK
    /\ task \in [Socket -> {"absent", "selecting", "sending", "returned"}]
    /\ sending \in [Socket -> 0 .. MaxPublish]
    /\ got \in [Socket -> Seq(1 .. MaxPublish)]

Init ==
    /\ BusInit
    /\ task = [s \in Socket |-> "absent"]
    /\ sending = [s \in Socket |-> 0]
    /\ got = [s \in Socket |-> << >>]

-----------------------------------------------------------------------------
(* on_upgrade spawns the task, which subscribes first.                     *)
Upgrade(s) ==
    /\ task[s] = "absent"
    /\ BusSubscribe(s)
    /\ task' = [task EXCEPT ![s] = "selecting"]
    /\ UNCHANGED <<sending, got>>

(* The branch rx.recv() => Ok(frame): the send starts.                     *)
RecvFrame(s) ==
    /\ task[s] = "selecting"
    /\ BusRecv(s)
    /\ task' = [task EXCEPT ![s] = "sending"]
    /\ sending' = [sending EXCEPT ![s] = cursor[s] + 1]
    /\ UNCHANGED got

(* socket.send(..).await returned Ok: back to the select.                  *)
SendOk(s) ==
    /\ task[s] = "sending"
    /\ got' = [got EXCEPT ![s] = Append(@, sending[s])]
    /\ task' = [task EXCEPT ![s] = "selecting"]
    /\ UNCHANGED <<busVars, sending>>

(* Fault: Lagged ends the loop, as Closed does.                            *)
SkipLaggedReturns(s) ==
    /\ task[s] = "selecting"
    /\ BusLagged(s)
    /\ task' = [task EXCEPT ![s] = "returned"]
    /\ UNCHANGED <<sending, got>>

(* The branch rx.recv() => Err(Lagged(_)): skip and keep going.            *)
SkipLagged(s) ==
    /\ task[s] = "selecting"
    /\ BusLagged(s)
    /\ UNCHANGED <<task, sending, got>>

(* socket.send failed, or socket.recv yielded a close: the task returns    *)
(* and drops its receiver.  Client frames are drained without effect.      *)
Return(s) ==
    /\ task[s] \in {"selecting", "sending"}
    /\ BusDrop(s)
    /\ task' = [task EXCEPT ![s] = "returned"]
    /\ UNCHANGED <<sending, got>>

Emit(t) ==
    /\ BusPublish(t)
    /\ UNCHANGED <<task, sending, got>>

Next ==
    \/ \E s \in Socket :
          \/ Upgrade(s)
          \/ RecvFrame(s)
          \/ SendOk(s)
          \/ SkipLagged(s)
          \/ Return(s)
    \/ \E t \in Topic : Emit(t)

(* The task is scheduled, and the client keeps reading, so that an         *)
(* accepted send completes.                                                *)
Fairness ==
    \A s \in Socket :
        /\ WF_vars(RecvFrame(s))
        /\ WF_vars(SkipLagged(s))
        /\ WF_vars(SendOk(s))

Spec == Init /\ [][Next]_vars /\ Fairness

-----------------------------------------------------------------------------
Frames(s) == {got[s][k] : k \in DOMAIN got[s]}

InHand(s) == IF task[s] = "sending" THEN {sending[s]} ELSE {}

(* Frames are lost only by overflow of the ring: while the task runs,      *)
(* every position it has passed was either written, is being written, or   *)
(* was reported by Lagged, and no position is two of these.                *)
LostOnlyByLag ==
    \A s \in Socket : task[s] \in {"selecting", "sending"} =>
        /\ Frames(s) \cup InHand(s) \cup missed[s] = 1 .. cursor[s]
        /\ (Frames(s) \cup InHand(s)) \cap missed[s] = {}

Feed == INSTANCE Feed WITH
    Subscriber <- Socket,
    Window <- Capacity,
    member <- live,
    wanted <- [s \in Socket |-> Topic],
    turned <- [s \in Socket |-> [t \in Topic |-> 0]],
    given <- got,
    omitted <- [s \in Socket |-> IF s \in live THEN missed[s] ELSE {}]

(* The handler gives every socket the whole feed: in order, once, with no  *)
(* gap but for frames that Capacity later ones have overwritten, and it    *)
(* goes on doing so while the socket lasts (mod.rs:112-132).               *)
FeedSpec == Feed!Spec
=============================================================================
