------------------------------ MODULE MCSystem ------------------------------
(***************************************************************************)
(* System for TLC: both calls listen to one topic, with a callback each.   *)
(* Call "a" is the one that listens first.                                 *)
(*                                                                         *)
(* To keep two sockets within TLC's reach, the runs leave out steps that   *)
(* nothing obliges anyone to take: all that listeners may do is tried on   *)
(* the first socket while it lasts, and less of it once that one breaks.   *)
(***************************************************************************)
EXTENDS System, TLC

MCTopicOf == [x \in Call |-> "t"]

MCHandlerOf == [x \in Call |-> x]

FirstSocketLasts ==
    /\ opened <= 1
    /\ ready[1] \in {"none", "connecting", "open"}
    /\ phase[1] \notin {"disconnecting", "unbinding", "aborting", "ended"}
    /\ writer[1] # "gone"

InTurn == setOf["b"] # NoSet => setOf["a"] # NoSet

(* Over two sockets, no unlisten function is called again.                 *)
UnlistenedOnce == \A c \in Call : unlistens[c] <= 1

TopicsNext == SystemNext /\ InTurn' /\ (FirstSocketLasts' \/ UnlistenedOnce')

TopicsSpec == SystemInit /\ [][TopicsNext]_systemVars /\ SystemFairness

(* Over two sockets, one call listens and goes on listening, no hook       *)
(* panics, and the first socket breaks without a handshake; the server     *)
(* finds out when it reads.                                                *)
OneListener ==
    /\ setOf["b"] = NoSet
    /\ unlistens["a"] = 0
    /\ \A n \in SocketId : phase[n] # "panicked" /\ ready[n] # "closing"
    /\ writer[1] = "gone" => phase[1] = "ended"

EventsNext == SystemNext /\ InTurn' /\ (FirstSocketLasts' \/ OneListener')

(* The page has no stored id.                                              *)
EventsInit == SystemInit /\ clientId = 0

EventsSpec == EventsInit /\ [][EventsNext]_systemVars /\ SystemFairness
=============================================================================
