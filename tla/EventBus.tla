------------------------------ MODULE EventBus ------------------------------
(***************************************************************************)
(* The event bus of draad (crates/draad/src/runtime/mod.rs): a thin handle *)
(* around a tokio broadcast channel.  Emitters publish frames; every live  *)
(* receiver reads every frame published after it subscribed, unless it     *)
(* falls more than Capacity frames behind, in which case the next receive  *)
(* reports Lagged and jumps to the oldest frame still in the ring.         *)
(*                                                                         *)
(* A frame is known by its position in log; what is kept of it is its      *)
(* topic (the payload never influences the runtime).                       *)
(***************************************************************************)
EXTENDS Naturals, Sequences

CONSTANTS
    Socket,      \* WebSocket connections; each owns one broadcast receiver
    Topic,       \* event topics
    Capacity,    \* slots of the ring; 256 in EventBus::new
    MaxPublish   \* bound on the number of frames ever stored

ASSUME CapacityAssumption == Capacity \in Nat \ {0}
ASSUME MaxPublishAssumption == MaxPublish \in Nat

VARIABLES
    log,      \* every frame stored by the channel so far, by topic
    live,     \* the receivers that exist
    cursor,   \* cursor[r]: the position of the last frame r has passed
    missed    \* history: missed[r] are the positions r was never handed

busVars == <<log, live, cursor, missed>>

BusTypeOK ==
    /\ log \in Seq(Topic)
    /\ Len(log) <= MaxPublish
    /\ live \in SUBSET Socket
    /\ cursor \in [Socket -> Nat]
    /\ \A r \in Socket : cursor[r] <= Len(log)
    /\ missed \in [Socket -> SUBSET (1 .. Len(log))]

BusInit ==
    /\ log = << >>
    /\ live = {}
    /\ cursor = [r \in Socket |-> 0]
    /\ missed = [r \in Socket |-> {}]

-----------------------------------------------------------------------------
(* Fault: a new receiver starts with what the ring still stores.           *)
BusSubscribeToRing(r) ==
    /\ r \notin live
    /\ live' = live \cup {r}
    /\ cursor' = [cursor EXCEPT ![r] = IF Len(log) > Capacity
                                         THEN Len(log) - Capacity ELSE 0]
    /\ missed' = [missed EXCEPT ![r] = 1 .. cursor'[r]]
    /\ UNCHANGED log

(* A new receiver starts at the tail: it sees nothing published before.    *)
BusSubscribe(r) ==
    /\ r \notin live
    /\ live' = live \cup {r}
    /\ cursor' = [cursor EXCEPT ![r] = Len(log)]
    /\ missed' = [missed EXCEPT ![r] = 1 .. Len(log)]
    /\ UNCHANGED log

(* send fails, and stores nothing, when there is no receiver; the bus      *)
(* drops that error.                                                       *)
BusPublish(t) ==
    /\ Len(log) < MaxPublish
    /\ log' = IF live = {} THEN log ELSE Append(log, t)
    /\ UNCHANGED <<live, cursor, missed>>

Backlog(r) == Len(log) - cursor[r]

(* Fault: a receiver that has read everything reads on.                    *)
BusRecvPastTail(r) ==
    /\ r \in live
    /\ Backlog(r) <= Capacity
    /\ cursor' = [cursor EXCEPT ![r] = @ + 1]
    /\ UNCHANGED <<log, live, missed>>

(* The receiver is handed the frame after its cursor.                      *)
BusRecv(r) ==
    /\ r \in live
    /\ Backlog(r) \in 1 .. Capacity
    /\ cursor' = [cursor EXCEPT ![r] = @ + 1]
    /\ UNCHANGED <<log, live, missed>>

(* Fault: an overflow skips to the tail instead of the oldest frame.       *)
BusLaggedToTail(r) ==
    /\ r \in live
    /\ Backlog(r) > Capacity
    /\ cursor' = [cursor EXCEPT ![r] = Len(log)]
    /\ missed' = [missed EXCEPT
                    ![r] = @ \cup (cursor[r] + 1 .. Len(log) - Capacity)]
    /\ UNCHANGED <<log, live>>

(* The slot after the cursor was overwritten: Err(Lagged), and the cursor  *)
(* moves to just before the oldest frame still stored.                     *)
BusLagged(r) ==
    /\ r \in live
    /\ Backlog(r) > Capacity
    /\ cursor' = [cursor EXCEPT ![r] = Len(log) - Capacity]
    /\ missed' = [missed EXCEPT
                    ![r] = @ \cup (cursor[r] + 1 .. Len(log) - Capacity)]
    /\ UNCHANGED <<log, live>>

(* The receiver is dropped with the task that owns it.                     *)
BusDrop(r) ==
    /\ r \in live
    /\ live' = live \ {r}
    /\ UNCHANGED <<log, cursor, missed>>
=============================================================================
