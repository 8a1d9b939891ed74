------------------------------ MODULE Presence ------------------------------
(***************************************************************************)
(* The presence example (examples/hello/src/api/presence.rs): a Session    *)
(* whose application keeps a roster of members by client id and broadcasts *)
(* the whole roster on the bus after every join and every disconnect.      *)
(*                                                                         *)
(* Of the session runtime this module keeps what the hooks depend on: one  *)
(* task per socket, which runs on_message to its end before it reads on,   *)
(* and on_disconnect once, after the last message.                         *)
(***************************************************************************)
EXTENDS Naturals, FiniteSets

CONSTANTS
    N,               \* number of sockets, numbered in the order they connect
    Client,
    Name,            \* names that clients join under
    NoName           \* "not in the roster"

ASSUME NAssumption == N \in Nat
ASSUME NoNameAssumption == NoName \notin Name

Socket == 1 .. N

VARIABLES
    at,        \* at[s]: where the task of s stands
    client,    \* client[s]: the client id of s
    name,      \* name[s]: the name in the HelloSession of s; NoName is None
    members,   \* Members: client id -> name, or NoName
    snap,      \* snap[s]: the roster that the task of s took a snapshot of
    roster,    \* the last roster published; a function, as members
    overlapped \* history: clients of whom two sockets were up at once

vars == <<at, client, name, members, snap, roster, overlapped>>

(* Before a Join or a disconnect, after its change of members, and after   *)
(* its snapshot; then the roster is emitted.                               *)
Places == {"absent", "reading", "joined", "joinSnapped",
           "closing", "left", "leftSnapped", "done"}

Roster == [Client -> Name \cup {NoName}]

Empty == [c \in Client |-> NoName]

TypeOK ==
    /\ at \in [Socket -> Places]
    /\ client \in [Socket -> Client]
    /\ name \in [Socket -> Name \cup {NoName}]
    /\ members \in Roster
    /\ snap \in [Socket -> Roster]
    /\ roster \in Roster
    /\ overlapped \in SUBSET Client

Init ==
    /\ at = [s \in Socket |-> "absent"]
    /\ client \in [Socket -> Client]
    /\ name = [s \in Socket |-> NoName]
    /\ members = Empty
    /\ snap = [s \in Socket |-> Empty]
    /\ roster = Empty
    /\ overlapped = {}

Go(s, from, to) == at[s] = from /\ at' = [at EXCEPT ![s] = to]

Siblings(s) == {r \in Socket \ {s} : client[r] = client[s]}

-----------------------------------------------------------------------------
(* on_connect: a session without a name.                                   *)
Connect(s) ==
    /\ Go(s, "absent", "reading")
    /\ \A r \in 1 .. s - 1 : at[r] # "absent"
    /\ overlapped' = IF \A r \in Siblings(s) : at[r] \in {"absent", "done"}
                        THEN overlapped ELSE overlapped \cup {client[s]}
    /\ UNCHANGED <<client, name, members, snap, roster>>

(* Fault: the first name stays.                                            *)
JoinIfAbsent(s, n) ==
    /\ Go(s, "reading", "joined")
    /\ name' = [name EXCEPT ![s] = n]
    /\ members' = [members EXCEPT ![client[s]] = IF @ = NoName THEN n ELSE @]
    /\ UNCHANGED <<client, snap, roster, overlapped>>

(* HelloMsg::Join: set the name and insert the member under its lock, ...  *)
Join(s, n) ==
    /\ Go(s, "reading", "joined")
    /\ name' = [name EXCEPT ![s] = n]
    /\ members' = [members EXCEPT ![client[s]] = n]
    /\ UNCHANGED <<client, snap, roster, overlapped>>

(* Fault: the snapshot is taken of the last broadcast.                     *)
SnapshotOfBroadcast(s) ==
    /\ Go(s, "joined", "joinSnapped") \/ Go(s, "left", "leftSnapped")
    /\ snap' = [snap EXCEPT ![s] = roster]
    /\ UNCHANGED <<client, name, members, roster, overlapped>>

(* ... take the snapshot under the lock again (also on_disconnect), ...    *)
Snapshot(s) ==
    /\ Go(s, "joined", "joinSnapped") \/ Go(s, "left", "leftSnapped")
    /\ snap' = [snap EXCEPT ![s] = members]
    /\ UNCHANGED <<client, name, members, roster, overlapped>>

(* ... and emit it.                                                        *)
EmitRoster(s) ==
    /\ Go(s, "joinSnapped", "reading") \/ Go(s, "leftSnapped", "done")
    /\ roster' = snap[s]
    /\ UNCHANGED <<client, name, members, snap, overlapped>>

(* The socket closes: the read loop ends and on_disconnect is called.      *)
Close(s) ==
    /\ Go(s, "reading", "closing")
    /\ UNCHANGED <<client, name, members, snap, roster, overlapped>>

(* Fault: the member is kept if the client has another socket, even one    *)
(* that is gone.                                                           *)
LeaveUnlessShared(s) ==
    /\ Go(s, "closing", "left")
    /\ members' = IF Siblings(s) = {}
                     THEN [members EXCEPT ![client[s]] = NoName] ELSE members
    /\ UNCHANGED <<client, name, snap, roster, overlapped>>

(* on_disconnect: remove the member, whoever put it there.                 *)
Leave(s) ==
    /\ Go(s, "closing", "left")
    /\ members' = [members EXCEPT ![client[s]] = NoName]
    /\ UNCHANGED <<client, name, snap, roster, overlapped>>

Next ==
    \E s \in Socket :
        \/ Connect(s)
        \/ \E n \in Name : Join(s, n)
        \/ Snapshot(s)
        \/ EmitRoster(s)
        \/ Close(s)
        \/ Leave(s)

Spec == Init /\ [][Next]_vars

-----------------------------------------------------------------------------
Joined(s) == name[s] # NoName /\ at[s] \in {"reading", "joined", "joinSnapped"}

(* Nobody stays in the roster without a socket: a member has a socket that *)
(* joined under that name and has not run its removal (:124-128).          *)
NoGhostMember ==
    \A c \in Client : members[c] # NoName =>
        \E s \in Socket :
            /\ client[s] = c
            /\ name[s] = members[c]
            /\ at[s] \in {"reading", "joined", "joinSnapped", "closing"}

(* A client whose sockets never overlapped, and that has joined, is in the *)
(* roster under the name it gave last, whatever other clients do.          *)
JoinedIsMember ==
    \A s \in Socket :
        Joined(s) /\ client[s] \notin overlapped => members[client[s]] = name[s]

(* The roster that a hook emits shows what the hook did, whatever other    *)
(* clients did meanwhile, if the sockets of its client never overlapped.   *)
SnapshotShowsOwnChange ==
    \A s \in Socket : client[s] \notin overlapped =>
        /\ at[s] = "joinSnapped" => snap[s][client[s]] = name[s]
        /\ at[s] = "leftSnapped" => snap[s][client[s]] = NoName
=============================================================================
