--------------------------- MODULE PresenceProofs ---------------------------
(***************************************************************************)
(* What TLAPS proves about the presence example, for any number of sockets *)
(* and any clients and names.                                              *)
(***************************************************************************)
EXTENDS Presence, TLAPS

-----------------------------------------------------------------------------
(* The initial roster is empty, and so is every snapshot.                  *)
LEMMA InitType == Init => TypeOK
  BY DEF Init, TypeOK, Roster, Empty, Places

(* Every step keeps the types.                                             *)
LEMMA NextType == TypeOK /\ [Next]_vars => TypeOK'
  <1> SUFFICES ASSUME TypeOK, [Next]_vars PROVE TypeOK'
    OBVIOUS
  <1>. USE DEF TypeOK, Roster, Places, Go
  <1>1. ASSUME NEW s \in Socket, Connect(s) PROVE TypeOK'
    BY <1>1 DEF Connect
  <1>2. ASSUME NEW s \in Socket, NEW n \in Name, Join(s, n) PROVE TypeOK'
    BY <1>2 DEF Join
  <1>3. ASSUME NEW s \in Socket, Snapshot(s) PROVE TypeOK'
    BY <1>3 DEF Snapshot
  <1>4. ASSUME NEW s \in Socket, EmitRoster(s) PROVE TypeOK'
    BY <1>4 DEF EmitRoster
  <1>5. ASSUME NEW s \in Socket, Close(s) PROVE TypeOK'
    BY <1>5 DEF Close
  <1>6. ASSUME NEW s \in Socket, Leave(s) PROVE TypeOK'
    BY <1>6 DEF Leave
  <1>7. CASE UNCHANGED vars
    BY <1>7 DEF vars
  <1>. QED  BY <1>1, <1>2, <1>3, <1>4, <1>5, <1>6, <1>7 DEF Next

(* Every variable of the example keeps its type.                           *)
THEOREM TypeCorrect == Spec => []TypeOK
  BY InitType, NextType, PTL DEF Spec

-----------------------------------------------------------------------------
(* Nobody stays in the roster without a socket, whatever overlaps.  The    *)
(* property is inductive: a name enters with the socket that joined under  *)
(* it, and Leave, the one step after which a socket no longer counts,      *)
(* removes the member.                                                     *)
LEMMA GhostKept == TypeOK /\ NoGhostMember /\ [Next]_vars => NoGhostMember'
  <1> SUFFICES ASSUME TypeOK, NoGhostMember, [Next]_vars, NEW c \in Client,
                      members'[c] # NoName
               PROVE  \E s \in Socket :
                         /\ client'[s] = c
                         /\ name'[s] = members'[c]
                         /\ at'[s] \in {"reading", "joined", "joinSnapped", "closing"}
    BY DEF NoGhostMember
  <1>. USE DEF TypeOK, NoGhostMember, Go, Roster
  <1>1. ASSUME NEW s \in Socket, Connect(s) \/ Snapshot(s) \/ EmitRoster(s) \/ Close(s)
        PROVE  /\ UNCHANGED <<client, name, members>>
               /\ \A r \in Socket :
                     at[r] \in {"reading", "joined", "joinSnapped", "closing"} =>
                         at'[r] \in {"reading", "joined", "joinSnapped", "closing"}
    BY <1>1 DEF Connect, Snapshot, EmitRoster, Close
  <1>2. ASSUME NEW s \in Socket, NEW n \in Name, Join(s, n)
        PROVE  \E r \in Socket :
                  /\ client'[r] = c
                  /\ name'[r] = members'[c]
                  /\ at'[r] \in {"reading", "joined", "joinSnapped", "closing"}
    <2>1. CASE c = client[s]
      BY <1>2, <2>1 DEF Join
    <2>2. CASE c # client[s]
      <3>1. PICK r \in Socket :
               /\ client[r] = c
               /\ name[r] = members[c]
               /\ at[r] \in {"reading", "joined", "joinSnapped", "closing"}
        BY <1>2, <2>2 DEF Join
      <3>2. r # s
        BY <2>2, <3>1
      <3>. QED  BY <1>2, <2>2, <3>1, <3>2 DEF Join
    <2>. QED  BY <2>1, <2>2
  <1>3. ASSUME NEW s \in Socket, Leave(s)
        PROVE  \E r \in Socket :
                  /\ client'[r] = c
                  /\ name'[r] = members'[c]
                  /\ at'[r] \in {"reading", "joined", "joinSnapped", "closing"}
    <2>1. c # client[s] /\ members'[c] = members[c]
      BY <1>3 DEF Leave
    <2>2. PICK r \in Socket :
             /\ client[r] = c
             /\ name[r] = members[c]
             /\ at[r] \in {"reading", "joined", "joinSnapped", "closing"}
      BY <2>1
    <2>3. r # s
      BY <2>1, <2>2
    <2>. QED  BY <1>3, <2>1, <2>2, <2>3 DEF Leave
  <1>4. CASE UNCHANGED vars
    BY <1>4 DEF vars
  <1>. QED  BY <1>1, <1>2, <1>3, <1>4 DEF Next

(* A member always has a socket that joined under its name and has not run *)
(* its removal.                                                            *)
THEOREM NoGhosts == Spec => []NoGhostMember
  <1>1. Init => NoGhostMember
    BY DEF Init, NoGhostMember, Empty
  <1>. QED  BY <1>1, GhostKept, TypeCorrect, PTL DEF Spec

-----------------------------------------------------------------------------
(* What a client can rely on whose sockets never overlapped.  Its own      *)
(* hooks then run one after the other: overlapped knows of every client of *)
(* whom two sockets are up, a name belongs to a socket that is up or was,  *)
(* and after Leave the member is gone until the next socket joins.         *)

IsUp(s) == at[s] \notin {"absent", "done"}

OverlapIsKnown ==
    \A r, s \in Socket :
        r # s /\ client[r] = client[s] /\ IsUp(r) /\ IsUp(s)
            => client[s] \in overlapped

JoinedHaveNames ==
    \A s \in Socket :
        /\ at[s] = "absent" => name[s] = NoName
        /\ at[s] \in {"joined", "joinSnapped"} => name[s] # NoName

LeftIsGone ==
    \A s \in Socket :
        at[s] = "left" /\ client[s] \notin overlapped
            => members[client[s]] = NoName

RosterInv ==
    /\ OverlapIsKnown
    /\ JoinedHaveNames
    /\ LeftIsGone
    /\ JoinedIsMember
    /\ SnapshotShowsOwnChange

(* With nobody connected there is nothing to rely on.                      *)
LEMMA InitRoster == Init => RosterInv
  BY DEF Init, RosterInv, OverlapIsKnown, IsUp, JoinedHaveNames, LeftIsGone,
         JoinedIsMember, Joined, SnapshotShowsOwnChange

(* A socket that connects either is the only one of its client, or makes   *)
(* the client an overlapped one.                                           *)
LEMMA ConnectRoster ==
    ASSUME TypeOK, RosterInv, NEW s \in Socket, Connect(s)
    PROVE  RosterInv'
  <1>. USE DEF TypeOK, Connect, Go
  <1>1. OverlapIsKnown'
    BY DEF RosterInv, OverlapIsKnown, IsUp, Siblings
  <1>2. JoinedHaveNames'
    BY DEF RosterInv, JoinedHaveNames
  <1>3. overlapped \subseteq overlapped'
    OBVIOUS
  <1>4. LeftIsGone' /\ SnapshotShowsOwnChange'
    BY <1>3 DEF RosterInv, LeftIsGone, SnapshotShowsOwnChange
  <1>5. JoinedIsMember'
    BY <1>3 DEF RosterInv, JoinedHaveNames, JoinedIsMember, Joined
  <1>. QED  BY <1>1, <1>2, <1>4, <1>5 DEF RosterInv

(* Join and Leave change the entry of their own client only, and no other  *)
(* socket of that client is up if it never overlapped.                     *)
LEMMA JoinRoster ==
    ASSUME TypeOK, RosterInv, NEW s \in Socket, NEW n \in Name, Join(s, n)
    PROVE  RosterInv'
  <1>. USE NoNameAssumption DEF TypeOK, Join, Go, Roster
  <1>1. OverlapIsKnown'
    BY DEF RosterInv, OverlapIsKnown, IsUp
  <1>2. JoinedHaveNames'
    BY DEF RosterInv, JoinedHaveNames
  <1>3. \A r \in Socket : r # s /\ client[r] = client[s] /\ client[r] \notin overlapped
                             => ~ IsUp(r)
    BY DEF RosterInv, OverlapIsKnown, IsUp
  <1>4. LeftIsGone'
    BY <1>3 DEF RosterInv, LeftIsGone, IsUp
  <1>5. SnapshotShowsOwnChange'
    BY <1>3 DEF RosterInv, SnapshotShowsOwnChange, IsUp
  <1>6. JoinedIsMember'
    BY <1>3 DEF RosterInv, JoinedIsMember, Joined, IsUp
  <1>. QED  BY <1>1, <1>2, <1>4, <1>5, <1>6 DEF RosterInv

(* The same for the removal.                                               *)
LEMMA LeaveRoster ==
    ASSUME TypeOK, RosterInv, NEW s \in Socket, Leave(s)
    PROVE  RosterInv'
  <1>. USE DEF TypeOK, Leave, Go, Roster
  <1>1. OverlapIsKnown'
    BY DEF RosterInv, OverlapIsKnown, IsUp
  <1>2. JoinedHaveNames'
    BY DEF RosterInv, JoinedHaveNames
  <1>3. \A r \in Socket : r # s /\ client[r] = client[s] /\ client[r] \notin overlapped
                             => ~ IsUp(r)
    BY DEF RosterInv, OverlapIsKnown, IsUp
  <1>4. LeftIsGone'
    BY <1>3 DEF RosterInv, LeftIsGone, IsUp
  <1>5. SnapshotShowsOwnChange'
    BY <1>3 DEF RosterInv, SnapshotShowsOwnChange, IsUp
  <1>6. JoinedIsMember'
    BY <1>3 DEF RosterInv, JoinedIsMember, Joined, IsUp
  <1>. QED  BY <1>1, <1>2, <1>4, <1>5, <1>6 DEF RosterInv

(* The other steps change neither roster nor names.                        *)
LEMMA OtherRoster ==
    ASSUME TypeOK, RosterInv, NEW s \in Socket,
           Snapshot(s) \/ EmitRoster(s) \/ Close(s)
    PROVE  RosterInv'
  <1>. USE DEF TypeOK, Snapshot, EmitRoster, Close, Go, Roster
  <1>1. OverlapIsKnown'
    BY DEF RosterInv, OverlapIsKnown, IsUp
  <1>2. JoinedHaveNames'
    BY DEF RosterInv, JoinedHaveNames
  <1>3. LeftIsGone'
    BY DEF RosterInv, LeftIsGone
  <1>4. JoinedIsMember'
    BY DEF RosterInv, JoinedIsMember, Joined
  <1>5. SnapshotShowsOwnChange'
    BY DEF RosterInv, SnapshotShowsOwnChange, JoinedIsMember, Joined,
           JoinedHaveNames, LeftIsGone
  <1>. QED  BY <1>1, <1>2, <1>3, <1>4, <1>5 DEF RosterInv

(* Every step keeps the invariant of the roster.                           *)
LEMMA NextRoster == TypeOK /\ RosterInv /\ [Next]_vars => RosterInv'
  <1> SUFFICES ASSUME TypeOK, RosterInv, [Next]_vars PROVE RosterInv'
    OBVIOUS
  <1>1. CASE UNCHANGED vars
    BY <1>1 DEF vars, RosterInv, OverlapIsKnown, IsUp, JoinedHaveNames,
       LeftIsGone, JoinedIsMember, Joined, SnapshotShowsOwnChange
  <1>. QED
    BY <1>1, ConnectRoster, JoinRoster, LeaveRoster, OtherRoster DEF Next

(* A client whose sockets never overlapped is in the roster from its Join  *)
(* to its disconnect, under the name it gave last, whatever others do.     *)
THEOREM JoinedAreMembers == Spec => []JoinedIsMember
  <1>1. RosterInv => JoinedIsMember
    BY DEF RosterInv
  <1>. QED  BY <1>1, TypeCorrect, InitRoster, NextRoster, PTL DEF Spec

(* The roster that such a client's hook emits has what the hook did to it, *)
(* though it is read under a second acquisition of the lock.               *)
THEOREM SnapshotsShowOwnChange == Spec => []SnapshotShowsOwnChange
  <1>1. RosterInv => SnapshotShowsOwnChange
    BY DEF RosterInv
  <1>. QED  BY <1>1, TypeCorrect, InitRoster, NextRoster, PTL DEF Spec
=============================================================================
