--------------------------- MODULE WsHandlerProofs --------------------------
(***************************************************************************)
(* Theorems about the default WebSocket handler (WsHandler), for any       *)
(* sockets, topics, ring size and number of frames: type correctness,      *)
(* exact accounting of losses, and that every step is one that a           *)
(* subscriber of the feed (Feed) may see.                                  *)
(***************************************************************************)
EXTENDS WsHandler, SequenceTheorems, TLAPS

(* The steps of the handler change the state of one socket, or the log.    *)
SocketStep(s) ==
    Upgrade(s) \/ RecvFrame(s) \/ SendOk(s) \/ SkipLagged(s) \/ Return(s)

Running(s) == task[s] \in {"selecting", "sending"}

(* What got holds after one more frame.                                    *)
LEMMA AppendedFrames ==
    ASSUME NEW S, NEW q \in Seq(S), NEW x \in S
    PROVE  /\ Append(q, x) \in Seq(S)
           /\ {Append(q, x)[k] : k \in DOMAIN Append(q, x)}
                  = {q[k] : k \in DOMAIN q} \cup {x}
  <1>1. /\ Append(q, x) \in Seq(S)
        /\ Len(Append(q, x)) = Len(q) + 1
        /\ \A k \in 1 .. Len(q) : Append(q, x)[k] = q[k]
        /\ Append(q, x)[Len(q) + 1] = x
    OBVIOUS
  <1>2. DOMAIN q = 1 .. Len(q) /\ DOMAIN Append(q, x) = 1 .. (Len(q) + 1)
        /\ Len(q) \in Nat
    BY <1>1
  <1>3. 1 .. (Len(q) + 1) = (1 .. Len(q)) \cup {Len(q) + 1}
    BY <1>2
  <1>. QED  BY <1>1, <1>2, <1>3

-----------------------------------------------------------------------------
(* The receiver exists as long as the task runs, a task that has not begun *)
(* has written nothing, and a frame in hand has not been written.          *)
LiveIsRunning == live = {s \in Socket : Running(s)}

AbsentIsEmpty == \A s \in Socket : task[s] = "absent" => got[s] = << >>

InHandIsNew ==
    \A s \in Socket : task[s] = "sending" => sending[s] \notin Frames(s)

(* TypeOK is not inductive: that got holds positions from 1 on is so       *)
(* because a frame in hand is one that the receiver has passed.            *)
IInv == TypeOK /\ LiveIsRunning /\ AbsentIsEmpty /\ InHandIsNew /\ LostOnlyByLag

LEMMA InvInit == Init => IInv
  <1>. SUFFICES ASSUME Init PROVE IInv
    OBVIOUS
  <1>. USE CapacityAssumption, MaxPublishAssumption DEF Init, BusInit
  <1>1. TypeOK
    BY DEF TypeOK, BusTypeOK
  <1>2. LiveIsRunning /\ AbsentIsEmpty /\ InHandIsNew /\ LostOnlyByLag
    BY DEF LiveIsRunning, Running, AbsentIsEmpty, InHandIsNew, LostOnlyByLag
  <1>. QED  BY <1>1, <1>2 DEF IInv

(* The variables of the other sockets stay as they are.                    *)
LEMMA OthersStay ==
    ASSUME TypeOK, NEW s \in Socket, SocketStep(s)
    PROVE  /\ log' = log
           /\ \A u \in Socket \ {s} :
                 /\ task'[u] = task[u] /\ sending'[u] = sending[u] /\ got'[u] = got[u]
                 /\ cursor'[u] = cursor[u] /\ missed'[u] = missed[u]
                 /\ u \in live' <=> u \in live
  BY DEF TypeOK, BusTypeOK, SocketStep, Upgrade, RecvFrame, SendOk, SkipLagged,
         Return, BusSubscribe, BusRecv, BusLagged, BusDrop, busVars

(* What a running task has passed, with its frame in hand.                 *)
LEMMA Accounted ==
    ASSUME IInv, NEW s \in Socket, Running(s)
    PROVE  /\ s \in live
           /\ cursor[s] \in Nat /\ Len(log) \in Nat /\ cursor[s] <= Len(log)
           /\ Len(log) <= MaxPublish
           /\ missed[s] \subseteq 1 .. Len(log)
           /\ got[s] \in Seq(1 .. MaxPublish)
           /\ Frames(s) \cup InHand(s) \cup missed[s] = 1 .. cursor[s]
           /\ (Frames(s) \cup InHand(s)) \cap missed[s] = {}
           /\ task[s] = "sending" => /\ sending[s] \in 1 .. cursor[s]
                                     /\ InHand(s) = {sending[s]}
                                     /\ sending[s] \notin Frames(s)
           /\ task[s] = "selecting" => InHand(s) = {}
  <1>1. /\ s \in live /\ cursor[s] \in Nat /\ Len(log) \in Nat
        /\ cursor[s] <= Len(log) /\ Len(log) <= MaxPublish
        /\ missed[s] \subseteq 1 .. Len(log) /\ got[s] \in Seq(1 .. MaxPublish)
    BY DEF IInv, TypeOK, BusTypeOK, LiveIsRunning
  <1>2. /\ Frames(s) \cup InHand(s) \cup missed[s] = 1 .. cursor[s]
        /\ (Frames(s) \cup InHand(s)) \cap missed[s] = {}
    BY DEF IInv, LostOnlyByLag, Running
  <1>3. task[s] = "selecting" => InHand(s) = {}
    BY DEF InHand
  <1>4. ASSUME task[s] = "sending"
        PROVE  InHand(s) = {sending[s]} /\ sending[s] \notin Frames(s)
    BY <1>4 DEF InHand, IInv, InHandIsNew
  <1>5. task[s] = "sending" => sending[s] \in 1 .. cursor[s]
    BY <1>2, <1>4
  <1>. QED  BY <1>1, <1>2, <1>3, <1>4, <1>5

(* What the parts of the invariant say of one socket.                      *)
One(s) ==
    /\ task[s] \in {"absent", "selecting", "sending", "returned"}
    /\ sending[s] \in 0 .. MaxPublish
    /\ got[s] \in Seq(1 .. MaxPublish)
    /\ cursor[s] \in Nat /\ cursor[s] <= Len(log)
    /\ missed[s] \subseteq 1 .. Len(log)
    /\ s \in live <=> Running(s)
    /\ task[s] = "absent" => got[s] = << >>
    /\ task[s] = "sending" => sending[s] \notin Frames(s)
    /\ Running(s) =>
          /\ Frames(s) \cup InHand(s) \cup missed[s] = 1 .. cursor[s]
          /\ (Frames(s) \cup InHand(s)) \cap missed[s] = {}

(* The functions and the log have their shape.                             *)
Shape ==
    /\ log \in Seq(Topic) /\ Len(log) <= MaxPublish
    /\ live \subseteq Socket
    /\ cursor = [s \in Socket |-> cursor[s]]
    /\ missed = [s \in Socket |-> missed[s]]
    /\ task = [s \in Socket |-> task[s]]
    /\ sending = [s \in Socket |-> sending[s]]
    /\ got = [s \in Socket |-> got[s]]

LEMMA InvByOne == IInv <=> Shape /\ \A s \in Socket : One(s)
  <1>1. ASSUME IInv PROVE Shape /\ \A s \in Socket : One(s)
    BY <1>1 DEF IInv, TypeOK, BusTypeOK, LiveIsRunning, AbsentIsEmpty, InHandIsNew,
                LostOnlyByLag, Shape, One, Running
  <1>2. ASSUME Shape, \A s \in Socket : One(s) PROVE IInv
    <2>1. TypeOK
      BY <1>2 DEF TypeOK, BusTypeOK, Shape, One
    <2>2. LiveIsRunning
      BY <1>2 DEF LiveIsRunning, Shape, One
    <2>3. AbsentIsEmpty /\ InHandIsNew
      BY <1>2 DEF AbsentIsEmpty, InHandIsNew, One
    <2>4. LostOnlyByLag
      BY <1>2 DEF LostOnlyByLag, Running, One
    <2>. QED  BY <2>1, <2>2, <2>3, <2>4 DEF IInv
  <1>. QED  BY <1>1, <1>2

LEMMA InvByOneNext == (IInv <=> Shape /\ \A s \in Socket : One(s))'
  BY InvByOne, PTL

-----------------------------------------------------------------------------
LEMMA ShapeKept ==
    ASSUME IInv, NEW s \in Socket, SocketStep(s)
    PROVE  Shape'
  <1>. IInv /\ Shape
    BY InvByOne
  <1>. QED
    BY DEF Shape, SocketStep, Upgrade, RecvFrame, SendOk, SkipLagged, Return,
           BusSubscribe, BusRecv, BusLagged, BusDrop, busVars

LEMMA OneOther ==
    ASSUME IInv, NEW s \in Socket, SocketStep(s), NEW u \in Socket \ {s}
    PROVE  One(u)'
  <1>1. TypeOK /\ One(u)
    BY InvByOne DEF IInv
  <1>. QED
    BY <1>1, OthersStay DEF One, Running, Frames, InHand

LEMMA OneUpgrade ==
    ASSUME IInv, NEW s \in Socket, Upgrade(s)
    PROVE  One(s)'
  <1>1. Shape /\ One(s)
    BY InvByOne
  <1>2. /\ got[s] = << >> /\ got' = got /\ sending' = sending /\ log' = log
        /\ task'[s] = "selecting" /\ s \in live'
        /\ cursor'[s] = Len(log) /\ missed'[s] = 1 .. Len(log)
        /\ Len(log) \in Nat
    BY <1>1 DEF One, Shape, Upgrade, BusSubscribe
  <1>3. Frames(s)' = {} /\ InHand(s)' = {}
    BY <1>2 DEF Frames, InHand
  <1>4. /\ Frames(s)' \cup InHand(s)' \cup missed'[s] = 1 .. cursor'[s]
        /\ (Frames(s)' \cup InHand(s)') \cap missed'[s] = {}
    BY <1>2, <1>3
  <1>5. /\ cursor'[s] \in Nat /\ cursor'[s] <= Len(log')
        /\ missed'[s] \subseteq 1 .. Len(log')
    BY <1>2
  <1>6. sending'[s] \in 0 .. MaxPublish /\ got'[s] \in Seq(1 .. MaxPublish)
    <2>1. sending[s] \in 0 .. MaxPublish /\ got[s] \in Seq(1 .. MaxPublish)
      BY <1>1 DEF One
    <2>. QED  BY <1>2, <2>1
  <1>. QED
    BY <1>2, <1>4, <1>5, <1>6 DEF One, Running

LEMMA OneRecv ==
    ASSUME IInv, NEW s \in Socket, RecvFrame(s)
    PROVE  One(s)'
  <1>1. Shape /\ One(s)
    BY InvByOne
  <1>2. /\ got' = got /\ log' = log /\ live' = live /\ missed' = missed
        /\ task[s] = "selecting" /\ task'[s] = "sending"
        /\ cursor'[s] = cursor[s] + 1 /\ sending'[s] = cursor[s] + 1
        /\ cursor[s] \in Nat /\ Len(log) \in Nat
        /\ cursor[s] + 1 <= Len(log) /\ Len(log) <= MaxPublish
    BY <1>1, CapacityAssumption
       DEF One, Shape, RecvFrame, BusRecv, Backlog
  <1>3. /\ Frames(s)' = Frames(s)
        /\ InHand(s) = {} /\ InHand(s)' = {cursor[s] + 1}
    BY <1>2 DEF Frames, InHand
  <1>4. /\ Frames(s) \cup missed[s] = 1 .. cursor[s]
        /\ Frames(s) \cap missed[s] = {}
    BY <1>1, <1>2, <1>3 DEF One, Running
  <1>5. /\ 1 .. cursor[s] + 1 = (1 .. cursor[s]) \cup {cursor[s] + 1}
        /\ cursor[s] + 1 \notin 1 .. cursor[s]
        /\ cursor[s] + 1 \in 0 .. MaxPublish
    BY <1>2, MaxPublishAssumption
  <1>6. /\ Frames(s)' \cup InHand(s)' \cup missed'[s] = 1 .. cursor'[s]
        /\ (Frames(s)' \cup InHand(s)') \cap missed'[s] = {}
        /\ sending'[s] \notin Frames(s)'
    BY <1>2, <1>3, <1>4, <1>5
  <1>. QED
    BY <1>1, <1>2, <1>5, <1>6 DEF One, Running

LEMMA OneSend ==
    ASSUME IInv, NEW s \in Socket, SendOk(s)
    PROVE  One(s)'
  <1>1. Shape /\ One(s)
    BY InvByOne
  <1>2. /\ log' = log /\ live' = live /\ missed' = missed /\ cursor' = cursor
        /\ sending' = sending
        /\ task[s] = "sending" /\ task'[s] = "selecting"
        /\ got'[s] = Append(got[s], sending[s])
        /\ got[s] \in Seq(1 .. MaxPublish)
    BY <1>1 DEF One, Shape, SendOk, busVars
  <1>a. Running(s)
    BY <1>2 DEF Running
  <1>3. /\ sending[s] \in 1 .. MaxPublish
        /\ InHand(s) = {sending[s]} /\ InHand(s)' = {}
    <2>1. /\ InHand(s) = {sending[s]} /\ sending[s] \in 1 .. cursor[s]
          /\ cursor[s] \in Nat /\ Len(log) \in Nat
          /\ cursor[s] <= Len(log) /\ Len(log) <= MaxPublish
      BY <1>2, <1>a, Accounted
    <2>2. sending[s] \in 1 .. MaxPublish
      BY <2>1, MaxPublishAssumption
    <2>. QED  BY <1>2, <2>1, <2>2 DEF InHand
  <1>4. /\ got'[s] \in Seq(1 .. MaxPublish)
        /\ Frames(s)' = Frames(s) \cup {sending[s]}
    BY <1>2, <1>3, AppendedFrames DEF Frames
  <1>. QED
    BY <1>1, <1>2, <1>3, <1>4 DEF One, Running

LEMMA OneLagged ==
    ASSUME IInv, NEW s \in Socket, SkipLagged(s)
    PROVE  One(s)'
  <1>1. Shape /\ One(s)
    BY InvByOne
  <1>2. /\ log' = log /\ live' = live /\ got' = got /\ sending' = sending
        /\ task' = task /\ task[s] = "selecting"
        /\ cursor'[s] = Len(log) - Capacity
        /\ missed'[s] = missed[s] \cup (cursor[s] + 1 .. Len(log) - Capacity)
        /\ cursor[s] \in Nat /\ Len(log) \in Nat
        /\ Len(log) - cursor[s] > Capacity
    BY <1>1 DEF One, Shape, SkipLagged, BusLagged, Backlog
  <1>3. /\ Frames(s)' = Frames(s) /\ InHand(s)' = {} /\ InHand(s) = {}
        /\ Frames(s) \cup missed[s] = 1 .. cursor[s]
        /\ Frames(s) \cap missed[s] = {}
    BY <1>1, <1>2 DEF Frames, InHand, One, Running
  <1>4. DEFINE top == Len(log) - Capacity
  <1>5. /\ 1 .. top = (1 .. cursor[s]) \cup (cursor[s] + 1 .. top)
        /\ (1 .. cursor[s]) \cap (cursor[s] + 1 .. top) = {}
        /\ top \in Nat /\ top <= Len(log)
    BY <1>2, CapacityAssumption
  <1>6. /\ Frames(s)' \cup InHand(s)' \cup missed'[s] = 1 .. cursor'[s]
        /\ (Frames(s)' \cup InHand(s)') \cap missed'[s] = {}
    BY <1>2, <1>3, <1>5
  <1>. QED
    BY <1>1, <1>2, <1>5, <1>6 DEF One, Running

LEMMA OneReturn ==
    ASSUME IInv, NEW s \in Socket, Return(s)
    PROVE  One(s)'
  <1>1. Shape /\ One(s)
    BY InvByOne
  <1>. QED
    BY <1>1 DEF Shape, One, Running, Return, BusDrop, Frames, InHand

LEMMA InvSocket ==
    ASSUME IInv, NEW s \in Socket, SocketStep(s)
    PROVE  IInv'
  <1>1. One(s)'
    BY OneUpgrade, OneRecv, OneSend, OneLagged, OneReturn DEF SocketStep
  <1>2. \A u \in Socket : One(u)'
    BY <1>1, OneOther
  <1>3. Shape'
    BY ShapeKept
  <1>. QED
    BY <1>2, <1>3, InvByOneNext

LEMMA InvEmit ==
    ASSUME IInv, NEW t \in Topic, Emit(t)
    PROVE  IInv'
  <1>1. Shape /\ \A s \in Socket : One(s)
    BY InvByOne
  <1>2. /\ log' \in Seq(Topic) /\ Len(log') <= MaxPublish
        /\ Len(log) \in Nat /\ Len(log') \in Nat /\ Len(log) <= Len(log')
    <2>1. /\ log \in Seq(Topic) /\ Len(log) \in Nat /\ Len(log) < MaxPublish
          /\ log' = log \/ log' = Append(log, t)
      BY <1>1 DEF Shape, Emit, BusPublish
    <2>2. Append(log, t) \in Seq(Topic) /\ Len(Append(log, t)) = Len(log) + 1
      BY <2>1
    <2>. QED  BY <2>1, <2>2, MaxPublishAssumption
  <1>3. Shape'
    BY <1>1, <1>2 DEF Shape, Emit, BusPublish
  <1>4. ASSUME NEW s \in Socket PROVE One(s)'
    <2>1. One(s)
      BY <1>1
    <2>2. cursor[s] <= Len(log') /\ missed[s] \subseteq 1 .. Len(log')
      BY <1>2, <2>1 DEF One
    <2>. QED
      BY <2>1, <2>2 DEF One, Running, Emit, BusPublish, Frames, InHand
  <1>. QED  BY <1>3, <1>4, InvByOneNext

LEMMA InvStutter == IInv /\ UNCHANGED vars => IInv'
  BY DEF vars, busVars, IInv, TypeOK, BusTypeOK, LiveIsRunning, Running, AbsentIsEmpty,
         InHandIsNew, LostOnlyByLag, Frames, InHand

LEMMA InvNext == IInv /\ [Next]_vars => IInv'
  BY InvSocket, InvEmit, InvStutter DEF Next, SocketStep

LEMMA Invariance == Spec => []IInv
  BY InvInit, InvNext, PTL DEF Spec

(* Every reachable state of the default handler is type correct            *)
(* (ws_session, mod.rs:107-132).                                           *)
THEOREM TypeCorrect == Spec => []TypeOK
  <1>1. IInv => TypeOK
    BY DEF IInv
  <1>. QED  BY <1>1, Invariance, PTL

(* A running task has written, has in hand, or was told to have lost every *)
(* frame that its receiver has passed, and none of them twice, for any     *)
(* size of the ring (mod.rs:117-122).                                      *)
THEOREM LossIsAccounted == Spec => []LostOnlyByLag
  <1>1. IInv => LostOnlyByLag
    BY DEF IInv
  <1>. QED  BY <1>1, Invariance, PTL

-----------------------------------------------------------------------------
(* Every step maps to one of the feed's, or to a stutter.                  *)
Omitted(s) == IF s \in live THEN missed[s] ELSE {}

LEMMA FeedInit == Init => Feed!Init
  BY DEF Init, BusInit, Feed!Init

LEMMA DueIs ==
    ASSUME IInv, NEW s \in Socket, s \in live
    PROVE  /\ Running(s)
           /\ Feed!Due(s) = InHand(s) \cup (cursor[s] + 1 .. Len(log))
  <1>1. Running(s)
    BY DEF IInv, LiveIsRunning
  <1>2. /\ cursor[s] \in Nat /\ Len(log) \in Nat /\ cursor[s] <= Len(log)
        /\ Frames(s) \cup InHand(s) \cup missed[s] = 1 .. cursor[s]
        /\ (Frames(s) \cup InHand(s)) \cap missed[s] = {}
        /\ Frames(s) \cap InHand(s) = {}
    BY <1>1, Accounted DEF InHand
  <1>3. Feed!Due(s) = (1 .. Len(log)) \ (Frames(s) \cup missed[s])
    BY DEF Feed!Due, Feed!Given, Frames
  <1>4. 1 .. Len(log) = (1 .. cursor[s]) \cup (cursor[s] + 1 .. Len(log))
        /\ (1 .. cursor[s]) \cap (cursor[s] + 1 .. Len(log)) = {}
    BY <1>2
  <1>. QED  BY <1>1, <1>2, <1>3, <1>4

(* The arguments of the mapping that never change, and Omitted as a whole. *)
LEMMA FeedUnchanged ==
    ASSUME UNCHANGED <<log, live, missed, got>>
    PROVE  UNCHANGED Feed!vars
  BY DEF Feed!vars

LEMMA FeedJoin ==
    ASSUME IInv, NEW s \in Socket, Upgrade(s)
    PROVE  Feed!Join(s)
  <1>1. Shape
    BY InvByOne
  <1>2. /\ s \notin live /\ live' = live \cup {s} /\ log' = log /\ got' = got
        /\ missed' = [missed EXCEPT ![s] = 1 .. Len(log)]
    BY DEF Upgrade, BusSubscribe
  <1>3. [u \in Socket |-> Omitted(u)]'
            = [[u \in Socket |-> Omitted(u)] EXCEPT ![s] = 1 .. Len(log)]
    BY <1>1, <1>2 DEF Omitted, Shape
  <1>. QED  BY <1>2, <1>3 DEF Feed!Join, Omitted

LEMMA FeedLeave ==
    ASSUME IInv, NEW s \in Socket, Return(s)
    PROVE  Feed!Leave(s)
  <1>1. /\ s \in live /\ live' = live \ {s} /\ UNCHANGED <<log, missed, got>>
    BY DEF Return, BusDrop
  <1>2. [u \in Socket |-> Omitted(u)]'
            = [[u \in Socket |-> Omitted(u)] EXCEPT ![s] = {}]
    BY <1>1 DEF Omitted
  <1>. QED  BY <1>1, <1>2 DEF Feed!Leave, Omitted

LEMMA FeedGive ==
    ASSUME IInv, NEW s \in Socket, SendOk(s)
    PROVE  Feed!Give(s)
  <1>1. /\ task[s] = "sending" /\ Running(s)
        /\ got' = [got EXCEPT ![s] = Append(@, sending[s])]
        /\ UNCHANGED <<log, live, cursor, missed>>
    BY DEF SendOk, busVars, Running
  <1>2. /\ s \in live /\ sending[s] \in 1 .. cursor[s]
        /\ InHand(s) = {sending[s]}
        /\ cursor[s] \in Nat /\ Len(log) \in Nat /\ cursor[s] <= Len(log)
    BY <1>1, Accounted
  <1>3. Feed!IsNext(s, sending[s])
    BY <1>2, DueIs DEF Feed!IsNext
  <1>4. log[sending[s]] \in Topic
    BY <1>2 DEF IInv, TypeOK, BusTypeOK
  <1>5. sending[s] \in Feed!Due(s)
    BY <1>2, DueIs
  <1>. QED  BY <1>1, <1>2, <1>3, <1>4, <1>5 DEF Feed!Give

LEMMA FeedOverflow ==
    ASSUME IInv, NEW s \in Socket, SkipLagged(s)
    PROVE  Feed!Overflow(s)
  <1>1. /\ task[s] = "selecting" /\ Running(s) /\ s \in live
        /\ Len(log) - cursor[s] > Capacity
        /\ missed' = [missed EXCEPT
                         ![s] = @ \cup (cursor[s] + 1 .. Len(log) - Capacity)]
        /\ UNCHANGED <<log, live, got>>
    BY DEF SkipLagged, BusLagged, Backlog, Running
  <1>2. /\ InHand(s) = {}
        /\ cursor[s] \in Nat /\ Len(log) \in Nat /\ cursor[s] <= Len(log)
    BY <1>1, Accounted
  <1>3. Feed!Due(s) = cursor[s] + 1 .. Len(log)
    BY <1>1, <1>2, DueIs
  <1>4. DEFINE top == Len(log) - Capacity
  <1>5. /\ top \in Feed!Due(s)
        /\ top + Capacity <= Len(log)
        /\ {j \in Feed!Due(s) : j <= top} = cursor[s] + 1 .. top
    BY <1>1, <1>2, <1>3, CapacityAssumption
  <1>6. [u \in Socket |-> Omitted(u)]'
            = [[u \in Socket |-> Omitted(u)] EXCEPT
                  ![s] = @ \cup {j \in Feed!Due(s) : j <= top}]
    <2>1. missed = [u \in Socket |-> missed[u]]
      BY InvByOne DEF Shape
    <2>. QED  BY <1>1, <1>5, <2>1 DEF Omitted
  <1>. QED  BY <1>1, <1>5, <1>6 DEF Feed!Overflow, Omitted

LEMMA FeedPublish ==
    ASSUME IInv, NEW t \in Topic, Emit(t)
    PROVE  Feed!Publish(t) \/ UNCHANGED Feed!vars
  <1>1. CASE live = {}
    BY <1>1, FeedUnchanged DEF Emit, BusPublish
  <1>2. CASE live # {}
    BY <1>2 DEF Emit, BusPublish, Feed!Publish
  <1>. QED  BY <1>1, <1>2

LEMMA FeedNext == IInv /\ [Next]_vars => [Feed!Next]_(Feed!vars)
  <1>. SUFFICES ASSUME IInv, [Next]_vars PROVE [Feed!Next]_(Feed!vars)
    OBVIOUS
  <1>1. ASSUME NEW s \in Socket, Upgrade(s) PROVE Feed!Next
    BY <1>1, FeedJoin DEF Feed!Next
  <1>2. ASSUME NEW s \in Socket, RecvFrame(s) PROVE UNCHANGED Feed!vars
    BY <1>2, FeedUnchanged DEF RecvFrame, BusRecv
  <1>3. ASSUME NEW s \in Socket, SendOk(s) PROVE Feed!Next
    BY <1>3, FeedGive DEF Feed!Next, Feed!Serve
  <1>4. ASSUME NEW s \in Socket, SkipLagged(s) PROVE Feed!Next
    BY <1>4, FeedOverflow DEF Feed!Next, Feed!Serve
  <1>5. ASSUME NEW s \in Socket, Return(s) PROVE Feed!Next
    BY <1>5, FeedLeave DEF Feed!Next
  <1>6. ASSUME NEW t \in Topic, Emit(t) PROVE [Feed!Next]_(Feed!vars)
    BY <1>6, FeedPublish DEF Feed!Next
  <1>7. ASSUME UNCHANGED vars PROVE UNCHANGED Feed!vars
    BY <1>7, FeedUnchanged DEF vars, busVars
  <1>. QED
    BY <1>1, <1>2, <1>3, <1>4, <1>5, <1>6, <1>7 DEF Next

(* The default handler implements the safety part of Feed: its sockets are *)
(* given frames of the feed in order and once, and only frames that        *)
(* Capacity later ones have overwritten are left out (mod.rs:112-132).     *)
THEOREM ImplementsFeed == Spec => Feed!Init /\ [][Feed!Next]_(Feed!vars)
  BY FeedInit, FeedNext, Invariance, PTL DEF Spec
=============================================================================
