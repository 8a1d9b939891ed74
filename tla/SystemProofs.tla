---------------------------- MODULE SystemProofs ----------------------------
(***************************************************************************)
(* What TLAPS proves about one page on one server (System), for any calls, *)
(* and topics, any capacity of the bus, and any bounds.                    *)
(***************************************************************************)
EXTENDS System, RpcClientProofs, FiniteSetTheorems

(* The server's half, with what is proved about Session alone.             *)
SP == INSTANCE SessionProofs WITH
    Socket <- SocketId,
    Client <- 1 .. MaxSockets + 1,
    NoClient <- 0,
    NoSocket <- 0,
    MaxDirect <- 0,
    subs <- topics

(* The constants given to Session are as it assumes them to be.            *)
LEMMA ServerConstants ==
    /\ Capacity \in Nat \ {0} /\ MaxPublish \in Nat
    /\ 0 \notin 1 .. MaxSockets + 1 /\ 0 \notin SocketId /\ 0 \in Nat
  BY BusAssumption DEF SocketId

-----------------------------------------------------------------------------
(* The two halves.                                                         *)

(* Every step of the system is a step of the client of RpcClient, or       *)
(* leaves it alone.                                                        *)
LEMMA PageStep == [SystemNext]_systemVars => [Next]_vars
  <1>1. ASSUME NEW c \in Call, PageListens(c) \/ PageUnlistens(c) PROVE Next
    BY <1>1 DEF PageListens, PageUnlistens, Next
  <1>2. PageSends => Next
    BY DEF PageSends, Next
  <1>3. ASSUME NEW k \in 1 .. MaxSockets, TimerRuns(k) PROVE Next
    BY <1>3 DEF TimerRuns, Next
  <1>4. ASSUME NEW n \in SocketId,
               \/ SocketOpens(n) \/ HandshakeBegins(n) \/ SocketCloses(n)
               \/ ReceiveWelcome(n)
        PROVE  Next
    BY <1>4
       DEF SocketOpens, HandshakeBegins, SocketCloses, ReceiveWelcome, Next
  <1>5. ASSUME NEW n \in SocketId,
               \/ ReceiveEvent(n) \/ Upgrade(n) \/ TakeUp(n) \/ LoopRuns(n)
               \/ PumpRuns(n) \/ WriterRuns(n) \/ Panics(n) \/ ServerLoses(n)
        PROVE  UNCHANGED vars
    BY <1>5 DEF ReceiveEvent, Upgrade, TakeUp, LoopRuns, PumpRuns, WriterRuns,
                Panics, ServerLoses, ServerActs, clientVars
  <1>6. ASSUME NEW t \in Topic, Publish(t) PROVE UNCHANGED vars
    BY <1>6 DEF Publish, ServerActs, clientVars
  <1>7. UNCHANGED systemVars => UNCHANGED vars
    BY DEF systemVars, clientVars
  <1>. QED  BY <1>1, <1>2, <1>3, <1>4, <1>5, <1>6, <1>7 DEF SystemNext

(* What the page sends.                                                    *)
PageFrame ==
    {Subscribe(t) : t \in Topic} \cup {Unsubscribe(t) : t \in Topic}
        \cup {Application}

UpTypeOK == up \in [SocketId -> Seq(PageFrame)]

(* Steps of the page leave the server alone.                               *)
LEMMA PageLeavesServer ==
    /\ \A c \in Call : PageListens(c) \/ PageUnlistens(c) => UNCHANGED serverVars
    /\ PageSends => UNCHANGED serverVars
    /\ \A k \in 1 .. MaxSockets : TimerRuns(k) => UNCHANGED serverVars
    /\ \A n \in SocketId :
          \/ SocketOpens(n) \/ HandshakeBegins(n) \/ SocketCloses(n)
          \/ ReceiveWelcome(n) \/ ReceiveEvent(n)
          => UNCHANGED serverVars
  BY DEF PageListens, PageUnlistens, PageSends, TimerRuns, SocketOpens,
         HandshakeBegins, SocketCloses, ReceiveWelcome, ReceiveEvent,
         PageActs, TakeFrame

(* Every step of the system is a step of the server of Session, or leaves  *)
(* it alone: the page's frames are taken in the read loop only, and ask    *)
(* for nothing that Conn does not offer.                                   *)
LEMMA ServerStep ==
    ASSUME SocketTypeOK, UpTypeOK, [SystemNext]_systemVars
    PROVE  [SP!Next]_SP!vars
  <1>. USE DEF Server!busVars, Server!loopVars, Server!dirVars, Server!subVars,
               Server!outVars, Server!pumpVars, SP!busVars, SP!loopVars,
               SP!dirVars, SP!subVars, SP!outVars, SP!pumpVars
  <1>1. ASSUME NEW n \in SocketId, LoopRuns(n) PROVE SP!LoopProceeds(n)
    BY <1>1
       DEF LoopRuns, Server!LoopProceeds, SP!LoopProceeds, Server!Bind, SP!Bind,
           Server!SendWelcome, SP!SendWelcome, Server!OnConnect, SP!OnConnect,
           Server!OnDisconnect, SP!OnDisconnect, Server!Unbind, SP!Unbind,
           Server!Abort, SP!Abort, Server!StepPhase, SP!StepPhase,
           Server!Enqueue, SP!Enqueue, Server!Welcome, SP!Welcome,
           Server!RegisteredId, SP!RegisteredId
  <1>2. ASSUME NEW n \in SocketId, PumpRuns(n)
        PROVE  SP!PumpProceeds(n) \/ SP!PumpAborted(n)
    BY <1>2
       DEF PumpRuns, Server!PumpProceeds, SP!PumpProceeds, Server!PumpRecv,
           SP!PumpRecv, Server!PumpLagged, SP!PumpLagged, Server!PumpCheck,
           SP!PumpCheck, Server!PumpSend, SP!PumpSend, Server!PumpAborted,
           SP!PumpAborted, Server!PumpEnds, SP!PumpEnds, Server!Enqueue,
           SP!Enqueue, Server!Event, SP!Event, Server!BusRecv, SP!BusRecv,
           Server!BusLagged, SP!BusLagged, Server!BusDrop, SP!BusDrop,
           Server!Backlog, SP!Backlog
  <1>3. ASSUME NEW n \in SocketId, WriterRuns(n)
        PROVE  SP!WriterStep(n) \/ SP!WriterAborted(n)
    BY <1>3
       DEF WriterRuns, Server!WriterStep, SP!WriterStep, Server!WriterAborted,
           SP!WriterAborted, Server!WriterEnds, SP!WriterEnds,
           Server!Unwritten, SP!Unwritten
  <1>4. ASSUME NEW n \in SocketId, Panics(n) \/ ServerLoses(n)
        PROVE  SP!HookPanics(n) \/ SP!StreamEnds(n) \/ SP!WriterFails(n)
    BY <1>4
       DEF Panics, ServerLoses, Server!HookPanics, SP!HookPanics,
           Server!StreamEnds, SP!StreamEnds, Server!WriterFails,
           SP!WriterFails, Server!WriterEnds, SP!WriterEnds,
           Server!Unwritten, SP!Unwritten, Server!StepPhase, SP!StepPhase
  <1>5. ASSUME NEW n \in SocketId, Upgrade(n)
        PROVE  \E c \in 1 .. MaxSockets + 1, r \in BOOLEAN : SP!Accept(n, c, r)
    <2>. USE DEF Upgrade, Server!Accept, SP!Accept, Server!BusSubscribe,
                 SP!BusSubscribe
    <2>1. CASE resumed[n] # 0
      <3>1. SP!Accept(n, resumed[n], TRUE)
        BY <1>5, <2>1
      <3>2. resumed[n] \in 1 .. MaxSockets + 1
        BY <2>1, BoundAssumption DEF SocketTypeOK
      <3>. QED  BY <3>1, <3>2
    <2>2. CASE resumed[n] = 0
      <3>1. SP!Accept(n, n, FALSE)
        BY <1>5, <2>2
      <3>2. n \in 1 .. MaxSockets + 1
        BY BoundAssumption DEF SocketId
      <3>. QED  BY <3>1, <3>2
    <2>. QED  BY <2>1, <2>2
  <1>6. ASSUME NEW t \in Topic, Publish(t) PROVE SP!Emit(t)
    BY <1>6
       DEF Publish, Server!Emit, SP!Emit, Server!BusPublish, SP!BusPublish
  <1>7. ASSUME NEW n \in SocketId, TakeUp(n)
        PROVE  SP!ReadFrame(n) \/ UNCHANGED SP!vars
    <2>. DEFINE frame == Head(up[n])
    <2>1. frame \in PageFrame
      BY <1>7 DEF TakeUp, UpTypeOK
    <2>2. UNCHANGED <<SP!busVars, SP!loopVars, SP!dirVars, SP!pumpVars>>
      BY <1>7 DEF TakeUp, busVars, loopVars, dirVars, pumpVars
    <2>3. CASE frame.type = "subscribe"
      <3>1. frame.topic \in Topic
        BY <2>1, <2>3 DEF PageFrame, Subscribe, Unsubscribe, Application
      <3>2. phase[n] = "reading" /\ SP!ConnSubscribe(n, frame.topic)
        BY <1>7, <2>3
           DEF TakeUp, Server!ConnSubscribe, SP!ConnSubscribe,
               Server!MoveMark, SP!MoveMark
      <3>. QED  BY <2>2, <3>1, <3>2 DEF SP!ReadFrame, SP!ConnOp
    <2>4. CASE frame.type = "unsubscribe"
      <3>1. frame.topic \in Topic
        BY <2>1, <2>4 DEF PageFrame, Subscribe, Unsubscribe, Application
      <3>2. phase[n] = "reading" /\ SP!ConnUnsubscribe(n, frame.topic)
        BY <1>7, <2>4
           DEF TakeUp, Server!ConnUnsubscribe, SP!ConnUnsubscribe,
               Server!MoveMark, SP!MoveMark
      <3>. QED  BY <2>2, <3>1, <3>2 DEF SP!ReadFrame, SP!ConnOp
    <2>5. CASE frame.type = "application"
      BY <1>7, <2>2, <2>5 DEF TakeUp, queueVars, SP!vars
    <2>. QED  BY <1>7, <2>3, <2>4, <2>5 DEF TakeUp
  <1>8. UNCHANGED serverVars \/ UNCHANGED systemVars => UNCHANGED SP!vars
    BY DEF serverVars, systemVars, SP!vars, busVars, loopVars, dirVars,
           queueVars, pumpVars
  <1>9. ASSUME NEW n \in SocketId,
               \/ Upgrade(n) \/ TakeUp(n) \/ LoopRuns(n) \/ PumpRuns(n)
               \/ WriterRuns(n) \/ Panics(n) \/ ServerLoses(n)
        PROVE  SP!Next \/ UNCHANGED SP!vars
    BY <1>1, <1>2, <1>3, <1>4, <1>5, <1>7, <1>9 DEF SP!Next
  <1>10. ASSUME NEW t \in Topic, Publish(t) PROVE SP!Next
    BY <1>6, <1>10 DEF SP!Next
  <1>. QED
    BY <1>8, <1>9, <1>10, PageLeavesServer DEF SystemNext

-----------------------------------------------------------------------------
(* The topics that the page asks for.  On an open socket they are those it *)
(* listens to; a socket that never opened was asked for nothing.           *)

AskedInv ==
    /\ IsFiniteSet(Topics)
    /\ \A n \in SocketId :
          /\ IsFiniteSet(asked[n])
          /\ n > opened => ready[n] = "none"
          /\ ready[n] \in {"none", "connecting"} => asked[n] = {}
          /\ ready[n] = "open" => asked[n] = Topics

(* A step of the page that changes neither Sets nor frames keeps this,     *)
(* unless it opens a socket.                                               *)
LEMMA AskedStays ==
    ASSUME SocketTypeOK, SocketInv, AskedInv, UNCHANGED <<subs, asked>>,
           \/ OpenWs
           \/ UNCHANGED <<ready, opened>>
           \/ \E n \in SocketId, r \in {"closing", "closed"} :
                 /\ ready[n] # "none"
                 /\ ready' = [ready EXCEPT ![n] = r]
                 /\ UNCHANGED opened
    PROVE  AskedInv'
  <1>1. Topics' = Topics
    BY DEF Topics
  <1>. USE BoundAssumption DEF SocketTypeOK, SocketId, AskedInv
  <1>2. CASE OpenWs
    BY <1>1, <1>2 DEF OpenWs
  <1>3. CASE UNCHANGED <<ready, opened>>
    BY <1>1, <1>3
  <1>4. ASSUME NEW n \in SocketId, NEW r \in {"closing", "closed"},
               ready[n] # "none", ready' = [ready EXCEPT ![n] = r], UNCHANGED opened
        PROVE  AskedInv'
    BY <1>1, <1>4
  <1>. QED  BY <1>2, <1>3, <1>4

(* The first listener of a topic asks for it on the socket, if it is open. *)
LEMMA ListenAsks ==
    ASSUME SocketTypeOK, SocketInv, TopicTypeOK, AskedInv,
           NEW c \in Call, Listen(c)
    PROVE  AskedInv'
  <1>. DEFINE t == TopicOf[c]
  <1>. USE BoundAssumption DEF SocketTypeOK, TopicTypeOK, SocketId
  <1>1. t \in Topic
    BY CallAssumption
  <1>2. CASE subs[t] # NoSet
    <2>1. UNCHANGED <<subs, asked>>
      BY <1>1, <1>2 DEF Listen
    <2>2. OpenWs \/ UNCHANGED <<ready, opened>>
      BY DEF Listen, EnsureWs, sockVars
    <2>. QED  BY <2>1, <2>2, AskedStays
  <1>3. CASE subs[t] = NoSet
    <2>1. Topics' = Topics \cup {t} /\ IsFiniteSet(Topics')
      <3>1. subs' = [subs EXCEPT ![t] = c] /\ c # NoSet
        BY <1>3, CallAssumption DEF Listen
      <3>2. Topics' = Topics \cup {t}
        BY <1>1, <3>1 DEF Topics
      <3>. QED  BY <3>2, FS_AddElement DEF AskedInv
    <2>2. CASE IsOpen
      <3>1. /\ ws \in SocketId /\ UNCHANGED sockVars
            /\ asked' = [asked EXCEPT ![ws] = asked[ws] \cup {t}]
        BY <1>3, <2>2 DEF Listen, EnsureWs, IsOpen
      <3>2. \A n \in SocketId : ready[n] = "open" => n = ws
        BY DEF SocketInv, OneSocket
      <3>3. IsFiniteSet(asked[ws] \cup {t})
        <4>1. IsFiniteSet(asked[ws])
          BY <3>1 DEF AskedInv
        <4>. QED  BY <4>1, FS_AddElement
      <3>. QED  BY <2>1, <2>2, <3>1, <3>2, <3>3 DEF AskedInv, IsOpen, sockVars
    <2>3. CASE ~ IsOpen
      <3>1. /\ UNCHANGED asked
            /\ OpenWs \/ UNCHANGED <<ready, opened>>
        BY <1>3, <2>3 DEF Listen, EnsureWs, sockVars
      <3>2. \A n \in SocketId : ready[n] # "open"
        BY <2>3 DEF SocketInv, OneSocket, IsOpen
      <3>3. \A n \in SocketId : ready'[n] # "open"
        BY <3>1, <3>2 DEF OpenWs
      <3>4. CASE UNCHANGED <<ready, opened>>
        BY <2>1, <3>1, <3>3, <3>4 DEF AskedInv
      <3>5. CASE OpenWs
        BY <2>1, <3>1, <3>3, <3>5 DEF AskedInv, OpenWs
      <3>. QED  BY <3>1, <3>4, <3>5
    <2>. QED  BY <2>2, <2>3
  <1>. QED  BY <1>2, <1>3

(* The last listener of a topic asks for it no more.                       *)
LEMMA UnlistenAsks ==
    ASSUME SocketTypeOK, SocketInv, TopicTypeOK, AskedInv,
           NEW c \in Call, Unlisten(c)
    PROVE  AskedInv'
  <1>. DEFINE t == TopicOf[c]
  <1>. USE BoundAssumption DEF SocketTypeOK, TopicTypeOK, SocketId
  <1>1. t \in Topic /\ UNCHANGED sockVars
    BY CallAssumption DEF Unlisten
  <1>2. CASE UNCHANGED <<subs, asked>>
    BY <1>1, <1>2, AskedStays DEF sockVars
  <1>3. CASE ~ UNCHANGED <<subs, asked>>
    <2>1. /\ subs' = [subs EXCEPT ![t] = NoSet]
          /\ asked' = IF IsOpen THEN [asked EXCEPT ![ws] = asked[ws] \ {t}]
                                ELSE asked
      BY <1>3 DEF Unlisten
    <2>2. Topics' = Topics \ {t} /\ IsFiniteSet(Topics')
      <3>1. Topics' = Topics \ {t}
        BY <1>1, <2>1 DEF Topics
      <3>. QED  BY <3>1, FS_RemoveElement DEF AskedInv
    <2>3. \A n \in SocketId : ready[n] = "open" => n = ws /\ IsOpen
      BY DEF SocketInv, OneSocket, IsOpen
    <2>4. CASE IsOpen
      <3>1. ws \in SocketId /\ asked' = [asked EXCEPT ![ws] = asked[ws] \ {t}]
        BY <2>1, <2>4 DEF IsOpen
      <3>2. IsFiniteSet(asked[ws] \ {t})
        <4>1. IsFiniteSet(asked[ws])
          BY <3>1 DEF AskedInv
        <4>. QED  BY <4>1, FS_RemoveElement
      <3>. QED  BY <1>1, <2>2, <2>3, <2>4, <3>1, <3>2 DEF AskedInv, sockVars, IsOpen
    <2>5. CASE ~ IsOpen
      BY <1>1, <2>1, <2>2, <2>3, <2>5 DEF AskedInv, sockVars
    <2>. QED  BY <2>4, <2>5
  <1>. QED  BY <1>2, <1>3

(* Every step of the page keeps the invariant.                             *)
LEMMA AskedKept ==
    SocketTypeOK /\ SocketInv /\ TopicTypeOK /\ AskedInv /\ [Next]_vars => AskedInv'
  <1> SUFFICES ASSUME SocketTypeOK, SocketInv, TopicTypeOK, AskedInv, [Next]_vars
               PROVE  AskedInv'
    OBVIOUS
  <1>1. ASSUME NEW n \in SocketId, Opens(n) PROVE AskedInv'
    <2>1. /\ ready[n] = "connecting" /\ ready' = [ready EXCEPT ![n] = "open"]
          /\ asked' = [asked EXCEPT ![n] = asked[n] \cup Topics]
          /\ opened' = opened /\ Topics' = Topics
      BY <1>1 DEF Opens, Restore, subVars, Topics
    <2>2. asked[n] \cup Topics = Topics
      BY <2>1 DEF AskedInv
    <2>. QED  BY <2>1, <2>2, BoundAssumption
              DEF AskedInv, SocketTypeOK, TopicTypeOK, SocketId
  <1>2. ASSUME NEW n \in SocketId, Welcomed(n) \/ Closing(n) \/ Closes(n)
        PROVE  AskedInv'
    <2>1. UNCHANGED <<subs, asked>>
      BY <1>2 DEF Welcomed, Closing, Closes, subVars
    <2>2. \/ UNCHANGED <<ready, opened>>
          \/ \E r \in {"closing", "closed"} :
                /\ ready[n] # "none"
                /\ ready' = [ready EXCEPT ![n] = r]
                /\ UNCHANGED opened
      BY <1>2 DEF Welcomed, Closing, Closes
    <2>. QED  BY <2>1, <2>2, AskedStays
  <1>3. ASSUME NEW h \in OpenHandler, OnOpen(h) \/ OffOpen(h) PROVE AskedInv'
    BY <1>3, AskedStays DEF OnOpen, OffOpen, sockVars, subVars
  <1>4. ASSUME NEW k \in 1 .. MaxSockets, TimerFires(k) PROVE AskedInv'
    BY <1>4, AskedStays DEF TimerFires, sockVars, subVars
  <1>5. CASE Send
    BY <1>5, AskedStays DEF Send, EnsureWs, sockVars, subVars
  <1>6. CASE UNCHANGED vars
    BY <1>6, AskedStays DEF vars, sockVars, subVars
  <1>. QED
    BY <1>1, <1>2, <1>3, <1>4, <1>5, <1>6, ListenAsks, UnlistenAsks DEF Next

-----------------------------------------------------------------------------
(* The frames under way.                                                   *)

(* SetToSeq lists a finite set.                                            *)
LEMMA SetToSeqLists ==
    ASSUME NEW S, IsFiniteSet(S)
    PROVE  /\ Cardinality(S) \in Nat
           /\ SetToSeq(S) \in [1 .. Cardinality(S) -> S]
           /\ \A x \in S : \E k \in 1 .. Cardinality(S) : SetToSeq(S)[k] = x
  <1>. DEFINE N == Cardinality(S)
  <1>1. N \in Nat /\ ExistsBijection(1 .. N, S)
    BY FS_CardinalityType
  <1>2. PICK f \in [1 .. N -> S] : IsInjective(f)
    BY <1>1 DEF ExistsBijection, Bijection, Injection, IsInjective
  <1>3. SetToSeq(S) \in [1 .. N -> S] /\ IsInjective(SetToSeq(S))
    BY <1>2 DEF SetToSeq
  <1>4. SetToSeq(S) \in Injection(1 .. N, S)
    BY <1>3 DEF Injection
  <1>5. IsFiniteSet(1 .. N) /\ Cardinality(1 .. N) = N
    BY <1>1, FS_Interval
  <1>6. SetToSeq(S) \in Surjection(1 .. N, S)
    BY <1>4, <1>5, FS_Injection
  <1>. QED  BY <1>1, <1>3, <1>6 DEF Surjection

(* Frames are told apart by what they ask and by their topic.              *)
LEMMA FramesDiffer ==
    /\ \A t, u : Subscribe(t) = Subscribe(u) => t = u
    /\ \A t, u : Unsubscribe(t) = Unsubscribe(u) => t = u
    /\ \A t, u : Subscribe(t) # Unsubscribe(u)
    /\ \A t : Subscribe(t) # Application /\ Unsubscribe(t) # Application
  <1>1. \A t : /\ Subscribe(t).type = "subscribe" /\ Subscribe(t).topic = t
              /\ Unsubscribe(t).type = "unsubscribe" /\ Unsubscribe(t).topic = t
    BY DEF Subscribe, Unsubscribe
  <1>2. Application.type = "application"
    BY DEF Application
  <1>. QED  BY <1>1, <1>2

Asks(frames, t) == \E k \in DOMAIN frames : frames[k] = Subscribe(t)

Drops(frames, t) == \E k \in DOMAIN frames : frames[k] = Unsubscribe(t)

(* A step of the page puts a frame on the socket for every topic that it   *)
(* asks for, or no longer asks for, and none for the others.               *)
LEMMA SentFrames ==
    ASSUME NEW n \in SocketId, IsFiniteSet(asked[n]), IsFiniteSet(asked'[n]),
           asked[n] \subseteq Topic, asked'[n] \subseteq Topic,
           Len(posted) \in Nat, Len(posted') \in Nat
    PROVE  /\ Sent(n) \in Seq(PageFrame)
           /\ \A t \in Topic :
                 /\ Asks(Sent(n), t) <=> t \in asked'[n] \ asked[n]
                 /\ Drops(Sent(n), t) <=> t \in asked[n] \ asked'[n]
  <1>. DEFINE FrameFor(t) == IF t \in asked'[n] THEN Subscribe(t) ELSE Unsubscribe(t)
              changed == (asked[n] \ asked'[n]) \cup (asked'[n] \ asked[n])
              N == Cardinality(changed)
              posts == IF n = ws' THEN Len(posted') - Len(posted) ELSE 0
              first == [k \in 1 .. N |-> FrameFor(SetToSeq(changed)[k])]
              second == [k \in 1 .. posts |-> Application]
  <1>1. IsFiniteSet(changed)
    <2>1. IsFiniteSet(asked[n] \cup asked'[n])
      BY FS_Union
    <2>2. changed \in SUBSET (asked[n] \cup asked'[n])
      OBVIOUS
    <2>. QED  BY <2>1, <2>2, FS_Subset
  <1>2. /\ N \in Nat
        /\ \A k \in 1 .. N : SetToSeq(changed)[k] \in changed
        /\ \A t \in changed : \E k \in 1 .. N : SetToSeq(changed)[k] = t
    <2>. HIDE DEF changed
    <2>. QED  BY <1>1, SetToSeqLists
  <1>3. first \in Seq(PageFrame)
    <2>1. \A k \in 1 .. N : FrameFor(SetToSeq(changed)[k]) \in PageFrame
      BY <1>2 DEF PageFrame
    <2>. HIDE DEF changed, FrameFor
    <2>. QED  BY <1>2, <2>1
  <1>4. second \in Seq(PageFrame) /\ \A k \in DOMAIN second : second[k] = Application
    <2>1. posts \in Int /\ Application \in PageFrame
      BY DEF PageFrame
    <2>2. CASE posts \in Nat
      BY <2>1, <2>2
    <2>3. CASE posts \notin Nat
      <3>1. 1 .. posts = {}
        BY <2>1, <2>3
      <3>2. second = << >>
        BY <3>1
      <3>. QED  BY <3>2
    <2>. QED  BY <2>2, <2>3
  <1>5. Sent(n) = first \o second
    BY DEF Sent
  <1>6. ASSUME NEW f, f # Application
        PROVE  (\E k \in DOMAIN Sent(n) : Sent(n)[k] = f)
                  <=> \E k \in 1 .. N : FrameFor(SetToSeq(changed)[k]) = f
    <2>1. /\ DOMAIN first = 1 .. N /\ Len(first) = N
          /\ \A k \in 1 .. N : first[k] = FrameFor(SetToSeq(changed)[k])
      BY <1>2
    <2>. HIDE DEF first, second, changed, FrameFor
    <2>. QED  BY <1>2, <1>3, <1>4, <1>5, <1>6, <2>1, Concatenated
  <1>7. ASSUME NEW t \in Topic
        PROVE  /\ Asks(Sent(n), t) <=> t \in asked'[n] \ asked[n]
               /\ Drops(Sent(n), t) <=> t \in asked[n] \ asked'[n]
    <2>1. Asks(Sent(n), t)
             <=> \E k \in 1 .. N : FrameFor(SetToSeq(changed)[k]) = Subscribe(t)
      BY <1>6, FramesDiffer DEF Asks
    <2>2. Drops(Sent(n), t)
             <=> \E k \in 1 .. N : FrameFor(SetToSeq(changed)[k]) = Unsubscribe(t)
      BY <1>6, FramesDiffer DEF Drops
    <2>3. ASSUME NEW u \in changed
          PROVE  /\ FrameFor(u) = Subscribe(t) <=> u = t /\ t \in asked'[n]
                 /\ FrameFor(u) = Unsubscribe(t) <=> u = t /\ t \notin asked'[n]
      BY FramesDiffer
    <2>4. /\ Asks(Sent(n), t) <=> t \in changed /\ t \in asked'[n]
          /\ Drops(Sent(n), t) <=> t \in changed /\ t \notin asked'[n]
      <3>. HIDE DEF changed, FrameFor
      <3>. QED  BY <1>2, <2>1, <2>2, <2>3
    <2>. QED  BY <2>4
  <1>8. Sent(n) \in Seq(PageFrame)
    <2>. HIDE DEF first, second
    <2>. QED  BY <1>3, <1>4, <1>5, Concatenated
  <1>. QED  BY <1>7, <1>8

(* Frames that are put behind those under way have the last word.          *)
LEMMA SettledAppends ==
    ASSUME UpTypeOK, NEW n \in SocketId, NEW frames \in Seq(PageFrame),
           up'[n] = up[n] \o frames, topics'[n] = topics[n],
           \A t \in Topic : ~ (Asks(frames, t) /\ Drops(frames, t))
    PROVE  Settled(n)' = {t \in Topic : \/ Asks(frames, t)
                                        \/ t \in Settled(n) /\ ~ Drops(frames, t)}
  <1>. DEFINE L == Len(up[n])
              M == Len(frames)
  <1>1. /\ up[n] \in Seq(PageFrame) /\ L \in Nat /\ M \in Nat
        /\ DOMAIN up[n] = 1 .. L /\ DOMAIN frames = 1 .. M
        /\ DOMAIN up'[n] = 1 .. L + M
        /\ \A k \in 1 .. L : up'[n][k] = up[n][k]
        /\ \A k \in 1 .. M : up'[n][L + k] = frames[k]
    <2>1. up[n] \in Seq(PageFrame)
      BY DEF UpTypeOK
    <2>. QED  BY <2>1, Concatenated
  <1>. HIDE DEF L, M
  <1>2. ASSUME NEW t \in Topic, NEW k \in 0 .. L
        PROVE  Dropped(n, t, k)' <=> Dropped(n, t, k) \/ Drops(frames, t)
    <2>1. ASSUME Dropped(n, t, k)' PROVE Dropped(n, t, k) \/ Drops(frames, t)
      <3>1. PICK j \in 1 .. L + M : j > k /\ up'[n][j] = Unsubscribe(t)
        BY <1>1, <2>1 DEF Dropped, Unsubscribe
      <3>2. CASE j <= L
        BY <1>1, <3>1, <3>2 DEF Dropped
      <3>3. CASE j > L
        <4>1. j - L \in 1 .. M /\ L + (j - L) = j
          BY <1>1, <3>1, <3>3
        <4>2. frames[j - L] = Unsubscribe(t)
          BY <1>1, <3>1, <4>1
        <4>. QED  BY <1>1, <4>1, <4>2 DEF Drops
      <3>. QED  BY <1>1, <3>1, <3>2, <3>3
    <2>2. ASSUME Dropped(n, t, k) PROVE Dropped(n, t, k)'
      <3>1. PICK j \in 1 .. L : j > k /\ up[n][j] = Unsubscribe(t)
        BY <1>1, <2>2 DEF Dropped
      <3>2. j \in 1 .. L + M /\ up'[n][j] = Unsubscribe(t)
        BY <1>1, <3>1
      <3>. QED  BY <1>1, <3>1, <3>2 DEF Dropped, Unsubscribe
    <2>3. ASSUME Drops(frames, t) PROVE Dropped(n, t, k)'
      <3>1. PICK j \in 1 .. M : frames[j] = Unsubscribe(t)
        BY <1>1, <2>3 DEF Drops
      <3>2. L + j \in 1 .. L + M /\ L + j > k
        BY <1>1
      <3>3. up'[n][L + j] = frames[j]
        BY <1>1
      <3>. QED  BY <1>1, <3>1, <3>2, <3>3 DEF Dropped, Unsubscribe
    <2>. QED  BY <2>1, <2>2, <2>3
  <1>3. ASSUME NEW t \in Topic, Asks(frames, t) PROVE t \in Settled(n)'
    <2>1. PICK k \in 1 .. M : frames[k] = Subscribe(t)
      BY <1>1, <1>3 DEF Asks
    <2>2. PICK p \in 1 .. L + M : p = L + k /\ up'[n][p] = Subscribe(t)
      <3>1. L + k \in 1 .. L + M
        BY <1>1
      <3>2. up'[n][L + k] = frames[k]
        BY <1>1
      <3>. QED  BY <2>1, <3>1, <3>2
    <2>3. ~ Dropped(n, t, p)'
      <3>1. ASSUME NEW j \in 1 .. L + M, j > p, up'[n][j] = Unsubscribe(t)
            PROVE  FALSE
        <4>1. j - L \in 1 .. M /\ L + (j - L) = j
          BY <1>1, <2>2, <3>1
        <4>2. frames[j - L] = Unsubscribe(t)
          BY <1>1, <3>1, <4>1
        <4>. QED  BY <1>1, <1>3, <4>1, <4>2 DEF Drops
      <3>. QED  BY <1>1, <3>1 DEF Dropped, Unsubscribe
    <2>. QED  BY <1>1, <2>2, <2>3 DEF Settled, Subscribe
  <1>4. ASSUME NEW t \in Topic, ~ Asks(frames, t)
        PROVE  t \in Settled(n)' <=> t \in Settled(n) /\ ~ Drops(frames, t)
    <2>1. (t \in topics[n] /\ ~ Dropped(n, t, 0))'
             <=> (t \in topics[n] /\ ~ Dropped(n, t, 0)) /\ ~ Drops(frames, t)
      <3>1. 0 \in 0 .. L
        BY <1>1
      <3>. QED  BY <1>2, <3>1
    <2>2. ASSUME NEW k \in 1 .. L + M, up'[n][k] = Subscribe(t), ~ Dropped(n, t, k)'
          PROVE  /\ ~ Drops(frames, t)
                 /\ \E i \in 1 .. L : up[n][i] = Subscribe(t) /\ ~ Dropped(n, t, i)
      <3>1. k \in 1 .. L
        <4>1. ASSUME k > L PROVE FALSE
          <5>1. k - L \in 1 .. M /\ L + (k - L) = k
            BY <1>1, <4>1
          <5>2. frames[k - L] = Subscribe(t)
            BY <1>1, <2>2, <5>1
          <5>. QED  BY <1>1, <1>4, <5>1, <5>2 DEF Asks
        <4>. QED  BY <1>1, <4>1
      <3>. QED  BY <1>1, <1>2, <2>2, <3>1
    <2>3. ASSUME NEW k \in 1 .. L, up[n][k] = Subscribe(t), ~ Dropped(n, t, k),
                 ~ Drops(frames, t)
          PROVE  /\ k \in 1 .. L + M /\ up'[n][k] = Subscribe(t)
                 /\ ~ Dropped(n, t, k)'
      BY <1>1, <1>2, <2>3
    <2>4. t \in Settled(n) <=>
             \/ (t \in topics[n] /\ ~ Dropped(n, t, 0))
             \/ (\E k \in 1 .. L : up[n][k] = Subscribe(t) /\ ~ Dropped(n, t, k))
      BY <1>1 DEF Settled
    <2>5. t \in Settled(n)' <=>
             \/ (t \in topics[n] /\ ~ Dropped(n, t, 0))'
             \/ (\E k \in 1 .. L + M : up'[n][k] = Subscribe(t) /\ ~ Dropped(n, t, k)')
      BY <1>1 DEF Settled, Subscribe
    <2>. QED  BY <2>1, <2>2, <2>3, <2>4, <2>5
  <1>5. Settled(n)' \subseteq Topic
    BY DEF Settled
  <1>. QED  BY <1>3, <1>4, <1>5

(* What the server has read, it has done: reading the next frame changes   *)
(* nothing about where its topics will settle.                             *)
LEMMA SettledReads ==
    ASSUME UpTypeOK, topics \in [SocketId -> SUBSET Topic],
           NEW n \in SocketId, TakeUp(n)
    PROVE  Settled(n)' = Settled(n)
  <1>. DEFINE L == Len(up[n])
              frame == Head(up[n])
  <1>1. /\ up[n] \in Seq(PageFrame) /\ L \in Nat /\ L > 0
        /\ DOMAIN up[n] = 1 .. L /\ frame = up[n][1]
        /\ DOMAIN up'[n] = 1 .. L - 1
        /\ \A k \in 1 .. L - 1 : up'[n][k] = up[n][k + 1]
    <2>1. /\ up[n] \in Seq(PageFrame) /\ up[n] # << >>
          /\ up'[n] = Tail(up[n])
      BY DEF TakeUp, UpTypeOK
    <2>. QED  BY <2>1
  <1>2. /\ frame.type = "subscribe" => topics'[n] = topics[n] \cup {frame.topic}
        /\ frame.type = "unsubscribe" => topics'[n] = topics[n] \ {frame.topic}
        /\ frame.type = "application" => topics'[n] = topics[n]
    BY DEF TakeUp, Server!ConnSubscribe, Server!ConnUnsubscribe
  <1>3. frame = Application \/ \E u \in Topic : frame \in {Subscribe(u), Unsubscribe(u)}
    <2>1. frame \in PageFrame
      BY <1>1
    <2>. QED  BY <2>1 DEF PageFrame
  <1>. HIDE DEF L, frame
  <1>4. ASSUME NEW t \in Topic, NEW k \in 0 .. L - 1
        PROVE  Dropped(n, t, k)' <=> Dropped(n, t, k + 1)
    <2>1. ASSUME NEW j \in 1 .. L - 1, j > k, up'[n][j] = Unsubscribe(t)
          PROVE  Dropped(n, t, k + 1)
      <3>1. j + 1 \in 1 .. L /\ j + 1 > k + 1 /\ up[n][j + 1] = Unsubscribe(t)
        BY <1>1, <2>1
      <3>. QED  BY <1>1, <3>1 DEF Dropped
    <2>2. ASSUME NEW j \in 1 .. L, j > k + 1, up[n][j] = Unsubscribe(t)
          PROVE  Dropped(n, t, k)'
      <3>1. j - 1 \in 1 .. L - 1 /\ j - 1 > k /\ (j - 1) + 1 = j
        BY <1>1, <2>2
      <3>2. up'[n][j - 1] = Unsubscribe(t)
        BY <1>1, <2>2, <3>1
      <3>. QED  BY <1>1, <3>1, <3>2 DEF Dropped, Unsubscribe
    <2>. QED  BY <1>1, <2>1, <2>2 DEF Dropped, Unsubscribe
  <1>. DEFINE Later(t) == \E k \in 2 .. L : /\ up[n][k] = Subscribe(t)
                                            /\ ~ Dropped(n, t, k)
  <1>5. ASSUME NEW t \in Topic
        PROVE  t \in Settled(n)' <=>
                  (t \in topics'[n] /\ ~ Dropped(n, t, 1)) \/ Later(t)
    <2>1. Dropped(n, t, 0)' <=> Dropped(n, t, 1)
      BY <1>1, <1>4
    <2>2. t \in Settled(n)' <=>
             \/ (t \in topics'[n] /\ ~ Dropped(n, t, 0)')
             \/ (\E k \in 1 .. L - 1 : up'[n][k] = Subscribe(t) /\ ~ Dropped(n, t, k)')
      BY <1>1 DEF Settled, Subscribe
    <2>3. ASSUME NEW k \in 1 .. L - 1, up'[n][k] = Subscribe(t), ~ Dropped(n, t, k)'
          PROVE  Later(t)
      <3>1. k + 1 \in 2 .. L /\ up[n][k + 1] = Subscribe(t) /\ ~ Dropped(n, t, k + 1)
        BY <1>1, <1>4, <2>3
      <3>. QED  BY <3>1
    <2>4. ASSUME NEW k \in 2 .. L, up[n][k] = Subscribe(t), ~ Dropped(n, t, k)
          PROVE  \E i \in 1 .. L - 1 : up'[n][i] = Subscribe(t) /\ ~ Dropped(n, t, i)'
      <3>1. PICK i \in 1 .. L - 1 : i + 1 = k
        <4>1. k - 1 \in 1 .. L - 1 /\ (k - 1) + 1 = k
          BY <1>1
        <4>. QED  BY <4>1
      <3>2. up'[n][i] = Subscribe(t) /\ ~ Dropped(n, t, i)'
        BY <1>1, <1>4, <2>4, <3>1
      <3>. QED  BY <3>2
    <2>. QED  BY <2>1, <2>2, <2>3, <2>4
  <1>6. ASSUME NEW t \in Topic
        PROVE  t \in Settled(n) <=>
                  \/ (t \in topics[n] /\ ~ Dropped(n, t, 0))
                  \/ (frame = Subscribe(t) /\ ~ Dropped(n, t, 1))
                  \/ Later(t)
    <2>1. t \in Settled(n) <=>
             \/ (t \in topics[n] /\ ~ Dropped(n, t, 0))
             \/ (\E k \in 1 .. L : up[n][k] = Subscribe(t) /\ ~ Dropped(n, t, k))
      BY <1>1 DEF Settled
    <2>2. (\E k \in 1 .. L : up[n][k] = Subscribe(t) /\ ~ Dropped(n, t, k))
             <=> (frame = Subscribe(t) /\ ~ Dropped(n, t, 1)) \/ Later(t)
      <3>1. 1 \in 1 .. L /\ \A k \in 1 .. L : k = 1 \/ k \in 2 .. L
        BY <1>1
      <3>2. \A k \in 2 .. L : k \in 1 .. L
        BY <1>1
      <3>. QED  BY <1>1, <3>1, <3>2
    <2>. QED  BY <2>1, <2>2
  <1>7. ASSUME NEW t \in Topic
        PROVE  Dropped(n, t, 0) <=> frame = Unsubscribe(t) \/ Dropped(n, t, 1)
    BY <1>1 DEF Dropped
  <1>8. ASSUME NEW t \in Topic PROVE t \in Settled(n)' <=> t \in Settled(n)
    <2>. HIDE DEF Later
    <2>1. ASSUME NEW u \in Topic, frame = Subscribe(u)
          PROVE  t \in Settled(n)' <=> t \in Settled(n)
      <3>1. topics'[n] = topics[n] \cup {u}
        BY <1>2, <2>1 DEF Subscribe
      <3>2. frame # Unsubscribe(t) /\ (frame = Subscribe(t) <=> t = u)
        BY <2>1, FramesDiffer
      <3>. QED  BY <1>5, <1>6, <1>7, <3>1, <3>2
    <2>2. ASSUME NEW u \in Topic, frame = Unsubscribe(u)
          PROVE  t \in Settled(n)' <=> t \in Settled(n)
      <3>1. topics'[n] = topics[n] \ {u}
        BY <1>2, <2>2 DEF Unsubscribe
      <3>2. frame # Subscribe(t) /\ (frame = Unsubscribe(t) <=> t = u)
        BY <2>2, FramesDiffer
      <3>. QED  BY <1>5, <1>6, <1>7, <3>1, <3>2
    <2>3. CASE frame = Application
      <3>1. topics'[n] = topics[n]
        BY <1>2, <2>3 DEF Application
      <3>2. frame # Subscribe(t) /\ frame # Unsubscribe(t)
        BY <2>3, FramesDiffer
      <3>. QED  BY <1>5, <1>6, <1>7, <3>1, <3>2
    <2>. QED  BY <1>3, <2>1, <2>2, <2>3
  <1>9. Settled(n) \subseteq Topic /\ Settled(n)' \subseteq Topic
    BY DEF Settled
  <1>. QED  BY <1>8, <1>9

-----------------------------------------------------------------------------
(* The system is a page and a server.                                      *)

(* The page conforms to RpcClient: the network and the server make it do   *)
(* nothing that the client alone may not do.                               *)
THEOREM PageConforms == SystemSpec => Spec
  <1>1. SystemInit => Init
    BY DEF SystemInit
  <1>. QED  BY <1>1, PageStep, PTL DEF SystemSpec, Spec

(* What is known of the page at any time.                                  *)
PageInv ==
    SocketTypeOK /\ SocketInv /\ TopicTypeOK /\ SendTypeOK /\ AskedInv

(* The page keeps it.                                                      *)
LEMMA PageCorrect == SystemSpec => []PageInv
  <1>1. Init => AskedInv
    <2>1. ASSUME Init PROVE Topics = {}
      BY <2>1 DEF Init, Topics
    <2>. QED  BY <2>1, FS_EmptySet, BoundAssumption DEF Init, AskedInv, SocketId
  <1>. QED
    BY <1>1, PageConforms, SocketsCorrect, TopicTypesCorrect, SendsCorrect,
       AskedKept, PTL
       DEF Spec, PageInv

(* What is under way are frames of the page, and once it is read, the      *)
(* server's topics are those that the page asked for.                      *)
FollowInv ==
    /\ UpTypeOK
    /\ \A n \in SocketId : Settled(n) = asked[n]

TopicsTypeOK == topics \in [SocketId -> SUBSET Topic]

(* The page's own steps keep it.                                           *)
LEMMA TransmitFollows ==
    ASSUME PageInv, PageInv', FollowInv, Transmit, UNCHANGED topics
    PROVE  FollowInv'
  <1>1. ASSUME NEW n \in SocketId
        PROVE  /\ up'[n] = up[n] \o Sent(n)
               /\ Sent(n) \in Seq(PageFrame)
               /\ Settled(n)' = asked'[n]
    <2>1. up'[n] = up[n] \o Sent(n)
      BY DEF Transmit
    <2>2. /\ IsFiniteSet(asked[n]) /\ IsFiniteSet(asked'[n])
          /\ asked[n] \subseteq Topic /\ asked'[n] \subseteq Topic
      BY DEF PageInv, AskedInv, TopicTypeOK, SocketId
    <2>3. Len(posted) \in Nat /\ Len(posted') \in Nat
      BY DEF PageInv, SendTypeOK
    <2>4. /\ Sent(n) \in Seq(PageFrame)
          /\ \A t \in Topic :
                /\ Asks(Sent(n), t) <=> t \in asked'[n] \ asked[n]
                /\ Drops(Sent(n), t) <=> t \in asked[n] \ asked'[n]
      BY <2>2, <2>3, SentFrames
    <2>5. Settled(n)' = {t \in Topic : \/ Asks(Sent(n), t)
                                       \/ t \in Settled(n) /\ ~ Drops(Sent(n), t)}
      BY <2>1, <2>4, SettledAppends DEF FollowInv
    <2>6. Settled(n) = asked[n]
      BY DEF FollowInv
    <2>. QED  BY <2>1, <2>2, <2>4, <2>5, <2>6
  <1>2. UpTypeOK'
    <2>1. \A n \in SocketId : up[n] \o Sent(n) \in Seq(PageFrame)
      BY <1>1 DEF FollowInv, UpTypeOK
    <2>. QED  BY <2>1 DEF Transmit, UpTypeOK, PageFrame, Subscribe, Unsubscribe, Application
  <1>. QED  BY <1>1, <1>2 DEF FollowInv, SocketId

(* An unlisten function gives its topic up, be it once more.               *)
LEMMA UnlistenFollows ==
    ASSUME PageInv, FollowInv, NEW c \in Call, PageUnlistens(c)
    PROVE  FollowInv'
  <1>. DEFINE t == TopicOf[c]
              one == << Unsubscribe(t) >>
  <1>1. t \in Topic /\ topics' = topics
    BY CallAssumption DEF PageUnlistens, serverVars
  <1>2. CASE ~ (IsOpen /\ Emptied(LeftBy(c)))
    <2>1. UNCHANGED <<up, asked>>
      BY <1>2 DEF PageUnlistens, Unlisten
    <2>. QED
      BY <1>1, <2>1
         DEF FollowInv, UpTypeOK, PageFrame, Settled, Dropped, Subscribe,
             Unsubscribe, Application, SocketId
  <1>3. CASE IsOpen /\ Emptied(LeftBy(c))
    <2>1. /\ ws \in SocketId
          /\ asked' = [asked EXCEPT ![ws] = asked[ws] \ {t}]
          /\ up' = [up EXCEPT ![ws] = up[ws] \o one]
      BY <1>3 DEF PageUnlistens, Unlisten, PageInv, SocketTypeOK, IsOpen, SocketId
    <2>2. one \in Seq(PageFrame)
      BY <1>1 DEF PageFrame
    <2>3. \A u \in Topic : ~ Asks(one, u) /\ (Drops(one, u) <=> u = t)
      BY <1>1, FramesDiffer DEF Asks, Drops
    <2>4. /\ up \in [SocketId -> Seq(PageFrame)]
          /\ asked \in [SocketId -> SUBSET Topic]
          /\ \A n \in SocketId : Settled(n) = asked[n]
      BY DEF FollowInv, UpTypeOK, PageInv, TopicTypeOK
    <2>5. ASSUME NEW n \in SocketId, n = ws PROVE Settled(n)' = asked'[n]
      <3>1. up'[n] = up[n] \o one
        BY <2>1, <2>4, <2>5
      <3>2. Settled(n)' = {u \in Topic : \/ Asks(one, u)
                                         \/ u \in Settled(n) /\ ~ Drops(one, u)}
        <4>. HIDE DEF one
        <4>. QED  BY <1>1, <2>2, <2>3, <3>1, SettledAppends DEF FollowInv
      <3>. HIDE DEF one
      <3>. QED  BY <2>1, <2>3, <2>4, <2>5, <3>2
    <2>6. ASSUME NEW n \in SocketId, n # ws PROVE Settled(n)' = asked'[n]
      <3>1. up'[n] = up[n] /\ asked'[n] = asked[n] /\ topics'[n] = topics[n]
        BY <1>1, <2>1, <2>4, <2>6
      <3>2. Settled(n)' = Settled(n)
        BY <3>1 DEF Settled, Dropped, Subscribe, Unsubscribe
      <3>. QED  BY <2>4, <3>1, <3>2
    <2>7. UpTypeOK'
      <3>1. up[ws] \o one \in Seq(PageFrame)
        BY <2>1, <2>2, <2>4
      <3>. QED
        BY <2>1, <2>4, <3>1
           DEF UpTypeOK, PageFrame, Subscribe, Unsubscribe, Application
    <2>. QED  BY <2>5, <2>6, <2>7 DEF FollowInv, SocketId
  <1>. QED  BY <1>2, <1>3

(* Every step of the system keeps it.                                      *)
LEMMA FollowKept ==
    ASSUME PageInv, PageInv', TopicsTypeOK, FollowInv, [SystemNext]_systemVars
    PROVE  FollowInv'
  <1>1. ASSUME UNCHANGED <<up, topics, asked>> PROVE FollowInv'
    BY <1>1
       DEF FollowInv, UpTypeOK, PageFrame, Settled, Dropped, Subscribe,
           Unsubscribe, Application, SocketId
  <1>2. ASSUME Transmit, UNCHANGED serverVars PROVE FollowInv'
    BY <1>2, TransmitFollows DEF serverVars
  <1>3. ASSUME NEW n \in SocketId, TakeUp(n) PROVE FollowInv'
    <2>1. /\ up' = [up EXCEPT ![n] = Tail(up[n])]
          /\ up[n] \in Seq(PageFrame) /\ up[n] # << >>
          /\ UNCHANGED asked
      BY <1>3 DEF TakeUp, FollowInv, UpTypeOK, clientVars, vars
    <2>2. \A m \in SocketId \ {n} : topics'[m] = topics[m]
      BY <1>3
         DEF TakeUp, Server!ConnSubscribe, Server!ConnUnsubscribe, TopicsTypeOK
    <2>3. Settled(n)' = Settled(n)
      BY <1>3, SettledReads DEF FollowInv, TopicsTypeOK
    <2>4. ASSUME NEW m \in SocketId \ {n} PROVE Settled(m)' = Settled(m)
      BY <2>1, <2>2, <2>4
         DEF FollowInv, UpTypeOK, Settled, Dropped, Subscribe, Unsubscribe
    <2>5. UpTypeOK'
      <3>1. Tail(up[n]) \in Seq(PageFrame)
        BY <2>1
      <3>. QED  BY <2>1, <3>1 DEF FollowInv, UpTypeOK, PageFrame, Subscribe, Unsubscribe, Application, SocketId
    <2>. QED  BY <2>1, <2>3, <2>4, <2>5 DEF FollowInv, SocketId
  <1>4. ASSUME NEW n \in SocketId,
               \/ SocketOpens(n) \/ HandshakeBegins(n) \/ SocketCloses(n)
        PROVE  Transmit /\ UNCHANGED serverVars
    BY <1>4 DEF SocketOpens, HandshakeBegins, SocketCloses, PageActs
  <1>5. ASSUME NEW n \in SocketId, ReceiveWelcome(n) \/ ReceiveEvent(n)
        PROVE  UNCHANGED <<up, topics, asked>>
    BY <1>5 DEF ReceiveWelcome, ReceiveEvent, TakeFrame, Welcomed, serverVars,
                clientVars, vars
  <1>6. ASSUME NEW n \in SocketId, \/ Upgrade(n) \/ LoopRuns(n) \/ PumpRuns(n)
                                   \/ WriterRuns(n) \/ Panics(n) \/ ServerLoses(n)
        PROVE  UNCHANGED <<up, topics, asked>>
    <2>1. UNCHANGED <<up, asked>>
      BY <1>6 DEF Upgrade, LoopRuns, PumpRuns, WriterRuns, Panics, ServerLoses,
                  ServerActs, clientVars, linkVars, vars
    <2>2. ASSUME Upgrade(n) PROVE UNCHANGED topics
      BY <2>2 DEF Upgrade, Server!Accept, Server!subVars
    <2>3. ASSUME LoopRuns(n) \/ Panics(n) PROVE UNCHANGED topics
      BY <2>3 DEF LoopRuns, Panics, Server!LoopProceeds, Server!Bind,
                  Server!SendWelcome, Server!OnConnect, Server!OnDisconnect,
                  Server!Unbind, Server!Abort, Server!HookPanics, Server!subVars
    <2>4. ASSUME PumpRuns(n) PROVE UNCHANGED topics
      BY <2>4 DEF PumpRuns, Server!PumpProceeds, Server!PumpRecv,
                  Server!PumpLagged, Server!PumpCheck, Server!PumpSend,
                  Server!PumpAborted, Server!subVars
    <2>5. ASSUME WriterRuns(n) \/ ServerLoses(n) PROVE UNCHANGED topics
      BY <2>5 DEF WriterRuns, ServerLoses, Server!WriterStep,
                  Server!WriterAborted, Server!WriterFails, Server!WriterEnds,
                  Server!StreamEnds, Server!subVars
    <2>. QED  BY <1>6, <2>1, <2>2, <2>3, <2>4, <2>5
  <1>7. ASSUME NEW t \in Topic, Publish(t) PROVE UNCHANGED <<up, topics, asked>>
    BY <1>7 DEF Publish, Server!Emit, Server!subVars, ServerActs, clientVars,
                linkVars, vars
  <1>8. ASSUME \/ \E c \in Call : PageListens(c)
               \/ PageSends
               \/ \E k \in 1 .. MaxSockets : TimerRuns(k)
        PROVE  Transmit /\ UNCHANGED serverVars
    BY <1>8 DEF PageListens, PageSends, TimerRuns, PageActs
  <1>9. UNCHANGED systemVars => UNCHANGED <<up, topics, asked>>
    BY DEF systemVars, clientVars, serverVars, linkVars, vars
  <1>10. ASSUME NEW c \in Call, PageUnlistens(c) PROVE FollowInv'
    BY <1>10, UnlistenFollows
  <1>. QED
    BY <1>1, <1>2, <1>3, <1>4, <1>5, <1>6, <1>7, <1>8, <1>9, <1>10
       DEF SystemNext

(* The server conforms to Session: what a page can ask of it, and when, is *)
(* among what any application and any client may do.                       *)
THEOREM ServerConforms == SystemSpec => SP!Spec
  <1>1. SystemInit => SP!Init /\ FollowInv
    <2>1. ASSUME SystemInit PROVE SP!Init
      BY <2>1 DEF SystemInit, Server!Init, SP!Init, Server!BusInit, SP!BusInit
    <2>2. ASSUME SystemInit PROVE FollowInv
      BY <2>2 DEF SystemInit, Server!Init, Init, FollowInv, UpTypeOK, Settled, Dropped
    <2>. QED  BY <2>1, <2>2
  <1>2. SP!TypeOK => TopicsTypeOK
    BY DEF SP!TypeOK, SP!SubTypeOK, TopicsTypeOK
  <1>3. SP!TypeOK /\ [SP!Next]_SP!vars => SP!TypeOK'
    BY ServerConstants, SP!NextType
  <1>4. SP!Init => SP!TypeOK
    BY ServerConstants, SP!InitType
  <1>5. PageInv /\ PageInv' /\ TopicsTypeOK /\ FollowInv /\ [SystemNext]_systemVars
        => FollowInv'
    BY FollowKept
  <1>6. PageInv /\ FollowInv /\ [SystemNext]_systemVars => [SP!Next]_SP!vars
    BY ServerStep DEF PageInv, FollowInv
  <1>. QED
    BY <1>1, <1>2, <1>3, <1>4, <1>5, <1>6, PageCorrect, PTL DEF SystemSpec, SP!Spec

(* The invariant of the frames under way.                                  *)
LEMMA FollowCorrect == SystemSpec => []FollowInv
  <1>1. SystemInit => FollowInv
    BY DEF SystemInit, Server!Init, Init, FollowInv, UpTypeOK, Settled, Dropped
  <1>2. PageInv /\ PageInv' /\ TopicsTypeOK /\ FollowInv /\ [SystemNext]_systemVars
        => FollowInv'
    BY FollowKept
  <1>3. SP!TypeOK => TopicsTypeOK
    BY DEF SP!TypeOK, SP!SubTypeOK, TopicsTypeOK
  <1>4. SP!Spec => []SP!TypeOK
    BY ServerConstants, SP!TypeCorrect
  <1>. QED
    BY <1>1, <1>2, <1>3, <1>4, PageCorrect, ServerConforms, PTL DEF SystemSpec

(* As long as both ends have a socket, the server's topics are on their    *)
(* way to those the page listens to.                                       *)
THEOREM TopicsFollowed == SystemSpec => []TopicsFollow
  <1>1. PageInv /\ FollowInv => TopicsFollow
    BY DEF PageInv, AskedInv, FollowInv, TopicsFollow
  <1>. QED  BY <1>1, PageCorrect, FollowCorrect, PTL

-----------------------------------------------------------------------------
(* The identity of the page.                                               *)

ServerTypeOK ==
    /\ phase \in [SocketId -> SP!Phases]
    /\ client \in [SocketId -> 0 .. MaxSockets + 1]
    /\ lastBound \in [1 .. MaxSockets + 1 -> 0 .. MaxSockets]
    /\ TopicsTypeOK
    /\ out \in [SocketId -> Seq(SP!Frame)]
    /\ written \in [SocketId -> Nat]
    /\ writer \in [SocketId -> {"absent", "running", "gone"}]
    /\ pump \in [SocketId -> {"absent", "idle", "checking", "sending", "gone"}]

LEMMA ServerTypes == SP!TypeOK => ServerTypeOK
  BY BoundAssumption
     DEF SP!TypeOK, SP!LoopTypeOK, SP!DirTypeOK, SP!SubTypeOK, SP!OutTypeOK,
         SP!PumpTypeOK, ServerTypeOK, TopicsTypeOK, SocketId

Early == {"idle", "binding", "welcoming"}

(* What socket n carries: nothing before the welcome, which comes first,   *)
(* as no topic is subscribed and no event sent before the loop reads.      *)
Carries(n) ==
    /\ phase[n] = "idle" => client[n] = 0
    /\ phase[n] # "idle" =>
          /\ n <= opened
          /\ client[n] = IF resumed[n] # 0 THEN resumed[n] ELSE n
    /\ phase[n] \in Early => out[n] = << >>
    /\ phase[n] \in Early \cup {"connecting"} =>
          topics[n] = {} /\ pump[n] # "sending"
    /\ out[n] = << >> /\ writer[n] = "running" => phase[n] \in Early
    /\ out[n] # << >> => out[n][1].kind = "welcome"
    /\ taken[n] <= written[n] /\ written[n] <= Len(out[n])
    /\ taken[n] > 0 => client[n] = clientId

(* The page's socket replays the page's id, or gave it.                    *)
Replays ==
    ws # 0 => \/ resumed[ws] = clientId
              \/ resumed[ws] = 0 /\ clientId = ws /\ taken[ws] > 0

(* The newest socket binds after every older one whose welcome was read.   *)
NewestBindsLast ==
    LET n == opened IN
    (/\ n # 0
     /\ phase[n] \notin {"idle", "binding"}
     /\ \A m \in 1 .. n - 1 : client[m] = client[n] => taken[m] > 0)
    => lastBound[client[n]] = n

IdentityInv ==
    /\ taken \in [SocketId -> Nat]
    /\ \A n \in SocketId : Carries(n)
    /\ Replays
    /\ NewestBindsLast

(* A socket whose welcome was read is bound, and has an id.                *)
LEMMA TakenIsBound ==
    ASSUME ServerTypeOK, SocketTypeOK, IdentityInv, NEW n \in SocketId,
           taken[n] > 0
    PROVE  phase[n] \notin Early /\ client[n] # 0 /\ client[n] = clientId
  <1>1. Carries(n) /\ taken[n] \in Nat /\ written[n] \in Nat
    BY DEF IdentityInv, ServerTypeOK
  <1>2. out[n] # << >>
    BY <1>1 DEF Carries, ServerTypeOK
  <1>. QED
    BY <1>1, <1>2 DEF Carries, Early, SocketId, SocketTypeOK

(* A socket that was accepted has an id.                                   *)
LEMMA AcceptedHasId ==
    ASSUME ServerTypeOK, IdentityInv, NEW n \in SocketId, phase[n] # "idle"
    PROVE  client[n] \in 1 .. MaxSockets + 1
  <1>1. client[n] # 0
    BY DEF IdentityInv, Carries, SocketId
  <1>2. client[n] \in 0 .. MaxSockets + 1
    BY DEF ServerTypeOK
  <1>. QED  BY <1>1, <1>2, BoundAssumption

(* The page opens a socket, or loses the one it has.                       *)
LEMMA PageIdentity ==
    ASSUME PageInv, ServerTypeOK, IdentityInv, UNCHANGED <<serverVars, taken>>,
           \/ OpenWs
           \/ UNCHANGED <<opened, resumed, clientId>> /\ ws' \in {ws, 0}
    PROVE  IdentityInv'
  <1>. USE DEF serverVars, loopVars, dirVars, queueVars, pumpVars
  <1>1. CASE UNCHANGED <<opened, resumed, clientId>> /\ ws' \in {ws, 0}
    BY <1>1 DEF IdentityInv, Carries, Replays, NewestBindsLast, SocketId
  <1>2. CASE OpenWs
    <2>1. /\ opened' = opened + 1 /\ opened \in Nat /\ opened + 1 \in SocketId
          /\ ws' = opened + 1
          /\ resumed' = [resumed EXCEPT ![opened + 1] = clientId]
          /\ resumed \in [SocketId -> 0 .. MaxSockets + 1]
          /\ UNCHANGED clientId
      BY <1>2, BoundAssumption DEF OpenWs, PageInv, SocketTypeOK, SocketId
    <2>2. phase[opened + 1] = "idle"
      BY <2>1 DEF IdentityInv, Carries, SocketId
    <2>3. \A n \in SocketId : Carries(n)'
      BY <2>1, <2>2 DEF IdentityInv, Carries, SocketId
    <2>4. Replays'
      BY <2>1 DEF Replays
    <2>5. NewestBindsLast'
      BY <2>1, <2>2 DEF NewestBindsLast
    <2>. QED  BY <2>3, <2>4, <2>5 DEF IdentityInv, SocketId
  <1>. QED  BY <1>1, <1>2

(* The page reads a frame: the first one is the welcome, and it calls the  *)
(* page by the id it replays, unless it has none.                          *)
LEMMA ReceiveIdentity ==
    ASSUME PageInv, ServerTypeOK, IdentityInv, NEW n \in SocketId,
           ReceiveWelcome(n) \/ ReceiveEvent(n)
    PROVE  IdentityInv'
  <1>1. /\ ready[n] = "open" /\ taken[n] < written[n]
        /\ taken' = [taken EXCEPT ![n] = taken[n] + 1]
        /\ UNCHANGED <<phase, client, out, written, writer, pump, topics, lastBound>>
        /\ UNCHANGED <<ws, opened, resumed>>
    BY DEF ReceiveWelcome, ReceiveEvent, TakeFrame, HasArriving, serverVars,
           loopVars, dirVars, queueVars, pumpVars, Welcomed, clientVars, vars,
           sockVars
  <1>2. /\ taken \in [SocketId -> Nat] /\ taken[n] \in Nat
        /\ written[n] \in Nat /\ Carries(n)
    BY DEF IdentityInv, ServerTypeOK
  <1>3. ws = n /\ n = opened /\ n # 0
    BY <1>1 DEF PageInv, SocketInv, OneSocket, SocketId
  <1>4. /\ out[n] # << >> /\ out[n][1].kind = "welcome" /\ phase[n] \notin Early
        /\ client[n] = IF resumed[n] # 0 THEN resumed[n] ELSE n
    BY <1>1, <1>2 DEF Carries, Early, ServerTypeOK
  <1>5. clientId' = client[n]
    <2>1. CASE ReceiveWelcome(n)
      BY <1>4, <2>1 DEF ReceiveWelcome, Welcomed
    <2>2. CASE ReceiveEvent(n)
      <3>1. taken[n] # 0
        BY <1>4, <2>2 DEF ReceiveEvent, Arriving
      <3>2. UNCHANGED clientId
        BY <2>2 DEF ReceiveEvent, clientVars, vars, sockVars
      <3>. QED  BY <1>2, <3>1, <3>2 DEF Carries
    <2>. QED  BY <2>1, <2>2
  <1>6. ASSUME NEW m \in SocketId, m # n, taken[m] > 0
        PROVE  client[m] = client[n]
    <2>1. client[m] # 0 /\ client[m] = clientId
      BY <1>6, TakenIsBound DEF PageInv
    <2>. QED  BY <1>3, <1>4, <2>1 DEF IdentityInv, Replays
  <1>7. taken' \in [SocketId -> Nat]
    BY <1>1, <1>2
  <1>8. \A m \in SocketId : Carries(m)'
    <2>1. ASSUME NEW m \in SocketId, m # n PROVE Carries(m)'
      <3>1. Carries(m) /\ taken'[m] = taken[m]
        BY <1>1, <1>2, <2>1 DEF IdentityInv
      <3>2. taken[m] > 0 => client[m] = clientId'
        BY <1>5, <1>6, <2>1
      <3>. QED  BY <1>1, <3>1, <3>2 DEF Carries
    <2>2. Carries(n)'
      <3>1. taken'[n] = taken[n] + 1 /\ taken[n] + 1 <= written[n]
        BY <1>1, <1>2
      <3>. QED  BY <1>1, <1>2, <1>5, <3>1 DEF Carries
    <2>. QED  BY <2>1, <2>2
  <1>9. Replays'
    <2>1. taken'[n] > 0
      BY <1>1, <1>2
    <2>. QED  BY <1>1, <1>3, <1>4, <1>5, <2>1 DEF Replays
  <1>10. NewestBindsLast'
    <2>1. \A m \in 1 .. n - 1 : taken'[m] = taken[m]
      BY <1>1, <1>2 DEF SocketId
    <2>. QED  BY <1>1, <1>3, <2>1 DEF IdentityInv, NewestBindsLast
  <1>. QED  BY <1>7, <1>8, <1>9, <1>10 DEF IdentityInv, SocketId

(* A task of socket n runs: nothing happens to the other sockets.          *)
OnlySocket(n) ==
    /\ UNCHANGED <<ws, opened, resumed, clientId, taken>>
    /\ \A m \in SocketId \ {n} :
          /\ phase'[m] = phase[m] /\ client'[m] = client[m]
          /\ out'[m] = out[m] /\ written'[m] = written[m]
          /\ writer'[m] = writer[m] /\ pump'[m] = pump[m]
          /\ topics'[m] = topics[m]

(* It is enough to look at that socket, and at who is bound last.          *)
LEMMA OneServerStep ==
    ASSUME ServerTypeOK, IdentityInv, NEW n \in SocketId, OnlySocket(n),
           Carries(n)', NewestBindsLast'
    PROVE  IdentityInv'
  <1>1. ASSUME NEW m \in SocketId, m # n PROVE Carries(m)'
    <2>1. Carries(m)
      BY DEF IdentityInv
    <2>. QED  BY <1>1, <2>1 DEF OnlySocket, Carries
  <1>. QED
    BY <1>1 DEF IdentityInv, OnlySocket, Replays, SocketId

(* A step that neither accepts nor binds a socket leaves the newest alone. *)
LEMMA NewestStays ==
    ASSUME ServerTypeOK, SocketTypeOK, IdentityInv, NEW n \in SocketId,
           OnlySocket(n), UNCHANGED <<client, lastBound>>,
           phase'[n] \in {"idle", "binding"} <=> phase[n] \in {"idle", "binding"}
    PROVE  NewestBindsLast'
  BY DEF IdentityInv, NewestBindsLast, OnlySocket, SocketTypeOK, SocketId

(* The upgrade of a socket.                                                *)
LEMMA UpgradeIdentity ==
    ASSUME PageInv, ServerTypeOK, IdentityInv, NEW n \in SocketId, Upgrade(n)
    PROVE  IdentityInv'
  <1>1. /\ ready[n] # "none" /\ phase[n] = "idle"
        /\ phase' = [phase EXCEPT ![n] = "binding"]
        /\ client' = [client EXCEPT ![n] = IF resumed[n] # 0 THEN resumed[n] ELSE n]
        /\ writer' = [writer EXCEPT ![n] = "running"]
        /\ pump' = [pump EXCEPT ![n] = "idle"]
        /\ UNCHANGED <<out, written, topics, lastBound, taken, opened, resumed,
                       clientId, ws>>
    BY DEF Upgrade, Server!Accept, Server!dirVars, Server!subVars, ServerActs,
           clientVars, linkVars, vars, sockVars
  <1>2. /\ Carries(n) /\ taken \in [SocketId -> Nat]
        /\ out[n] = << >> /\ topics[n] = {} /\ client[n] = 0
    BY <1>1 DEF IdentityInv, Carries, Early
  <1>3. OnlySocket(n)
    BY <1>1 DEF OnlySocket, ServerTypeOK
  <1>4. Carries(n)'
    <2>1. n <= opened
      BY <1>1 DEF PageInv, AskedInv, SocketTypeOK, SocketId
    <2>2. ~ taken[n] > 0
      BY <1>1, TakenIsBound DEF PageInv, Early
    <2>. QED
      BY <1>1, <1>2, <2>1, <2>2 DEF Carries, Early, ServerTypeOK
  <1>5. NewestBindsLast'
    <2>1. CASE opened = n
      BY <1>1, <2>1 DEF NewestBindsLast, ServerTypeOK
    <2>2. CASE opened # n
      <3>1. ASSUME opened # 0, phase'[opened] \notin {"idle", "binding"},
                   \A m \in 1 .. opened - 1 : client'[m] = client'[opened] => taken[m] > 0
            PROVE  lastBound[client'[opened]] = opened
        <4>1. opened \in SocketId /\ opened # n
          BY <2>2, <3>1 DEF PageInv, SocketTypeOK, SocketId
        <4>2. /\ phase'[opened] = phase[opened]
              /\ client'[opened] = client[opened] /\ client[opened] # 0
          BY <1>1, <3>1, <4>1
             DEF ServerTypeOK, IdentityInv, Carries, SocketId, PageInv, SocketTypeOK
        <4>3. \A m \in 1 .. opened - 1 : client[m] = client[opened] => taken[m] > 0
          <5>1. \A m \in 1 .. opened - 1 : m # n => client'[m] = client[m]
            BY <1>1, <4>1 DEF ServerTypeOK, SocketId
          <5>. QED  BY <1>2, <3>1, <4>2, <5>1
        <4>. QED  BY <3>1, <4>2, <4>3 DEF IdentityInv, NewestBindsLast
      <3>. QED  BY <1>1, <3>1 DEF NewestBindsLast
    <2>. QED  BY <2>1, <2>2
  <1>. QED  BY <1>3, <1>4, <1>5, OneServerStep

(* conns.bind: of two sockets with one id, the older one binds last only   *)
(* if its welcome was not read.                                            *)
LEMMA BindIdentity ==
    ASSUME PageInv, ServerTypeOK, IdentityInv, NEW n \in SocketId,
           Server!Bind(n), ServerActs
    PROVE  IdentityInv'
  <1>1. /\ phase[n] = "binding"
        /\ phase' = [phase EXCEPT ![n] = "welcoming"]
        /\ lastBound' = [lastBound EXCEPT ![client[n]] = n]
        /\ UNCHANGED <<client, out, written, writer, pump, topics, taken, opened,
                       resumed, clientId, ws>>
    BY DEF Server!Bind, Server!StepPhase, Server!subVars, Server!outVars,
           Server!pumpVars, ServerActs, clientVars, linkVars, vars, sockVars
  <1>2. /\ Carries(n) /\ taken \in [SocketId -> Nat]
        /\ client[n] \in 1 .. MaxSockets + 1
    BY <1>1, AcceptedHasId DEF IdentityInv
  <1>3. OnlySocket(n)
    BY <1>1 DEF OnlySocket, ServerTypeOK
  <1>4. Carries(n)'
    BY <1>1, <1>2 DEF Carries, Early, ServerTypeOK
  <1>5. ~ taken[n] > 0
    BY <1>1, TakenIsBound DEF PageInv, Early
  <1>6. ASSUME opened # 0, phase'[opened] \notin {"idle", "binding"},
               \A m \in 1 .. opened - 1 : client[m] = client[opened] => taken[m] > 0
        PROVE  lastBound'[client[opened]] = opened
    <2>1. CASE opened = n
      BY <1>1, <1>2, <2>1 DEF ServerTypeOK
    <2>2. CASE opened # n
      <3>1. opened \in SocketId /\ phase'[opened] = phase[opened]
        BY <1>1, <1>6, <2>2 DEF PageInv, SocketTypeOK, SocketId, ServerTypeOK
      <3>2. n \in 1 .. opened - 1
        BY <1>1, <1>2, <2>2, <3>1 DEF Carries, SocketId
      <3>3. client[n] # client[opened]
        BY <1>5, <1>6, <3>2
      <3>4. lastBound[client[opened]] = opened
        BY <1>6, <3>1 DEF IdentityInv, NewestBindsLast
      <3>5. client[opened] \in 1 .. MaxSockets + 1
        BY <1>6, <3>1, AcceptedHasId
      <3>. QED  BY <1>1, <3>3, <3>4, <3>5 DEF ServerTypeOK
    <2>. QED  BY <2>1, <2>2
  <1>7. NewestBindsLast'
    BY <1>1, <1>6 DEF NewestBindsLast
  <1>. QED  BY <1>3, <1>4, <1>7, OneServerStep

(* The rest of the loop: the welcome is the first frame in the queue.      *)
LEMMA LoopIdentity ==
    ASSUME PageInv, ServerTypeOK, IdentityInv, NEW n \in SocketId,
           LoopRuns(n) \/ Panics(n) \/ (Server!StreamEnds(n) /\ ServerActs)
    PROVE  IdentityInv'
  <1>. DEFINE Frames == UNCHANGED <<taken, opened, resumed, clientId, ws>>
              Others == UNCHANGED <<client, written, writer, pump, topics, lastBound>>
              Passes == {"welcoming", "connecting", "reading", "disconnecting",
                         "unbinding", "aborting", "ended", "panicked"}
  <1>1. CASE Server!Bind(n) /\ ServerActs
    BY <1>1, BindIdentity
  <1>2. ASSUME ServerActs PROVE Frames
    BY <1>2 DEF ServerActs, clientVars, linkVars, vars, sockVars
  <1>3. CASE Server!SendWelcome(n) /\ ServerActs
    <2>1. /\ phase[n] = "welcoming" /\ phase' = [phase EXCEPT ![n] = "connecting"]
          /\ out' = IF writer[n] = "running"
                      THEN [out EXCEPT ![n] = Append(out[n], Server!Welcome)] ELSE out
          /\ Frames /\ Others
      BY <1>2, <1>3
         DEF Server!SendWelcome, Server!StepPhase, Server!Enqueue, Server!dirVars,
             Server!subVars, Server!pumpVars
    <2>2. /\ Carries(n) /\ out[n] = << >> /\ taken[n] \in Nat /\ written[n] \in Nat
          /\ written[n] = 0
      BY <2>1 DEF IdentityInv, Carries, Early, ServerTypeOK
    <2>3. OnlySocket(n)
      BY <2>1 DEF OnlySocket, ServerTypeOK
    <2>4. /\ phase'[n] = "connecting"
          /\ writer[n] = "running" => out'[n] = <<Server!Welcome>>
          /\ writer[n] # "running" => out'[n] = << >>
      BY <2>1, <2>2 DEF ServerTypeOK
    <2>5. Carries(n)'
      BY <2>1, <2>2, <2>4 DEF Carries, Early, ServerTypeOK, Server!Welcome
    <2>6. NewestBindsLast'
      BY <2>1, <2>3, <2>4, NewestStays DEF PageInv
    <2>. QED  BY <2>3, <2>5, <2>6, OneServerStep
  <1>4. ASSUME /\ phase[n] \in Passes \ {"welcoming"}
               /\ \E p \in Passes \ {"welcoming", "connecting"} :
                     phase' = [phase EXCEPT ![n] = p]
               /\ UNCHANGED out /\ Frames /\ Others
        PROVE  IdentityInv'
    <2>1. OnlySocket(n)
      BY <1>4 DEF OnlySocket, ServerTypeOK
    <2>2. Carries(n) /\ phase'[n] \in Passes \ {"welcoming", "connecting"}
      BY <1>4 DEF IdentityInv, ServerTypeOK
    <2>3. Carries(n)'
      BY <1>4, <2>2 DEF Carries, Early
    <2>4. NewestBindsLast'
      BY <1>4, <2>1, <2>2, NewestStays DEF PageInv
    <2>. QED  BY <2>1, <2>3, <2>4, OneServerStep
  <1>5. CASE /\ \/ Server!OnConnect(n) \/ Server!OnDisconnect(n)
                \/ Server!Abort(n) \/ Server!StreamEnds(n)
             /\ ServerActs
    BY <1>2, <1>4, <1>5
       DEF Server!OnConnect, Server!OnDisconnect, Server!Abort,
           Server!StreamEnds, Server!StepPhase, Server!dirVars, Server!subVars,
           Server!outVars, Server!pumpVars
  <1>6. CASE Server!Unbind(n) /\ ServerActs
    BY <1>2, <1>4, <1>6
       DEF Server!Unbind, Server!StepPhase, Server!subVars, Server!outVars,
           Server!pumpVars
  <1>7. CASE Panics(n)
    BY <1>2, <1>4, <1>7
       DEF Panics, Server!HookPanics, Server!StepPhase, Server!dirVars,
           Server!subVars, Server!outVars, Server!pumpVars
  <1>. QED
    BY <1>1, <1>3, <1>5, <1>6, <1>7 DEF LoopRuns, Server!LoopProceeds

(* The pump: it has something to send only once the loop reads, and then   *)
(* the welcome is in the queue before it.                                  *)
LEMMA PumpIdentity ==
    ASSUME PageInv, ServerTypeOK, IdentityInv, NEW n \in SocketId, PumpRuns(n)
    PROVE  IdentityInv'
  <1>1. /\ UNCHANGED <<taken, opened, resumed, clientId, ws, phase, client,
                       written, writer, topics, lastBound>>
    <2>1. UNCHANGED <<taken, opened, resumed, clientId, ws>>
      BY DEF PumpRuns, ServerActs, clientVars, linkVars, vars, sockVars
    <2>2. UNCHANGED <<phase, client, written, writer, topics, lastBound>>
      BY DEF PumpRuns, Server!PumpProceeds, Server!PumpRecv, Server!PumpLagged,
             Server!PumpCheck, Server!PumpSend, Server!PumpAborted,
             Server!Enqueue, Server!loopVars, Server!dirVars, Server!subVars,
             Server!outVars
    <2>. QED  BY <2>1, <2>2
  <1>2. /\ \/ UNCHANGED pump
           \/ \E p \in {"idle", "checking", "sending", "gone"} :
                 /\ pump' = [pump EXCEPT ![n] = p]
                 /\ p = "sending" => topics[n] # {}
        /\ \/ UNCHANGED out
           \/ /\ pump[n] = "sending" /\ writer[n] = "running"
              /\ \E f : out' = [out EXCEPT ![n] = Append(out[n], f)]
    BY DEF PumpRuns, Server!PumpProceeds, Server!PumpRecv, Server!PumpLagged,
           Server!PumpCheck, Server!PumpSend, Server!PumpAborted,
           Server!PumpEnds, Server!Enqueue, Server!loopVars, Server!dirVars,
           Server!subVars, Server!outVars, Server!pumpVars
  <1>3. Carries(n) /\ out[n] \in Seq(SP!Frame)
    BY DEF IdentityInv, ServerTypeOK
  <1>4. OnlySocket(n)
    BY <1>1, <1>2 DEF OnlySocket, ServerTypeOK
  <1>5. \/ out'[n] = out[n]
        \/ /\ out[n] # << >> /\ out'[n] # << >> /\ out'[n][1] = out[n][1]
           /\ Len(out'[n]) = Len(out[n]) + 1
           /\ phase[n] \notin Early
    <2>1. ASSUME NEW f, pump[n] = "sending", writer[n] = "running",
                 out' = [out EXCEPT ![n] = Append(out[n], f)]
          PROVE  /\ out[n] # << >> /\ out'[n] # << >> /\ out'[n][1] = out[n][1]
                 /\ Len(out'[n]) = Len(out[n]) + 1
                 /\ phase[n] \notin Early
      <3>1. phase[n] \notin Early /\ out[n] # << >>
        BY <1>3, <2>1 DEF Carries
      <3>2. out'[n] = Append(out[n], f)
        BY <2>1 DEF ServerTypeOK
      <3>. QED  BY <1>3, <3>1, <3>2
    <2>. QED  BY <1>2, <2>1
  <1>6. topics[n] = {} => pump'[n] # "sending" \/ pump[n] = "sending"
    BY <1>2 DEF ServerTypeOK
  <1>7. Carries(n)'
    <2>1. Len(out[n]) \in Nat /\ written[n] \in Nat
      BY <1>3 DEF ServerTypeOK
    <2>. QED  BY <1>1, <1>3, <1>5, <1>6, <2>1 DEF Carries
  <1>8. NewestBindsLast'
    BY <1>1, <1>4, NewestStays DEF PageInv
  <1>. QED  BY <1>4, <1>7, <1>8, OneServerStep

(* Every step of the system keeps it.                                      *)
LEMMA IdentityKept ==
    ASSUME PageInv, ServerTypeOK, IdentityInv, [SystemNext]_systemVars
    PROVE  IdentityInv'
  <1>. DEFINE ServerRests == UNCHANGED <<serverVars, taken>>
              SameIds == UNCHANGED <<opened, resumed, clientId>> /\ ws' \in {ws, 0}
  <1>1. ASSUME UNCHANGED <<phase, client, topics, lastBound, out, written, writer,
                           pump, taken, opened, resumed, clientId, ws>>
        PROVE  IdentityInv'
    BY <1>1 DEF IdentityInv, Carries, Replays, NewestBindsLast, SocketId
  <1>2. ASSUME ServerRests, OpenWs \/ SameIds PROVE IdentityInv'
    BY <1>2, PageIdentity
  <1>3. PageActs => ServerRests
    BY DEF PageActs
  <1>4. ASSUME NEW c \in Call, PageListens(c) \/ PageUnlistens(c)
        PROVE  IdentityInv'
    <2>1. ServerRests
      BY <1>3, <1>4 DEF PageListens, PageUnlistens
    <2>2. OpenWs \/ SameIds
      BY <1>4 DEF PageListens, PageUnlistens, Listen, Unlisten, EnsureWs, sockVars
    <2>. QED  BY <1>2, <2>1, <2>2
  <1>5. ASSUME PageSends PROVE IdentityInv'
    <2>1. ServerRests
      BY <1>3, <1>5 DEF PageSends
    <2>2. OpenWs \/ SameIds
      BY <1>5 DEF PageSends, Send, EnsureWs, sockVars
    <2>. QED  BY <1>2, <2>1, <2>2
  <1>6. ASSUME NEW k \in 1 .. MaxSockets, TimerRuns(k) PROVE IdentityInv'
    <2>1. ServerRests
      BY <1>3, <1>6 DEF TimerRuns
    <2>2. OpenWs \/ SameIds
      BY <1>6 DEF TimerRuns, TimerFires, sockVars
    <2>. QED  BY <1>2, <2>1, <2>2
  <1>7. ASSUME NEW n \in SocketId,
               SocketOpens(n) \/ HandshakeBegins(n) \/ SocketCloses(n)
        PROVE  IdentityInv'
    <2>1. ServerRests
      BY <1>3, <1>7 DEF SocketOpens, HandshakeBegins, SocketCloses
    <2>2. SameIds
      BY <1>7 DEF SocketOpens, HandshakeBegins, SocketCloses, Opens, Closing, Closes
    <2>. QED  BY <1>2, <2>1, <2>2
  <1>8. ASSUME NEW n \in SocketId, WriterRuns(n) \/ ServerLoses(n)
        PROVE  IdentityInv'
    <2>1. CASE Server!StreamEnds(n) /\ ServerActs
      BY <2>1, LoopIdentity
    <2>2. CASE (Server!WriterStep(n) \/ Server!WriterAborted(n) \/ Server!WriterFails(n))
               /\ ServerActs
      <3>1. /\ UNCHANGED <<phase, client, topics, lastBound, out, pump, taken,
                           opened, resumed, clientId, ws>>
            /\ \/ /\ writer' = [writer EXCEPT ![n] = "gone"]
                  /\ UNCHANGED written
               \/ /\ written' = [written EXCEPT ![n] = written[n] + 1]
                  /\ written[n] < Len(out[n])
                  /\ UNCHANGED writer
        BY <2>2
           DEF Server!WriterStep, Server!WriterAborted, Server!WriterFails,
               Server!WriterEnds, Server!Unwritten, Server!loopVars,
               Server!dirVars, Server!subVars, Server!pumpVars, ServerActs,
               clientVars, linkVars, vars, sockVars
      <3>2. /\ Carries(n) /\ written[n] \in Nat /\ Len(out[n]) \in Nat
            /\ taken[n] \in Nat
        BY DEF IdentityInv, ServerTypeOK
      <3>3. OnlySocket(n)
        BY <3>1 DEF OnlySocket, ServerTypeOK
      <3>4. Carries(n)'
        BY <3>1, <3>2 DEF Carries, ServerTypeOK
      <3>5. NewestBindsLast'
        BY <3>1, <3>3, NewestStays DEF PageInv
      <3>. QED  BY <3>3, <3>4, <3>5, OneServerStep
    <2>. QED  BY <1>8, <2>1, <2>2 DEF WriterRuns, ServerLoses
  <1>9. ASSUME NEW n \in SocketId, TakeUp(n) PROVE IdentityInv'
    <2>1. /\ phase[n] = "reading"
          /\ UNCHANGED <<phase, client, lastBound, out, written, writer, pump,
                         taken, opened, resumed, clientId, ws>>
      BY <1>9 DEF TakeUp, Server!ConnSubscribe, Server!ConnUnsubscribe,
                  Server!outVars, clientVars, vars, sockVars, loopVars, dirVars,
                  queueVars, pumpVars
    <2>2. \A m \in SocketId \ {n} : topics'[m] = topics[m]
      BY <1>9
         DEF TakeUp, Server!ConnSubscribe, Server!ConnUnsubscribe, ServerTypeOK,
             TopicsTypeOK
    <2>3. OnlySocket(n)
      BY <2>1, <2>2 DEF OnlySocket
    <2>4. Carries(n)'
      BY <2>1 DEF IdentityInv, Carries, Early
    <2>5. NewestBindsLast'
      BY <2>1, <2>3, NewestStays DEF PageInv
    <2>. QED  BY <2>3, <2>4, <2>5, OneServerStep
  <1>10. ASSUME NEW t \in Topic, Publish(t) PROVE IdentityInv'
    BY <1>1, <1>10
       DEF Publish, Server!Emit, Server!loopVars, Server!dirVars,
           Server!subVars, Server!outVars, Server!pumpVars, ServerActs,
           clientVars, linkVars, vars, sockVars
  <1>11. ASSUME UNCHANGED systemVars PROVE IdentityInv'
    BY <1>1, <1>11
       DEF systemVars, clientVars, serverVars, linkVars, vars, sockVars,
           loopVars, dirVars, queueVars, pumpVars
  <1>12. ASSUME NEW n \in SocketId,
                \/ ReceiveWelcome(n) \/ ReceiveEvent(n) \/ Upgrade(n)
                \/ LoopRuns(n) \/ PumpRuns(n) \/ Panics(n)
         PROVE  IdentityInv'
    BY <1>12, ReceiveIdentity, UpgradeIdentity, LoopIdentity, PumpIdentity
  <1>. QED
    BY <1>4, <1>5, <1>6, <1>7, <1>8, <1>9, <1>10, <1>11, <1>12 DEF SystemNext

(* It holds at any time.                                                   *)
LEMMA IdentityCorrect == SystemSpec => [](ServerTypeOK /\ IdentityInv)
  <1>1. SystemInit => IdentityInv
    BY BoundAssumption
       DEF SystemInit, Init, Server!Init, IdentityInv, Carries, Replays,
           NewestBindsLast, Early, SocketId
  <1>2. PageInv /\ ServerTypeOK /\ IdentityInv /\ [SystemNext]_systemVars
        => IdentityInv'
    BY IdentityKept
  <1>3. SP!Spec => []SP!TypeOK
    BY ServerConstants, SP!TypeCorrect
  <1>. QED
    BY <1>1, <1>2, <1>3, ServerTypes, ServerConforms, PageCorrect, PTL
       DEF SystemSpec

(* However sockets were lost before or after their welcome, every socket   *)
(* whose welcome was read goes by the id that the page replays.            *)
THEOREM IdentityIsOne == SystemSpec => []OneIdentity
  <1>1. PageInv /\ ServerTypeOK /\ IdentityInv => OneIdentity
    BY TakenIsBound DEF PageInv, OneIdentity
  <1>. QED  BY <1>1, PageCorrect, IdentityCorrect, PTL

(* The id that a welcome gave this page names its newest socket, unless an *)
(* older one was lost before its welcome was read and may bind late.       *)
THEOREM OwnIdAddressable == SystemSpec => []OwnIdIsAddressable
  <1>1. PageInv /\ IdentityInv /\ SP!RegistryIsLastBinder => OwnIdIsAddressable
    <2> SUFFICES ASSUME PageInv, IdentityInv, SP!RegistryIsLastBinder,
                        opened # 0, clientId \in SocketId,
                        client[opened] = clientId, Server!IsBound(opened),
                        \A m \in 1 .. opened - 1 : client[m] = clientId => taken[m] > 0
                 PROVE  registry[clientId] = opened
      BY DEF OwnIdIsAddressable
    <2>1. lastBound[clientId] = opened
      BY DEF IdentityInv, NewestBindsLast, Server!IsBound
    <2>2. SP!IsBound(opened)
      BY DEF Server!IsBound, SP!IsBound
    <2>3. clientId \in 1 .. MaxSockets + 1
      BY BoundAssumption DEF SocketId
    <2>. QED  BY <2>1, <2>2, <2>3 DEF SP!RegistryIsLastBinder
  <1>2. SP!Spec => []SP!RegistryIsLastBinder
    BY ServerConstants, SP!RegistryCorrect
  <1>. QED
    BY <1>1, <1>2, PageCorrect, IdentityCorrect, ServerConforms, PTL
-----------------------------------------------------------------------------
(* What the callbacks are given, from socket to socket.  All that was      *)
(* heard is older than what the newest socket has yet to bring: its        *)
(* receiver started at the end of the log, and its queue is in order.      *)

HeardTypeOK == heard \in [Call -> Seq(Nat)]

HeardWasPublished == \A c \in Call : Heard(c) \subseteq 1 .. Len(log)

(* Socket n has nothing left to bring that is as old as event i.           *)
IsPast(i, n) ==
    /\ n \in live => i <= cursor[n]
    /\ pump[n] \in {"checking", "sending"} => i < hold[n]
    /\ \A k \in taken[n] + 1 .. Len(out[n]) :
          out[n][k].kind = "event" => i < out[n][k].pos

NewestIsNewer ==
    opened # 0 /\ phase[opened] # "idle" =>
        \A c \in Call : \A i \in Heard(c) : IsPast(i, opened)

HeardInv ==
    /\ HeardTypeOK
    /\ HeardWasPublished
    /\ NewestIsNewer
    /\ HeardInOrder

(* What is known of the server at any time.                                *)
ServerInv == SP!IInv /\ SP!OrderInv /\ ServerTypeOK

LEMMA ServerCorrect == SystemSpec => []ServerInv
  <1>1. SP!Spec => [](SP!IInv /\ SP!OrderInv)
    BY ServerConstants, SP!InOrder
  <1>. QED
    BY <1>1, IdentityCorrect, ServerConforms, PTL DEF ServerInv

(* A step that gives no callback anything.                                 *)
Silent == UNCHANGED <<heard, taken>>

(* The positions in log and queues that the server keeps.                  *)
LEMMA ServerPlaces ==
    ASSUME ServerInv, NEW n \in SocketId
    PROVE  /\ Len(log) \in Nat /\ Len(out[n]) \in Nat
           /\ out[n] \in Seq(SP!Frame)
           /\ cursor[n] \in Nat /\ hold[n] \in Nat
  <1>1. SP!TypeOK
    BY DEF ServerInv, SP!IInv
  <1>2. /\ Len(log) \in Nat /\ cursor[n] \in Nat /\ hold[n] \in Nat
    BY <1>1, ServerConstants, SP!SocketType
  <1>. QED  BY <1>2 DEF ServerInv, ServerTypeOK

(* A step of the server: what it takes from the bus and queues for the     *)
(* newest socket is newer than all that was heard.                         *)
LEMMA ServerHears ==
    ASSUME PageInv, ServerInv, IdentityInv, HeardInv, [SP!Next]_SP!vars, Silent,
           UNCHANGED opened
    PROVE  HeardInv'
  <1>1. HeardTypeOK' /\ HeardInOrder' /\ \A c \in Call : Heard(c)' = Heard(c)
    BY DEF Silent, HeardInv, HeardTypeOK, HeardInOrder, Heard
  <1>2. ASSUME NEW n \in SocketId
        PROVE  \/ phase'[n] = "idle"
               \/ /\ phase[n] = "idle" /\ cursor'[n] = Len(log)
                  /\ out'[n] = out[n] /\ pump'[n] = "idle"
               \/ /\ phase[n] # "idle"
                  /\ n \in live' => n \in live /\ cursor'[n] >= cursor[n]
    BY ServerConstants, SP!ReceiverSteps DEF ServerInv, SP!IInv
  <1>3. ASSUME NEW n \in SocketId
        PROVE  \/ SP!KeepsQueue(n) \/ SP!TakesUp(n) \/ SP!QueuesOther(n)
               \/ SP!QueuesHand(n)
    BY ServerConstants, SP!QueueSteps DEF ServerInv
  <1>4. ASSUME opened # 0, phase'[opened] # "idle",
               NEW c \in Call, NEW i \in Heard(c)
        PROVE  IsPast(i, opened)'
    <2>. DEFINE n == opened
    <2>1. n \in SocketId /\ taken'[n] = taken[n] /\ taken[n] \in Nat
      BY <1>4, BoundAssumption
         DEF PageInv, SocketTypeOK, SocketId, IdentityInv, Silent
    <2>2. i \in 1 .. Len(log) /\ Len(log) \in Nat
      BY <1>4, <2>1, ServerPlaces DEF HeardInv, HeardWasPublished
    <2>3. CASE phase[n] = "idle"
      <3>1. cursor'[n] = Len(log) /\ out'[n] = out[n] /\ pump'[n] = "idle"
        BY <1>2, <1>4, <2>1, <2>3
      <3>2. out[n] = << >>
        BY <2>1, <2>3 DEF IdentityInv, Carries, Early
      <3>. QED  BY <2>1, <2>2, <3>1, <3>2 DEF IsPast
    <2>4. CASE phase[n] # "idle"
      <3>1. IsPast(i, n) /\ (n \in live' => n \in live /\ cursor'[n] >= cursor[n])
        BY <1>2, <1>4, <2>1, <2>4 DEF HeardInv, NewestIsNewer
      <3>2. /\ out[n] \in Seq(SP!Frame) /\ Len(out[n]) \in Nat
            /\ cursor[n] \in Nat /\ hold[n] \in Nat
        BY <2>1, ServerPlaces
      <3>3. n \in live' => i <= cursor'[n]
        <4>1. SP!TypeOK'
          BY ServerConstants, SP!NextType DEF ServerInv, SP!IInv
        <4>2. cursor'[n] \in Nat
          BY <2>1, <4>1 DEF SP!TypeOK, SP!BusTypeOK
        <4>. QED  BY <2>2, <3>1, <3>2, <4>2 DEF IsPast
      <3>4. CASE SP!KeepsQueue(n)
        BY <2>1, <3>1, <3>3, <3>4 DEF SP!KeepsQueue, IsPast
      <3>5. CASE SP!TakesUp(n)
        <4>1. i < cursor[n] + 1
          BY <2>2, <3>1, <3>2, <3>5 DEF SP!TakesUp, IsPast
        <4>. QED  BY <2>1, <3>1, <3>3, <3>5, <4>1 DEF SP!TakesUp, IsPast
      <3>6. ASSUME NEW f \in SP!Frame, out'[n] = Append(out[n], f),
                   f.kind = "event" => i < f.pos,
                   NEW k \in taken[n] + 1 .. Len(out'[n]),
                   out'[n][k].kind = "event"
            PROVE  i < out'[n][k].pos
        <4>1. CASE k <= Len(out[n])
          BY <2>1, <3>1, <3>2, <3>6, <4>1 DEF IsPast
        <4>2. CASE k = Len(out[n]) + 1
          BY <3>2, <3>6, <4>2
        <4>. QED  BY <2>1, <3>2, <3>6, <4>1, <4>2
      <3>7. CASE SP!QueuesOther(n)
        BY <2>1, <3>1, <3>3, <3>6, <3>7 DEF SP!QueuesOther, IsPast
      <3>8. CASE SP!QueuesHand(n)
        <4>. DEFINE f == SP!Event(hold[n])
        <4>1. hold[n] \in 1 .. MaxPublish
          BY <2>1, <3>8, ServerConstants
             DEF SP!QueuesHand, ServerInv, SP!IInv, SP!TypeOK, SP!PumpTypeOK,
                 SP!BusTypeOK
        <4>2. f \in SP!Frame /\ f.pos = hold[n]
          BY <4>1 DEF SP!Frame, SP!Event
        <4>3. i < hold[n]
          BY <3>1, <3>8 DEF IsPast, SP!QueuesHand
        <4>. QED
          BY <2>1, <3>3, <3>6, <3>8, <4>2, <4>3 DEF IsPast, SP!QueuesHand
      <3>. QED  BY <1>3, <2>1, <3>4, <3>5, <3>7, <3>8
    <2>. QED  BY <2>3, <2>4
  <1>5. NewestIsNewer'
    BY <1>1, <1>4 DEF NewestIsNewer
  <1>6. HeardWasPublished'
    <2>1. log' = log \/ \E t \in Topic : log' = Append(log, t)
      BY ServerConstants, SP!LogSteps
    <2>2. log \in Seq(Topic)
      BY DEF ServerInv, SP!IInv, SP!TypeOK, SP!BusTypeOK
    <2>3. 1 .. Len(log) \subseteq 1 .. Len(log')
      BY <2>1, <2>2
    <2>. QED  BY <1>1, <2>3 DEF HeardInv, HeardWasPublished
  <1>. QED  BY <1>1, <1>5, <1>6 DEF HeardInv

(* A step of the page that reads nothing, which may open a socket.         *)
LEMMA PageHears ==
    ASSUME PageInv, IdentityInv, HeardInv, Silent, UNCHANGED serverVars,
           OpenWs \/ UNCHANGED opened
    PROVE  HeardInv'
  <1>. USE DEF serverVars, busVars, loopVars, queueVars, pumpVars
  <1>1. /\ HeardTypeOK' /\ HeardInOrder' /\ HeardWasPublished'
        /\ \A c \in Call : Heard(c)' = Heard(c)
    BY DEF Silent, HeardInv, HeardTypeOK, HeardInOrder, HeardWasPublished, Heard
  <1>2. CASE UNCHANGED opened
    BY <1>1, <1>2 DEF HeardInv, NewestIsNewer, IsPast, Silent
  <1>3. CASE OpenWs
    <2>1. opened' = opened + 1 /\ opened \in Nat /\ opened + 1 \in SocketId
      BY <1>3, BoundAssumption DEF OpenWs, PageInv, SocketTypeOK, SocketId
    <2>2. phase[opened + 1] = "idle"
      BY <2>1 DEF IdentityInv, Carries, SocketId
    <2>. QED  BY <1>1, <2>1, <2>2 DEF HeardInv, NewestIsNewer
  <1>. QED  BY <1>2, <1>3

(* A larger member at the end keeps a sequence in order.                   *)
LEMMA AppendInOrder ==
    ASSUME NEW s \in Seq(Nat), NEW i \in Nat,
           \A j, k \in DOMAIN s : j < k => s[j] < s[k],
           \A k \in DOMAIN s : s[k] < i
    PROVE  /\ \A j, k \in DOMAIN Append(s, i) :
                 j < k => Append(s, i)[j] < Append(s, i)[k]
           /\ {Append(s, i)[k] : k \in DOMAIN Append(s, i)}
                 = {s[k] : k \in DOMAIN s} \cup {i}
  <1>1. /\ Len(s) \in Nat /\ DOMAIN s = 1 .. Len(s)
        /\ DOMAIN Append(s, i) = 1 .. (Len(s) + 1)
        /\ \A k \in 1 .. Len(s) : Append(s, i)[k] = s[k]
        /\ Append(s, i)[Len(s) + 1] = i
    OBVIOUS
  <1>2. 1 .. (Len(s) + 1) = (1 .. Len(s)) \cup {Len(s) + 1}
    BY <1>1
  <1>3. \A j, k \in DOMAIN Append(s, i) :
           j < k => Append(s, i)[j] < Append(s, i)[k]
    BY <1>1
  <1>. HIDE DEF Append
  <1>4. {Append(s, i)[k] : k \in DOMAIN Append(s, i)}
            = {s[k] : k \in DOMAIN s} \cup {i}
    BY <1>1, <1>2
  <1>. QED  BY <1>3, <1>4

(* The page reads an event: it is newer than all that was heard, and older *)
(* than all that is queued behind it, in hand, or still on the bus.        *)
LEMMA EventHears ==
    ASSUME PageInv, ServerInv, IdentityInv, HeardInv, NEW n \in SocketId,
           ReceiveEvent(n)
    PROVE  HeardInv'
  <1>. DEFINE m == taken[n] + 1
  <1>0. PICK e : e = out[n][m].pos
    OBVIOUS
  <1>1. /\ ready[n] = "open" /\ taken[n] < written[n]
        /\ taken' = [taken EXCEPT ![n] = m]
        /\ out[n][m].kind = "event"
        /\ UNCHANGED <<serverVars, opened>>
        /\ heard' = [c \in Call |->
              IF HandlerOf[c] \in Listeners(log[e]) THEN Append(heard[c], e)
                                                    ELSE heard[c]]
    BY <1>0
       DEF ReceiveEvent, HasArriving, Arriving, TakeFrame, clientVars, vars, sockVars
  <1>2. UNCHANGED <<log, live, cursor, phase, out, pump, hold>>
    BY <1>1 DEF serverVars, busVars, loopVars, queueVars, pumpVars
  <1>3. n = opened /\ n # 0
    BY <1>1 DEF PageInv, SocketInv, OneSocket, SocketId
  <1>4. /\ taken[n] \in Nat /\ written[n] \in Nat /\ written[n] <= Len(out[n])
        /\ taken \in [SocketId -> Nat]
        /\ Len(out[n]) \in Nat /\ out[n] \in Seq(SP!Frame)
        /\ cursor[n] \in Nat /\ hold[n] \in Nat /\ Len(log) \in Nat
    BY ServerPlaces DEF IdentityInv, Carries, ServerInv, ServerTypeOK
  <1>5. m \in 1 .. Len(out[n]) /\ taken'[n] = m
    BY <1>1, <1>4
  <1>6. m \in SP!EventIndices(n) /\ e \in SP!Queued(n)
    BY <1>0, <1>1, <1>4, <1>5 DEF SP!EventIndices, SP!Queued
  <1>7. phase[n] # "idle"
    BY <1>4, <1>5 DEF IdentityInv, Carries, Early
  <1>8. /\ e \in 1 .. Len(log)
        /\ n \in live => e <= cursor[n]
        /\ pump[n] \in {"checking", "sending"} => e < hold[n]
    BY <1>4, <1>6
       DEF ServerInv, SP!IInv, SP!DeliveryInv, SP!Delivery,
           SP!QueuedWasPublished, SP!ServingInv, SP!Serving,
           SP!QueuedWasPassed, SP!OrderInv, SP!Ordered, SP!HandIsNewest
  <1>9. ASSUME NEW k \in m + 1 .. Len(out[n]), out[n][k].kind = "event"
        PROVE  e < out[n][k].pos
    <2>1. k \in SP!EventIndices(n) /\ m < k
      BY <1>4, <1>9 DEF SP!EventIndices
    <2>. QED
      BY <1>0, <1>6, <2>1 DEF ServerInv, SP!OrderInv, SP!Ordered, SP!QueueOrdered
  <1>10. IsPast(e, n)'
    BY <1>2, <1>5, <1>8, <1>9 DEF IsPast
  <1>11. ASSUME NEW c \in Call, NEW i \in Heard(c)
         PROVE  i \in Nat /\ i < e /\ IsPast(i, n)'
    <2>1. IsPast(i, n) /\ i \in Nat
      BY <1>3, <1>7 DEF HeardInv, NewestIsNewer, HeardWasPublished
    <2>2. i < e
      BY <1>0, <1>1, <1>4, <1>5, <2>1 DEF IsPast
    <2>. QED  BY <1>2, <1>4, <1>5, <2>1, <2>2 DEF IsPast
  <1>12. ASSUME NEW c \in Call
         PROVE  /\ heard'[c] \in Seq(Nat)
                /\ Heard(c)' \subseteq Heard(c) \cup {e}
                /\ \A j, k \in DOMAIN heard'[c] : j < k => heard'[c][j] < heard'[c][k]
    <2>1. /\ heard[c] \in Seq(Nat) /\ e \in Nat
          /\ \A j, k \in DOMAIN heard[c] : j < k => heard[c][j] < heard[c][k]
          /\ \A k \in DOMAIN heard[c] : heard[c][k] < e
      BY <1>8, <1>11 DEF HeardInv, HeardTypeOK, HeardInOrder, Heard
    <2>2. CASE heard'[c] = heard[c]
      BY <2>1, <2>2 DEF Heard
    <2>3. CASE heard'[c] = Append(heard[c], e)
      <3>1. /\ \A j, k \in DOMAIN Append(heard[c], e) :
                  j < k => Append(heard[c], e)[j] < Append(heard[c], e)[k]
            /\ {Append(heard[c], e)[k] : k \in DOMAIN Append(heard[c], e)}
                  = {heard[c][k] : k \in DOMAIN heard[c]} \cup {e}
        BY <2>1, AppendInOrder
      <3>2. Append(heard[c], e) \in Seq(Nat)
        BY <2>1
      <3>. HIDE DEF Append
      <3>. QED  BY <2>3, <3>1, <3>2 DEF Heard
    <2>. QED  BY <1>1, <2>2, <2>3
  <1>13. HeardTypeOK'
    BY <1>1, <1>12 DEF HeardTypeOK
  <1>14. HeardWasPublished'
    BY <1>2, <1>8, <1>12 DEF HeardInv, HeardWasPublished
  <1>15. NewestIsNewer'
    BY <1>1, <1>3, <1>10, <1>11, <1>12 DEF NewestIsNewer
  <1>16. HeardInOrder'
    BY <1>12 DEF HeardInOrder
  <1>. QED  BY <1>13, <1>14, <1>15, <1>16 DEF HeardInv
(* Every step of the system is one of the page that reads nothing, the     *)
(* welcome, an event, or one of the server.                                *)
LEMMA SystemSteps ==
    ASSUME PageInv, ServerInv, FollowInv, [SystemNext]_systemVars
    PROVE  \/ /\ Silent /\ UNCHANGED serverVars /\ (OpenWs \/ UNCHANGED opened)
              /\ \/ UNCHANGED <<subs, setOf, unlistens, since>>
                 \/ \E c \in Call : PageListens(c) \/ PageUnlistens(c)
           \/ \E n \in SocketId : ReceiveWelcome(n)
           \/ \E n \in SocketId : ReceiveEvent(n)
           \/ [SP!Next]_SP!vars /\ Silent /\ UNCHANGED <<opened, subs, setOf, unlistens, since>>
  <1>1. ASSUME NEW c \in Call, PageListens(c) \/ PageUnlistens(c)
        PROVE  Silent /\ UNCHANGED serverVars /\ (OpenWs \/ UNCHANGED opened)
    BY <1>1 DEF PageListens, PageUnlistens, PageActs, Silent, Listen, Unlisten,
                EnsureWs, sockVars
  <1>2. ASSUME \/ PageSends
               \/ \E k \in 1 .. MaxSockets : TimerRuns(k)
               \/ \E n \in SocketId :
                     SocketOpens(n) \/ HandshakeBegins(n) \/ SocketCloses(n)
        PROVE  /\ Silent /\ UNCHANGED serverVars /\ (OpenWs \/ UNCHANGED opened)
               /\ UNCHANGED <<subs, setOf, unlistens, since>>
    BY <1>2 DEF PageSends, TimerRuns, SocketOpens, HandshakeBegins,
                SocketCloses, PageActs, Silent, Send, TimerFires, Opens, Closing,
                Closes, EnsureWs, sockVars, subVars
  <1>3. [SP!Next]_SP!vars
    BY ServerStep DEF PageInv, FollowInv
  <1>4. ASSUME \/ \E n \in SocketId :
                     \/ Upgrade(n) \/ TakeUp(n) \/ LoopRuns(n) \/ PumpRuns(n)
                     \/ WriterRuns(n) \/ Panics(n) \/ ServerLoses(n)
               \/ \E t \in Topic : Publish(t)
               \/ UNCHANGED systemVars
        PROVE  Silent /\ UNCHANGED <<opened, subs, setOf, unlistens, since>>
    BY <1>4 DEF Upgrade, TakeUp, LoopRuns, PumpRuns, WriterRuns, Panics,
                ServerLoses, Publish, ServerActs, Silent, clientVars, linkVars,
                systemVars, vars, sockVars, subVars
  <1>. QED  BY <1>1, <1>2, <1>3, <1>4 DEF SystemNext

LEMMA HeardKept ==
    ASSUME PageInv, ServerInv, FollowInv, IdentityInv, HeardInv,
           [SystemNext]_systemVars
    PROVE  HeardInv'
  <1>1. ASSUME NEW n \in SocketId, ReceiveWelcome(n) PROVE HeardInv'
    <2>1. /\ ready[n] = "open"
          /\ taken[n] \in Nat /\ taken' = [taken EXCEPT ![n] = taken[n] + 1]
          /\ taken \in [SocketId -> Nat]
          /\ UNCHANGED <<heard, serverVars, opened>>
      BY <1>1 DEF ReceiveWelcome, HasArriving, TakeFrame, Welcomed, IdentityInv
    <2>2. n = opened
      BY <2>1 DEF PageInv, SocketInv, OneSocket, SocketId
    <2>3. UNCHANGED <<log, live, cursor, phase, out, pump, hold>>
      BY <2>1 DEF serverVars, busVars, loopVars, queueVars, pumpVars
    <2>4. /\ HeardTypeOK' /\ HeardInOrder' /\ HeardWasPublished'
          /\ \A c \in Call : Heard(c)' = Heard(c)
      BY <2>1, <2>3 DEF HeardInv, HeardTypeOK, HeardInOrder, HeardWasPublished, Heard
    <2>5. ASSUME NEW i, IsPast(i, n) PROVE IsPast(i, n)'
      BY <2>1, <2>3, <2>5 DEF IsPast
    <2>. QED
      BY <2>1, <2>2, <2>3, <2>4, <2>5 DEF HeardInv, NewestIsNewer
  <1>. QED
    BY <1>1, SystemSteps, PageHears, EventHears, ServerHears

LEMMA HeardCorrect == SystemSpec => []HeardInv
  <1>1. SystemInit => HeardInv
    BY DEF SystemInit, Init, HeardInv, HeardTypeOK, HeardWasPublished, NewestIsNewer,
           HeardInOrder, Heard
  <1>2. PageInv /\ ServerInv /\ FollowInv /\ IdentityInv /\ HeardInv
            /\ [SystemNext]_systemVars
        => HeardInv'
    BY HeardKept
  <1>. QED
    BY <1>1, <1>2, PageCorrect, ServerCorrect, FollowCorrect, IdentityCorrect, PTL
       DEF SystemSpec

(* Whatever sockets come and go, a callback is given events in the order   *)
(* they were published, and none twice (session.rs:332, 337-373;           *)
(* rpc_runtime.ts:193-203).                                                *)
THEOREM HeardOnceInOrder == SystemSpec => []HeardInOrder
  BY HeardCorrect, PTL DEF HeardInv

-----------------------------------------------------------------------------
(* What was read and is for a call that listens, its callback was given.   *)

IsEventFor(n, k, c) ==
    /\ out[n][k].kind = "event"
    /\ log[out[n][k].pos] = TopicOf[c]
    /\ out[n][k].pos > since[c]

ReadIsHeard ==
    \A c \in Call, n \in SocketId : \A k \in 1 .. taken[n] :
        Served(c) /\ IsEventFor(n, k, c) => out[n][k].pos \in Heard(c)

ReadInv == since \in [Call -> Nat] /\ ReadIsHeard

(* What was read had been queued, and was published before.                *)
LEMMA ReadWasPublished ==
    ASSUME ServerInv, IdentityInv, NEW n \in SocketId, NEW k \in 1 .. taken[n]
    PROVE  /\ k \in 1 .. Len(out[n])
           /\ out[n][k].kind = "event" => out[n][k].pos \in 1 .. Len(log)
  <1>1. /\ Len(out[n]) \in Nat /\ out[n] \in Seq(SP!Frame)
        /\ k \in 1 .. Len(out[n])
    BY ServerPlaces DEF IdentityInv, Carries, ServerInv, ServerTypeOK
  <1>2. out[n][k].kind = "event" => out[n][k].pos \in SP!Queued(n)
    BY <1>1 DEF SP!EventIndices, SP!Queued
  <1>. QED
    BY <1>1, <1>2 DEF ServerInv, SP!IInv, SP!DeliveryInv, SP!Delivery,
                      SP!QueuedWasPublished

(* The server adds to the ends of log and queues only.                     *)
LEMMA ServerAdds ==
    ASSUME ServerInv, IdentityInv, [SP!Next]_SP!vars, NEW n \in SocketId,
           NEW k \in 1 .. taken[n]
    PROVE  /\ out'[n][k] = out[n][k]
           /\ out[n][k].kind = "event" =>
                 /\ out[n][k].pos \in 1 .. Len(log)
                 /\ log'[out[n][k].pos] = log[out[n][k].pos]
  <1>1. /\ Len(out[n]) \in Nat /\ out[n] \in Seq(SP!Frame)
        /\ k \in 1 .. Len(out[n])
    BY ServerPlaces, ReadWasPublished
  <1>2. out'[n] = out[n] \/ \E f \in SP!Frame : out'[n] = Append(out[n], f)
    <2>1. SP!KeepsQueue(n) \/ SP!TakesUp(n) \/ SP!QueuesOther(n) \/ SP!QueuesHand(n)
      BY ServerConstants, SP!QueueSteps DEF ServerInv
    <2>2. ASSUME SP!QueuesHand(n) PROVE SP!Event(hold[n]) \in SP!Frame
      <3>1. hold[n] \in 1 .. MaxPublish
        BY <2>2, ServerConstants
           DEF SP!QueuesHand, ServerInv, SP!IInv, SP!TypeOK, SP!PumpTypeOK,
               SP!BusTypeOK
      <3>. QED  BY <3>1 DEF SP!Frame, SP!Event
    <2>. QED
      BY <2>1, <2>2 DEF SP!KeepsQueue, SP!TakesUp, SP!QueuesOther, SP!QueuesHand
  <1>3. out'[n][k] = out[n][k]
    BY <1>1, <1>2
  <1>4. out[n][k].kind = "event" => out[n][k].pos \in 1 .. Len(log)
    BY ReadWasPublished
  <1>5. log' = log \/ \E t \in Topic : log' = Append(log, t)
    BY ServerConstants, SP!LogSteps
  <1>6. log \in Seq(Topic)
    BY DEF ServerInv, SP!IInv, SP!TypeOK, SP!BusTypeOK
  <1>7. \A i \in 1 .. Len(log) : log'[i] = log[i]
    BY <1>5, <1>6
  <1>. QED  BY <1>3, <1>4, <1>7

LEMMA ReadKept ==
    ASSUME OwnHandlers, PageInv, ListenInv, ServerInv, FollowInv, IdentityInv, HeardInv,
           ReadInv, [SystemNext]_systemVars
    PROVE  ReadInv'
  <1>1. CASE [SP!Next]_SP!vars /\ Silent /\ UNCHANGED <<opened, subs, setOf, unlistens, since>>
    <2>1. \A c \in Call : Heard(c)' = Heard(c)
      BY <1>1 DEF Silent, Heard
    <2>2. ASSUME NEW c \in Call, NEW n \in SocketId, NEW k \in 1 .. taken[n]
          PROVE  IsEventFor(n, k, c)' => IsEventFor(n, k, c) /\ out'[n][k] = out[n][k]
      BY <1>1, ServerAdds DEF IsEventFor
    <2>. QED
      BY <1>1, <2>1, <2>2
         DEF Silent, ReadInv, ReadIsHeard, Served, Listening, Installed
  <1>2. ASSUME Silent, UNCHANGED serverVars,
               \/ UNCHANGED <<subs, setOf, unlistens, since>>
               \/ \E c \in Call : PageListens(c) \/ PageUnlistens(c)
        PROVE  ReadInv'
    <2>1. UNCHANGED <<log, out>> /\ \A c \in Call : Heard(c)' = Heard(c)
      BY <1>2 DEF Silent, Heard, serverVars, busVars, queueVars
    <2>2. CASE UNCHANGED <<subs, setOf, unlistens, since>>
      BY <1>2, <2>1, <2>2
         DEF Silent, ReadInv, ReadIsHeard, IsEventFor, Served, Listening, Installed
    <2>3. ASSUME NEW d \in Call, PageUnlistens(d) PROVE ReadInv'
      <3>1. /\ unlistens' = [unlistens EXCEPT ![d] = unlistens[d] + 1]
            /\ subs' = subs \/ subs' = [subs EXCEPT ![TopicOf[d]] = NoSet]
            /\ UNCHANGED <<setOf, since>>
        BY <2>3 DEF PageUnlistens, Unlisten
      <3>2. \A c \in Call : Served(c)' => Served(c)
        <4>1. ASSUME NEW c \in Call, unlistens'[c] = 0 PROVE unlistens[c] = 0
          <5>1. unlistens[d] + 1 # 0 /\ unlistens \in [Call -> Nat]
            BY BoundAssumption DEF PageInv, TopicTypeOK
          <5>. QED  BY <3>1, <4>1, <5>1
        <4>2. \A u \in Topic : subs'[u] = subs[u] \/ subs'[u] = NoSet
          BY <3>1 DEF PageInv, TopicTypeOK
        <4>3. \A c \in Call : TopicOf[c] \in Topic
          BY CallAssumption
        <4>. QED  BY <3>1, <4>1, <4>2, <4>3 DEF Served, Listening, Installed
      <3>. QED
        BY <1>2, <2>1, <3>1, <3>2 DEF Silent, ReadInv, ReadIsHeard, IsEventFor
    <2>4. ASSUME NEW d \in Call, PageListens(d) PROVE ReadInv'
      <3>1. /\ since' = [since EXCEPT ![d] = Len(log)]
            /\ setOf[d] = NoSet /\ unlistens' = unlistens
            /\ \/ subs' = subs
               \/ subs' = [subs EXCEPT ![TopicOf[d]] = d]
            /\ \E s \in Call : setOf' = [setOf EXCEPT ![d] = s]
        BY <2>4, CallAssumption DEF PageListens, Listen, PageInv, TopicTypeOK
      <3>2. log \in Seq(Topic) /\ Len(log) \in Nat
        BY DEF ServerInv, SP!IInv, SP!TypeOK, SP!BusTypeOK
      <3>3. ASSUME NEW c \in Call, c # d
            PROVE  (Served(c)' => Served(c)) /\ since'[c] = since[c]
        <4>1. since'[c] = since[c] /\ setOf'[c] = setOf[c]
          BY <3>1, <3>3 DEF PageInv, TopicTypeOK, ReadInv
        <4>2. Listening(c) => setOf[c] \in Call /\ setOf[c] # d
          BY <3>1 DEF Listening, ListenInv, SetsApart, PageInv, TopicTypeOK
        <4>3. TopicOf[c] \in Topic
          BY CallAssumption
        <4>. QED
          BY <3>1, <4>1, <4>2, <4>3
             DEF Served, Listening, Installed, PageInv, TopicTypeOK
      <3>4. since'[d] = Len(log) /\ since' \in [Call -> Nat]
        BY <3>1, <3>2 DEF ReadInv
      <3>5. ASSUME NEW n \in SocketId, NEW k \in 1 .. taken[n]
            PROVE  ~ IsEventFor(n, k, d)'
        <4>1. out[n][k].kind = "event" => out[n][k].pos \in 1 .. Len(log)
          BY ReadWasPublished
        <4>. QED  BY <2>1, <3>2, <3>4, <4>1 DEF IsEventFor
      <3>. QED
        BY <1>2, <2>1, <3>3, <3>4, <3>5 DEF Silent, ReadInv, ReadIsHeard, IsEventFor
    <2>. QED  BY <1>2, <2>2, <2>3, <2>4
  <1>3. ASSUME NEW m \in SocketId, ReceiveWelcome(m) \/ ReceiveEvent(m)
        PROVE  ReadInv'
    <2>1. /\ UNCHANGED <<subs, setOf, unlistens, since, log, out>>
          /\ taken' = [taken EXCEPT ![m] = taken[m] + 1]
      BY <1>3 DEF ReceiveWelcome, ReceiveEvent, TakeFrame, Welcomed, clientVars,
                  vars, subVars, serverVars, busVars, queueVars
    <2>2. taken \in [SocketId -> Nat]
      BY DEF IdentityInv
    <2>3. ASSUME NEW c \in Call PROVE Heard(c) \subseteq Heard(c)'
      <3>1. heard[c] \in Seq(Nat)
        BY DEF HeardInv, HeardTypeOK
      <3>2. heard'[c] = heard[c] \/ \E i : heard'[c] = Append(heard[c], i)
        BY <1>3 DEF ReceiveWelcome, ReceiveEvent
      <3>. QED  BY <3>1, <3>2 DEF Heard
    <2>4. ASSUME NEW c \in Call, Served(c),
                 IsEventFor(m, taken[m] + 1, c)
          PROVE  out[m][taken[m] + 1].pos \in Heard(c)'
      <3>. DEFINE i == out[m][taken[m] + 1].pos
      <3>1. ReceiveEvent(m)
        BY <1>3, <2>4 DEF IsEventFor, ReceiveWelcome, Arriving
      <3>2. HandlerOf[c] \in Listeners(log[i])
        BY <2>4, CallAssumption
           DEF IsEventFor, ListenInv, Listeners, Served, Listening, Installed
      <3>3. heard'[c] = Append(heard[c], i) /\ heard[c] \in Seq(Nat)
        BY <3>1, <3>2 DEF ReceiveEvent, Arriving, HeardInv, HeardTypeOK
      <3>4. /\ Len(heard[c]) + 1 \in DOMAIN Append(heard[c], i)
            /\ Append(heard[c], i)[Len(heard[c]) + 1] = i
        BY <3>3
      <3>5. PICK k \in DOMAIN heard'[c] : heard'[c][k] = i
        BY <3>3, <3>4
      <3>. QED  BY <3>5 DEF Heard
    <2>5. ASSUME NEW c \in Call, NEW n \in SocketId, NEW k \in 1 .. taken'[n]
          PROVE  k \in 1 .. taken[n] \/ (n = m /\ k = taken[m] + 1)
      BY <2>1, <2>2
    <2>6. \A c \in Call, n \in SocketId : \A k \in 1 .. taken'[n] :
             IsEventFor(n, k, c)' <=> IsEventFor(n, k, c)
      BY <2>1 DEF IsEventFor
    <2>. QED
      BY <2>1, <2>3, <2>4, <2>5, <2>6
         DEF ReadInv, ReadIsHeard, Served, Listening, Installed
  <1>. QED  BY <1>1, <1>2, <1>3, SystemSteps

(* While a call listens, no event for it that its socket's receiver passed *)
(* slips through: it was heard, is on its way, is in the pump's hand, or   *)
(* was lost to lag.                                                        *)
THEOREM NothingSlipsThrough ==
    ASSUME OwnHandlers
    PROVE  SystemSpec => []NothingSlips
  <1>1. SystemInit => ReadInv /\ ListenInv
    BY DEF SystemInit, Init, ReadInv, ReadIsHeard, ListenInv, SetsApart, Served,
           Listening
  <1>2. PageInv /\ ListenInv /\ ServerInv /\ FollowInv /\ IdentityInv
            /\ HeardInv /\ ReadInv /\ [SystemNext]_systemVars
        => ReadInv'
    BY ReadKept
  <1>3. PageInv /\ ListenInv /\ [SystemNext]_systemVars => ListenInv'
    BY PageStep, ListenKept DEF PageInv
  <1>4. ASSUME ServerInv, IdentityInv, ReadInv, SP!NoSilentLoss PROVE NothingSlips
    <2>. SUFFICES ASSUME NEW c \in Call, NEW n \in SocketId,
                         NEW i \in 1 .. cursor[n], IsFor(i, c, n),
                         i \notin {hold[n]} \cup missed[n]
                  PROVE  i \in Heard(c) \cup OnTheWay(n)
      BY DEF NothingSlips
    <2>1. /\ Len(out[n]) \in Nat /\ out[n] \in Seq(SP!Frame)
          /\ cursor[n] \in Nat /\ taken[n] \in Nat
      BY <1>4, ServerPlaces DEF IdentityInv
    <2>2. TopicOf[c] \in Topic /\ mark[n][TopicOf[c]] \in Nat
      BY <1>4, CallAssumption DEF ServerInv, SP!IInv, SP!TypeOK, SP!SubTypeOK
    <2>3. i \in mark[n][TopicOf[c]] + 1 .. cursor[n]
      BY <2>1, <2>2 DEF IsFor
    <2>4. i \in SP!Queued(n)
      BY <1>4, <2>3 DEF IsFor, SP!NoSilentLoss
    <2>5. PICK k \in DOMAIN out[n] : out[n][k].kind = "event" /\ out[n][k].pos = i
      BY <2>4 DEF SP!Queued, SP!EventIndices
    <2>6. CASE k <= taken[n]
      BY <1>4, <2>1, <2>5, <2>6 DEF ReadInv, ReadIsHeard, IsEventFor, IsFor
    <2>7. CASE k > taken[n]
      BY <2>1, <2>5, <2>7 DEF OnTheWay
    <2>. QED  BY <2>1, <2>6, <2>7
  <1>5. SP!Spec => []SP!NoSilentLoss
    BY ServerConstants, SP!LossIsNeverSilent
  <1>. QED
    BY <1>1, <1>2, <1>3, <1>4, <1>5, PageCorrect, ServerCorrect, FollowCorrect,
       IdentityCorrect, HeardCorrect, ServerConforms, PTL
       DEF SystemSpec
=============================================================================
