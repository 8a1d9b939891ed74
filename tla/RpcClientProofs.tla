--------------------------- MODULE RpcClientProofs ---------------------------
(***************************************************************************)
(* What TLAPS proves about the client runtime (RpcClient), for any topics, *)
(* listen calls, handlers and bounds.                                      *)
(***************************************************************************)
EXTENDS RpcClient, TLAPS

IsLive(n) == ready[n] \in {"connecting", "open", "closing"}

-----------------------------------------------------------------------------
(* The socket.  What the properties read of a step is one of these: a      *)
(* socket is opened while ws is unset, closes and unsets ws, moves on in   *)
(* its life, or nothing happens to it.                                     *)

SocketTypeOK ==
    /\ ws \in 0 .. MaxSockets
    /\ ready \in [SocketId -> {"none", "connecting", "open", "closing", "closed"}]
    /\ opened \in 0 .. MaxSockets
    /\ resumed \in [SocketId -> 0 .. MaxSockets + 1]
    /\ clientId \in 0 .. MaxSockets + 1

(* ws is the newest socket and not closed, or unset.                       *)
SocketInv ==
    /\ OneSocket
    /\ ws # 0 => ws = opened /\ IsLive(ws)

MovesOn(n) ==
    /\ IsLive(n)
    /\ \E r \in {"open", "closing"} : ready' = [ready EXCEPT ![n] = r]
    /\ UNCHANGED <<ws, opened>>

ClosesOne(n) ==
    /\ IsLive(n)
    /\ ready' = [ready EXCEPT ![n] = "closed"]
    /\ ws' = 0
    /\ UNCHANGED opened

(* Every step is one of those.                                             *)
LEMMA SocketSteps ==
    ASSUME SocketTypeOK, SocketInv, [Next]_vars
    PROVE  \/ ws = 0 /\ OpenWs
           \/ \E n \in SocketId : MovesOn(n) \/ ClosesOne(n)
           \/ UNCHANGED <<ws, ready, opened>>
  <1>. USE DEF SocketTypeOK, sockVars
  <1>1. EnsureWs => (ws = 0 /\ OpenWs) \/ UNCHANGED sockVars
    BY DEF EnsureWs, SocketInv, IsLive
  <1>2. CASE Send
    BY <1>1, <1>2 DEF Send
  <1>3. ASSUME NEW c \in Call, Listen(c) \/ Unlisten(c)
        PROVE  (ws = 0 /\ OpenWs) \/ UNCHANGED <<ws, ready, opened>>
    BY <1>1, <1>3 DEF Listen, Unlisten
  <1>4. ASSUME NEW h \in OpenHandler, OnOpen(h) \/ OffOpen(h)
        PROVE  UNCHANGED <<ws, ready, opened>>
    BY <1>4 DEF OnOpen, OffOpen
  <1>5. ASSUME NEW n \in SocketId, Opens(n) \/ Closing(n)
        PROVE  MovesOn(n)
    BY <1>5 DEF Opens, Closing, MovesOn, IsLive
  <1>6. ASSUME NEW n \in SocketId, Welcomed(n)
        PROVE  UNCHANGED <<ws, ready, opened>>
    BY <1>6 DEF Welcomed
  <1>7. ASSUME NEW n \in SocketId, Closes(n)
        PROVE  ClosesOne(n)
    BY <1>7 DEF Closes, ClosesOne, IsLive
  <1>8. ASSUME NEW k \in 1 .. MaxSockets, TimerFires(k)
        PROVE  (ws = 0 /\ OpenWs) \/ UNCHANGED <<ws, ready, opened>>
    BY <1>8 DEF TimerFires
  <1>9. CASE UNCHANGED vars
    BY <1>9 DEF vars
  <1>. QED
    BY <1>2, <1>3, <1>4, <1>5, <1>6, <1>7, <1>8, <1>9 DEF Next

(* The variables of the sockets keep their types.                          *)
LEMMA SocketTypeKept ==
    SocketTypeOK /\ SocketInv /\ [Next]_vars => SocketTypeOK'
  <1> SUFFICES ASSUME SocketTypeOK, SocketInv, [Next]_vars PROVE SocketTypeOK'
    OBVIOUS
  <1>. USE BoundAssumption DEF SocketTypeOK, SocketId
  <1>1. /\ ws' \in 0 .. MaxSockets /\ opened' \in 0 .. MaxSockets
        /\ ready' \in [SocketId -> {"none", "connecting", "open", "closing", "closed"}]
    <2>1. CASE OpenWs
      BY <2>1 DEF OpenWs
    <2>2. ASSUME NEW n \in SocketId, MovesOn(n)
          PROVE  /\ ws' \in 0 .. MaxSockets /\ opened' \in 0 .. MaxSockets
                 /\ ready' \in [SocketId -> {"none", "connecting", "open",
                                            "closing", "closed"}]
      <3>1. PICK r \in {"open", "closing"} : ready' = [ready EXCEPT ![n] = r]
        BY <2>2 DEF MovesOn
      <3>. QED  BY <2>2, <3>1 DEF MovesOn
    <2>3. ASSUME NEW n \in SocketId, ClosesOne(n)
          PROVE  /\ ws' \in 0 .. MaxSockets /\ opened' \in 0 .. MaxSockets
                 /\ ready' \in [SocketId -> {"none", "connecting", "open",
                                            "closing", "closed"}]
      BY <2>3 DEF ClosesOne
    <2>4. CASE UNCHANGED <<ws, ready, opened>>
      BY <2>4
    <2>. QED  BY <2>1, <2>2, <2>3, <2>4, SocketSteps
  <1>2. clientId' \in 0 .. MaxSockets + 1
    <2>1. CASE \E n \in SocketId : Welcomed(n)
      BY <2>1 DEF Welcomed
    <2>2. CASE UNCHANGED clientId
      BY <2>2
    <2>3. ASSUME NEW c \in Call, Listen(c) \/ Unlisten(c) PROVE UNCHANGED clientId
      BY <2>3 DEF Listen, Unlisten, EnsureWs, OpenWs, sockVars
    <2>4. ASSUME NEW k \in 1 .. MaxSockets, TimerFires(k) PROVE UNCHANGED clientId
      BY <2>4 DEF TimerFires, OpenWs, sockVars
    <2>5. Send => UNCHANGED clientId
      BY DEF Send, EnsureWs, OpenWs, sockVars
    <2>6. ASSUME NEW n \in SocketId, Opens(n) \/ Closing(n) \/ Closes(n)
          PROVE  UNCHANGED clientId
      BY <2>6 DEF Opens, Closing, Closes
    <2>7. ASSUME NEW h \in OpenHandler, OnOpen(h) \/ OffOpen(h)
          PROVE  UNCHANGED clientId
      BY <2>7 DEF OnOpen, OffOpen, sockVars
    <2>8. UNCHANGED vars => UNCHANGED clientId
      BY DEF vars, sockVars
    <2>. QED  BY <2>1, <2>2, <2>3, <2>4, <2>5, <2>6, <2>7, <2>8 DEF Next
  <1>3. resumed' \in [SocketId -> 0 .. MaxSockets + 1]
    <2>1. OpenWs => resumed' \in [SocketId -> 0 .. MaxSockets + 1]
      BY DEF OpenWs
    <2>2. ASSUME NEW c \in Call, Listen(c) \/ Unlisten(c)
          PROVE  OpenWs \/ UNCHANGED resumed
      BY <2>2 DEF Listen, Unlisten, EnsureWs, sockVars
    <2>3. ASSUME NEW k \in 1 .. MaxSockets, TimerFires(k)
          PROVE  OpenWs \/ UNCHANGED resumed
      BY <2>3 DEF TimerFires, sockVars
    <2>4. Send => OpenWs \/ UNCHANGED resumed
      BY DEF Send, EnsureWs, sockVars
    <2>5. ASSUME NEW n \in SocketId, Opens(n) \/ Welcomed(n) \/ Closing(n) \/ Closes(n)
          PROVE  UNCHANGED resumed
      BY <2>5 DEF Opens, Welcomed, Closing, Closes
    <2>6. ASSUME NEW h \in OpenHandler, OnOpen(h) \/ OffOpen(h)
          PROVE  UNCHANGED resumed
      BY <2>6 DEF OnOpen, OffOpen, sockVars
    <2>7. UNCHANGED vars => UNCHANGED resumed
      BY DEF vars, sockVars
    <2>. QED  BY <2>1, <2>2, <2>3, <2>4, <2>5, <2>6, <2>7 DEF Next
  <1>. QED  BY <1>1, <1>2, <1>3

(* A socket is opened only while there is none.                            *)
LEMMA SocketKept ==
    SocketTypeOK /\ SocketInv /\ [Next]_vars => SocketInv'
  <1> SUFFICES ASSUME SocketTypeOK, SocketInv, [Next]_vars PROVE SocketInv'
    OBVIOUS
  <1>. USE BoundAssumption DEF SocketTypeOK, SocketId, SocketInv, OneSocket, IsLive
  <1>1. CASE ws = 0 /\ OpenWs
    BY <1>1 DEF OpenWs
  <1>2. ASSUME NEW n \in SocketId, MovesOn(n) PROVE SocketInv'
    BY <1>2 DEF MovesOn
  <1>3. ASSUME NEW n \in SocketId, ClosesOne(n) PROVE SocketInv'
    BY <1>3 DEF ClosesOne
  <1>4. CASE UNCHANGED <<ws, ready, opened>>
    BY <1>4
  <1>. QED  BY <1>1, <1>2, <1>3, <1>4, SocketSteps

(* Both hold in every reachable state.                                     *)
LEMMA SocketsCorrect == Spec => [](SocketTypeOK /\ SocketInv)
  <1>1. Init => SocketTypeOK /\ SocketInv
    BY BoundAssumption
       DEF Init, SocketTypeOK, SocketInv, SocketId, OneSocket, IsLive
  <1>. QED  BY <1>1, SocketTypeKept, SocketKept, PTL DEF Spec

(* There is one socket, the one that ws names, however timers, listeners   *)
(* and sends race to open it.                                              *)
THEOREM OneSocketAtATime == Spec => []OneSocket
  <1>1. SocketInv => OneSocket
    BY DEF SocketInv
  <1>. QED  BY <1>1, SocketsCorrect, PTL

-----------------------------------------------------------------------------
(* The listeners.  A call that listens has its callback in the Set that    *)
(* its unlisten function closes over, and that Set is the topic's, or was  *)
(* deleted by the unlisten function of another Set.                        *)

TopicTypeOK ==
    /\ subs \in [Topic -> Call \cup {NoSet}]
    /\ members \in [Call -> SUBSET Handler]
    /\ setOf \in [Call -> Call \cup {NoSet}]
    /\ unlistens \in [Call -> 0 .. MaxUnlistens]
    /\ evicted \in SUBSET Call
    /\ asked \in [SocketId -> SUBSET Topic]

(* Some unlisten function of a call on the topic was called again.         *)
Repeated(t) == \E d \in Call : TopicOf[d] = t /\ unlistens[d] > 1

(* Every Set belongs to one topic, on which the calls that join it listen. *)
SetsApart ==
    /\ \A t \in Topic : subs[t] # NoSet =>
          TopicOf[subs[t]] = t /\ setOf[subs[t]] # NoSet
    /\ \A c \in Call : setOf[c] # NoSet =>
          TopicOf[setOf[c]] = TopicOf[c] /\ setOf[setOf[c]] # NoSet
    /\ \A s \in evicted : setOf[s] # NoSet /\ Repeated(TopicOf[s])

ListenInv ==
    /\ SetsApart
    /\ \A c \in Call : Listening(c) =>
          /\ HandlerOf[c] \in members[setOf[c]]
          /\ Installed(c) \/ setOf[c] \in evicted

(* Two calls on one topic do not pass the same callback: the Set would     *)
(* hold it once, and the first unlisten would take it from both.           *)
OwnHandlers ==
    \A c, d \in Call :
        c # d /\ TopicOf[c] = TopicOf[d] => HandlerOf[c] # HandlerOf[d]

(* The steps that neither listen nor unlisten leave the Sets alone.        *)
LEMMA OtherTopics ==
    ASSUME TopicTypeOK, [Next]_vars, \A c \in Call : ~ Listen(c) /\ ~ Unlisten(c)
    PROVE  UNCHANGED subVars /\ asked' \in [SocketId -> SUBSET Topic]
  <1>. USE DEF TopicTypeOK
  <1>1. ASSUME NEW n \in SocketId, Opens(n)
        PROVE  UNCHANGED subVars /\ asked' \in [SocketId -> SUBSET Topic]
    BY <1>1 DEF Opens, Restore, Topics
  <1>2. ASSUME NEW n \in SocketId, Welcomed(n) \/ Closing(n) \/ Closes(n)
        PROVE  UNCHANGED <<subVars, asked>>
    BY <1>2 DEF Welcomed, Closing, Closes
  <1>3. ASSUME NEW h \in OpenHandler, OnOpen(h) \/ OffOpen(h)
        PROVE  UNCHANGED <<subVars, asked>>
    BY <1>3 DEF OnOpen, OffOpen
  <1>4. ASSUME NEW k \in 1 .. MaxSockets, TimerFires(k)
        PROVE  UNCHANGED <<subVars, asked>>
    BY <1>4 DEF TimerFires
  <1>5. Send \/ UNCHANGED vars => UNCHANGED <<subVars, asked>>
    BY DEF Send, vars
  <1>. QED  BY <1>1, <1>2, <1>3, <1>4, <1>5 DEF Next

(* The variables of the listeners keep their types.                        *)
LEMMA TopicTypeKept == TopicTypeOK /\ [Next]_vars => TopicTypeOK'
  <1> SUFFICES ASSUME TopicTypeOK, [Next]_vars PROVE TopicTypeOK'
    OBVIOUS
  <1>. USE CallAssumption DEF TopicTypeOK
  <1>1. ASSUME NEW c \in Call, Listen(c) PROVE TopicTypeOK'
    <2>1. TopicOf[c] \in Topic /\ HandlerOf[c] \in Handler
      BY DEF Handler
    <2>. QED  BY <1>1, <2>1 DEF Listen
  <1>2. ASSUME NEW c \in Call, Unlisten(c) PROVE TopicTypeOK'
    <2>1. TopicOf[c] \in Topic /\ HandlerOf[c] \in Handler
      BY DEF Handler
    <2>2. /\ setOf' = setOf /\ subs' \in [Topic -> Call \cup {NoSet}]
          /\ asked' \in [SocketId -> SUBSET Topic]
          /\ evicted' \in SUBSET Call
      BY <1>2, <2>1 DEF Unlisten
    <2>3. members' \in [Call -> SUBSET Handler]
      BY <1>2 DEF Unlisten, LeftBy
    <2>4. unlistens' \in [Call -> 0 .. MaxUnlistens]
      <3>1. /\ unlistens' = [unlistens EXCEPT ![c] = unlistens[c] + 1]
            /\ unlistens[c] + 1 \in 0 .. MaxUnlistens
        BY <1>2, BoundAssumption DEF Unlisten
      <3>. QED  BY <3>1
    <2>. QED  BY <2>2, <2>3, <2>4
  <1>3. CASE \A c \in Call : ~ Listen(c) /\ ~ Unlisten(c)
    BY <1>3, OtherTopics DEF subVars
  <1>. QED  BY <1>1, <1>2, <1>3

(* A call that listens joins the Set of its topic, or brings a new one.    *)
LEMMA ListenKeeps ==
    ASSUME TopicTypeOK, ListenInv, NEW c \in Call, Listen(c)
    PROVE  ListenInv'
  <1>. USE CallAssumption DEF TopicTypeOK
  <1>. DEFINE t == TopicOf[c]
              set == IF subs[t] = NoSet THEN c ELSE subs[t]
  <1>1. /\ t \in Topic /\ set \in Call /\ set # NoSet /\ setOf[c] = NoSet
        /\ subs' = [subs EXCEPT ![t] = set]
        /\ members' = [members EXCEPT ![set] = members[set] \cup {HandlerOf[c]}]
        /\ setOf' = [setOf EXCEPT ![c] = set]
        /\ UNCHANGED <<unlistens, evicted>>
    BY DEF Listen
  <1>2. TopicOf[set] = t /\ setOf'[set] # NoSet
    BY <1>1 DEF ListenInv, SetsApart
  <1>3. SetsApart'
    <2>1. \A u \in Topic : subs'[u] # NoSet =>
             TopicOf[subs'[u]] = u /\ setOf'[subs'[u]] # NoSet
      BY <1>1, <1>2 DEF ListenInv, SetsApart
    <2>2. \A d \in Call : setOf'[d] # NoSet =>
             TopicOf[setOf'[d]] = TopicOf[d] /\ setOf'[setOf'[d]] # NoSet
      BY <1>1, <1>2 DEF ListenInv, SetsApart
    <2>3. \A s \in evicted' : setOf'[s] # NoSet /\ Repeated(TopicOf[s])'
      BY <1>1 DEF ListenInv, SetsApart, Repeated
    <2>. QED  BY <2>1, <2>2, <2>3 DEF SetsApart
  <1>4. ASSUME NEW d \in Call, Listening(d)'
        PROVE  /\ HandlerOf[d] \in members'[setOf'[d]]
               /\ Installed(d)' \/ setOf'[d] \in evicted'
    <2>1. CASE d = c
      BY <1>1, <2>1 DEF Installed
    <2>2. CASE d # c
      <3>1. /\ Listening(d) /\ setOf'[d] = setOf[d] /\ setOf[d] \in Call
            /\ HandlerOf[d] \in members[setOf[d]] /\ TopicOf[d] \in Topic
            /\ Installed(d) \/ setOf[d] \in evicted
        BY <1>1, <1>4, <2>2 DEF ListenInv, Listening
      <3>2. members[setOf[d]] \subseteq members'[setOf[d]]
        BY <1>1, <3>1
      <3>3. Installed(d) => Installed(d)'
        BY <1>1, <3>1 DEF Installed
      <3>. QED  BY <1>1, <3>1, <3>2, <3>3
    <2>. QED  BY <2>1, <2>2
  <1>. QED  BY <1>3, <1>4 DEF ListenInv

(* An unlisten function takes its own callback only, and the topic's Set   *)
(* only when nobody is left in its own; if they are not the same, it was   *)
(* called before, or its call was cut off.                                 *)
LEMMA UnlistenKeeps ==
    ASSUME OwnHandlers, TopicTypeOK, ListenInv, NEW c \in Call, Unlisten(c)
    PROVE  ListenInv'
  <1>. USE CallAssumption DEF TopicTypeOK
  <1>. DEFINE t == TopicOf[c]
              left == members[setOf[c]] \ {HandlerOf[c]}
  <1>1. /\ t \in Topic /\ setOf[c] \in Call /\ setOf[c] # NoSet
        /\ unlistens' = [unlistens EXCEPT ![c] = unlistens[c] + 1]
        /\ members' = [members EXCEPT ![setOf[c]] = left]
        /\ setOf' = setOf
        /\ \/ /\ left = {} /\ subs' = [subs EXCEPT ![t] = NoSet]
              /\ evicted' = evicted \cup ({subs[t]} \ {setOf[c], NoSet})
           \/ left # {} /\ subs' = subs /\ evicted' = evicted
    BY DEF Unlisten, LeftBy, Emptied
  <1>2. \A u : Repeated(u) => Repeated(u)'
    BY <1>1 DEF Repeated
  <1>3. Repeated(t)' \/ setOf[c] = subs[t]
    <2>1. CASE Listening(c)
      <3>1. Installed(c) \/ Repeated(TopicOf[setOf[c]])
        BY <2>1 DEF ListenInv, SetsApart
      <3>. QED  BY <1>1, <1>2, <3>1 DEF ListenInv, SetsApart, Installed
    <2>2. CASE ~ Listening(c)
      BY <1>1, <2>2 DEF Listening, Repeated
    <2>. QED  BY <2>1, <2>2
  <1>4. SetsApart'
    <2>1. \A u \in Topic : subs'[u] # NoSet =>
             TopicOf[subs'[u]] = u /\ setOf'[subs'[u]] # NoSet
      BY <1>1 DEF ListenInv, SetsApart
    <2>2. \A d \in Call : setOf'[d] # NoSet =>
             TopicOf[setOf'[d]] = TopicOf[d] /\ setOf'[setOf'[d]] # NoSet
      BY <1>1 DEF ListenInv, SetsApart
    <2>3. ASSUME NEW s \in evicted' PROVE setOf'[s] # NoSet /\ Repeated(TopicOf[s])'
      <3>1. s \in evicted \/ (s = subs[t] /\ subs[t] \notin {setOf[c], NoSet})
        BY <1>1
      <3>2. CASE s \in evicted
        BY <1>1, <1>2, <3>2 DEF ListenInv, SetsApart
      <3>3. CASE s = subs[t] /\ subs[t] \notin {setOf[c], NoSet}
        BY <1>1, <1>3, <3>3 DEF ListenInv, SetsApart
      <3>. QED  BY <3>1, <3>2, <3>3
    <2>. QED  BY <2>1, <2>2, <2>3 DEF SetsApart
  <1>5. ASSUME NEW d \in Call, Listening(d)'
        PROVE  /\ HandlerOf[d] \in members'[setOf'[d]]
               /\ Installed(d)' \/ setOf'[d] \in evicted'
    <2>1. /\ d # c /\ Listening(d) /\ setOf[d] \in Call /\ setOf[d] # NoSet
          /\ HandlerOf[d] \in members[setOf[d]] /\ TopicOf[d] \in Topic
          /\ Installed(d) \/ setOf[d] \in evicted
      BY <1>1, <1>5 DEF ListenInv, Listening
    <2>2. CASE setOf[d] = setOf[c]
      <3>1. TopicOf[d] = t
        BY <1>1, <2>1, <2>2 DEF ListenInv, SetsApart
      <3>2. HandlerOf[d] \in left
        BY <2>1, <2>2, <3>1 DEF OwnHandlers
      <3>. QED  BY <1>1, <2>1, <2>2, <3>2 DEF Installed
    <2>3. CASE setOf[d] # setOf[c]
      <3>1. HandlerOf[d] \in members'[setOf'[d]]
        BY <1>1, <2>1, <2>3
      <3>2. Installed(d) => Installed(d)' \/ setOf[d] \in evicted'
        BY <1>1, <2>1, <2>3 DEF Installed
      <3>. QED  BY <1>1, <2>1, <3>1, <3>2
    <2>. QED  BY <2>2, <2>3
  <1>. QED  BY <1>4, <1>5 DEF ListenInv

(* Every step keeps the invariant of the listeners.                        *)
LEMMA ListenKept ==
    ASSUME OwnHandlers
    PROVE  TopicTypeOK /\ ListenInv /\ [Next]_vars => ListenInv'
  <1> SUFFICES ASSUME TopicTypeOK, ListenInv, [Next]_vars PROVE ListenInv'
    OBVIOUS
  <1>1. CASE \A c \in Call : ~ Listen(c) /\ ~ Unlisten(c)
    BY <1>1, OtherTopics
       DEF subVars, ListenInv, SetsApart, Repeated, Listening, Installed
  <1>. QED  BY <1>1, ListenKeeps, UnlistenKeeps

(* The variables of the listeners are well typed in every reachable state. *)
LEMMA TopicTypesCorrect == Spec => []TopicTypeOK
  <1>1. Init => TopicTypeOK
    BY BoundAssumption DEF Init, TopicTypeOK
  <1>. QED  BY <1>1, TopicTypeKept, PTL DEF Spec

(* As long as a call listens, its callback is in the Set of its topic, if  *)
(* no two calls on one topic pass the same callback, or that Set was       *)
(* deleted by another's unlisten function after one was called again.      *)
THEOREM ListenersReachable ==
    ASSUME OwnHandlers
    PROVE  Spec => []ListenerReachable
  <1>1. Init => ListenInv
    BY DEF Init, ListenInv, SetsApart, Listening
  <1>2. TopicTypeOK /\ ListenInv => ListenerReachable
    BY DEF TopicTypeOK, ListenInv, SetsApart, Listening, Repeated, ListenerReachable
  <1>3. TopicTypeOK /\ ListenInv /\ [Next]_vars => ListenInv'
    BY ListenKept
  <1>. QED  BY <1>1, <1>2, <1>3, TopicTypesCorrect, PTL DEF Spec

-----------------------------------------------------------------------------
(* The timers.  A timer is set when a socket closes, and a socket closes   *)
(* once: that bounds their number.                                         *)

TimerTypeOK ==
    /\ timers \subseteq 1 .. nextTimer - 1
    /\ timerVar \in 0 .. nextTimer - 1
    /\ nextTimer \in 1 .. MaxSockets + 1

TimersAreFew ==
    /\ nextTimer <= opened + 1
    /\ ws # 0 => nextTimer <= opened

TimerInv ==
    /\ TimersAreFew
    /\ ServedOrScheduled

(* A step that leaves the timers alone, and every socket it finds.         *)
LEMMA TimersUnchanged ==
    ASSUME SocketTypeOK, SocketInv, TimerTypeOK, TimerInv, UNCHANGED timerVars,
           \/ ws = 0 /\ OpenWs
           \/ UNCHANGED <<ws, opened>> /\ (Topics' \subseteq Topics \/ ws # 0)
    PROVE  TimerTypeOK' /\ TimerInv'
  <1>. USE BoundAssumption DEF SocketTypeOK, TimerTypeOK, TimerInv, timerVars
  <1>1. TimerTypeOK'
    OBVIOUS
  <1>2. TimersAreFew'
    BY DEF TimersAreFew, OpenWs
  <1>3. ServedOrScheduled'
    BY DEF ServedOrScheduled, OpenWs
  <1>. QED  BY <1>1, <1>2, <1>3

(* listen and send open a socket if there is none.                         *)
LEMMA EntryTimers ==
    ASSUME SocketTypeOK, SocketInv, TimerTypeOK, TimerInv, UNCHANGED timerVars,
           EnsureWs
    PROVE  TimerTypeOK' /\ TimerInv'
  <1>1. (ws = 0 /\ OpenWs) \/ (ws # 0 /\ UNCHANGED <<ws, opened>>)
    BY DEF EnsureWs, SocketInv, IsLive, sockVars
  <1>. QED  BY <1>1, TimersUnchanged

(* unlisten clears the last timer only when nobody is left to serve.       *)
LEMMA UnlistenTimers ==
    ASSUME SocketTypeOK, SocketInv, TopicTypeOK, TimerTypeOK, TimerInv,
           NEW c \in Call, Unlisten(c)
    PROVE  TimerTypeOK' /\ TimerInv'
  <1>1. /\ UNCHANGED <<ws, opened, nextTimer>>
        /\ subs' = subs \/ subs' = [subs EXCEPT ![TopicOf[c]] = NoSet]
    BY DEF Unlisten, sockVars
  <1>2. Topics' \subseteq Topics
    BY <1>1, CallAssumption DEF TopicTypeOK, Topics
  <1>3. CASE NobodyLeft /\ timerVar # 0
    <2>1. timers' = timers \ {timerVar} /\ timerVar' = 0
      BY <1>3 DEF Unlisten
    <2>2. Topics' = {}
      BY <1>3 DEF NobodyLeft, Topics
    <2>3. TimerTypeOK'
      BY <1>1, <2>1 DEF TimerTypeOK
    <2>4. TimersAreFew' /\ ServedOrScheduled'
      BY <1>1, <2>1, <2>2 DEF TimerInv, TimersAreFew, ServedOrScheduled
    <2>. QED  BY <2>3, <2>4 DEF TimerInv
  <1>4. CASE ~ (NobodyLeft /\ timerVar # 0)
    <2>1. UNCHANGED timerVars
      BY <1>1, <1>4 DEF Unlisten, timerVars
    <2>. QED  BY <1>1, <1>2, <2>1, TimersUnchanged
  <1>. QED  BY <1>3, <1>4

(* A socket that opens leaves the timers as they are.                      *)
LEMMA OpenTimers ==
    ASSUME SocketTypeOK, SocketInv, TimerTypeOK, TimerInv, NEW n \in SocketId, Opens(n)
    PROVE  TimerTypeOK' /\ TimerInv'
  <1>1. UNCHANGED <<ws, opened, subs, timers, timerVar, nextTimer>>
    BY DEF Opens, subVars
  <1>. QED
    BY <1>1
       DEF TimerTypeOK, TimerInv, TimersAreFew, ServedOrScheduled, Topics

(* A socket that closes while somebody listens sets a timer.               *)
LEMMA CloseTimers ==
    ASSUME SocketTypeOK, SocketInv, TimerTypeOK, TimerInv, NEW n \in SocketId, Closes(n)
    PROVE  TimerTypeOK' /\ TimerInv'
  <1>. USE BoundAssumption DEF SocketTypeOK, TimerTypeOK, TimerInv
  <1>1. /\ ws = n /\ ws' = 0 /\ opened' = opened /\ subs' = subs
    BY DEF Closes, SocketInv, OneSocket, subVars
  <1>2. nextTimer <= opened
    BY <1>1 DEF TimersAreFew, SocketId
  <1>3. CASE Reconnect /\ Topics # {}
    <2>1. /\ timers' = timers \cup {nextTimer}
          /\ timerVar' = nextTimer /\ nextTimer' = nextTimer + 1
      BY <1>3 DEF Closes
    <2>2. TimerTypeOK' /\ TimersAreFew'
      BY <1>1, <1>2, <2>1 DEF TimersAreFew
    <2>3. ServedOrScheduled'
      BY <2>1 DEF ServedOrScheduled
    <2>. QED  BY <2>2, <2>3
  <1>4. CASE ~ (Reconnect /\ Topics # {})
    <2>1. UNCHANGED timerVars
      BY <1>4 DEF Closes
    <2>2. TimerTypeOK' /\ TimersAreFew'
      BY <1>1, <1>2, <2>1 DEF timerVars, TimersAreFew
    <2>3. ServedOrScheduled'
      BY <1>1, <1>4 DEF ServedOrScheduled, Topics
    <2>. QED  BY <2>2, <2>3
  <1>. QED  BY <1>3, <1>4

(* A timer that fires opens a socket if it is still needed.                *)
LEMMA FireTimers ==
    ASSUME SocketTypeOK, SocketInv, TimerTypeOK, TimerInv,
           NEW k \in 1 .. MaxSockets, TimerFires(k)
    PROVE  TimerTypeOK' /\ TimerInv'
  <1>. USE BoundAssumption DEF SocketTypeOK, TimerTypeOK, TimerInv
  <1>1. /\ timers' = timers \ {k}
        /\ timerVar' = 0 /\ UNCHANGED <<nextTimer, subs>>
    BY DEF TimerFires, subVars
  <1>2. TimerTypeOK'
    BY <1>1
  <1>3. CASE Topics # {} /\ ws = 0
    BY <1>1, <1>2, <1>3 DEF TimerFires, OpenWs, TimersAreFew, ServedOrScheduled
  <1>4. CASE ~ (Topics # {} /\ ws = 0)
    <2>1. UNCHANGED <<ws, opened>>
      BY <1>4 DEF TimerFires, sockVars
    <2>. QED  BY <1>1, <1>2, <1>4, <2>1 DEF TimersAreFew, ServedOrScheduled, Topics
  <1>. QED  BY <1>3, <1>4

(* Every step keeps the types and the invariant of the timers.             *)
LEMMA TimersKept ==
    /\ SocketTypeOK /\ SocketInv /\ TopicTypeOK /\ TimerTypeOK /\ TimerInv
    /\ [Next]_vars
    => TimerTypeOK' /\ TimerInv'
  <1> SUFFICES ASSUME SocketTypeOK, SocketInv, TopicTypeOK, TimerTypeOK, TimerInv,
                      [Next]_vars
               PROVE  TimerTypeOK' /\ TimerInv'
    OBVIOUS
  <1>1. ASSUME NEW c \in Call, Listen(c)
        PROVE  TimerTypeOK' /\ TimerInv'
    BY <1>1, EntryTimers DEF Listen
  <1>2. CASE Send
    BY <1>2, EntryTimers DEF Send
  <1>3. ASSUME \/ \E h \in OpenHandler : OnOpen(h) \/ OffOpen(h)
               \/ \E n \in SocketId : Welcomed(n) \/ Closing(n)
               \/ UNCHANGED vars
        PROVE  TimerTypeOK' /\ TimerInv'
    <2>1. UNCHANGED <<ws, opened, subs, timerVars>>
      BY <1>3 DEF OnOpen, OffOpen, Welcomed, Closing, vars, sockVars, subVars
    <2>2. Topics' \subseteq Topics
      BY <2>1 DEF Topics
    <2>. QED  BY <2>1, <2>2, TimersUnchanged
  <1>. QED
    BY <1>1, <1>2, <1>3, UnlistenTimers, OpenTimers, CloseTimers, FireTimers DEF Next

(* Types and invariant of the timers hold in every reachable state.        *)
LEMMA TimersCorrect == Spec => [](TimerTypeOK /\ TimerInv)
  <1>1. Init => TimerTypeOK /\ TimerInv
    <2> SUFFICES ASSUME Init PROVE TimerTypeOK /\ TimerInv
      OBVIOUS
    <2>1. /\ timers = {} /\ timerVar = 0 /\ nextTimer = 1 /\ ws = 0
          /\ opened = 0 /\ Topics = {}
      BY DEF Init, Topics
    <2>. QED
      BY <2>1, BoundAssumption
         DEF TimerTypeOK, TimerInv, TimersAreFew, ServedOrScheduled
  <1>. QED  BY <1>1, SocketsCorrect, TopicTypesCorrect, TimersKept, PTL DEF Spec

(* While somebody listens and reconnecting is on, there is a socket or a   *)
(* timer, though unlisten clears the last timer and a stale one may fire.  *)
THEOREM NeverAbandoned == Spec => []ServedOrScheduled
  <1>1. TimerInv => ServedOrScheduled
    BY DEF TimerInv
  <1>. QED  BY <1>1, TimersCorrect, PTL

-----------------------------------------------------------------------------
(* The frames given to send().  They are numbered; posted and pending      *)
(* together hold every one of them, in order.                              *)

SendTypeOK ==
    /\ pending \in Seq(1 .. MaxSends)
    /\ posted \in Seq(1 .. MaxSends)
    /\ sends \in 0 .. MaxSends

NothingWaits == IsOpen => pending = << >>

AllInOrder ==
    /\ Len(posted) + Len(pending) = sends
    /\ \A i \in 1 .. Len(posted) : posted[i] = i
    /\ \A i \in 1 .. Len(pending) : pending[i] = Len(posted) + i

(* Frames that move from one buffer to the other stay in order.            *)
LEMMA Concatenated ==
    ASSUME NEW S, NEW a \in Seq(S), NEW b \in Seq(S)
    PROVE  /\ a \o b \in Seq(S)
           /\ Len(a \o b) = Len(a) + Len(b)
           /\ \A i \in 1 .. Len(a) : (a \o b)[i] = a[i]
           /\ \A i \in Len(a) + 1 .. Len(a) + Len(b) : (a \o b)[i] = b[i - Len(a)]
  OBVIOUS

(* The initial buffers are empty.                                          *)
LEMMA InitSends == Init => SendTypeOK /\ NothingWaits /\ AllInOrder
  <1> SUFFICES ASSUME Init PROVE SendTypeOK /\ NothingWaits /\ AllInOrder
    OBVIOUS
  <1>1. pending = << >> /\ posted = << >> /\ sends = 0
    BY DEF Init
  <1>. QED  BY <1>1, BoundAssumption DEF SendTypeOK, NothingWaits, AllInOrder

(* send() puts its frame behind all others, in one buffer or the other.    *)
LEMMA SendSends ==
    ASSUME SocketTypeOK, SocketInv, SendTypeOK, NothingWaits, AllInOrder, Send
    PROVE  SendTypeOK' /\ NothingWaits' /\ AllInOrder'
  <1>. USE BoundAssumption DEF SendTypeOK
  <1>1. /\ sends' = sends + 1 /\ sends' \in 1 .. MaxSends
        /\ Append(pending, sends + 1) \in Seq(1 .. MaxSends)
        /\ Len(Append(pending, sends + 1)) = Len(pending) + 1
        /\ \A i \in 1 .. Len(pending) : Append(pending, sends + 1)[i] = pending[i]
        /\ Append(pending, sends + 1)[Len(pending) + 1] = sends + 1
    BY DEF Send
  <1>2. CASE IsOpen
    <2>. DEFINE one == Append(pending, sends + 1)
    <2>1. pending = << >> /\ posted' = posted \o one /\ pending' = << >>
      BY <1>2 DEF Send, Flush, NothingWaits
    <2>2. Len(one) = 1 /\ one[1] = sends + 1 /\ one \in Seq(1 .. MaxSends)
      BY <1>1, <2>1
    <2>. HIDE DEF one
    <2>4. Len(posted) = sends /\ Len(posted) \in Nat /\ Len(pending') = 0
      BY <2>1 DEF AllInOrder
    <2>7. /\ posted' \in Seq(1 .. MaxSends)
          /\ Len(posted') = Len(posted) + Len(one)
          /\ \A i \in 1 .. Len(posted) : posted'[i] = posted[i]
          /\ \A i \in Len(posted) + 1 .. Len(posted) + Len(one) :
                posted'[i] = one[i - Len(posted)]
      BY <2>1, <2>2, Concatenated
    <2>8. posted'[sends + 1] = one[1]
      BY <2>2, <2>4, <2>7
    <2>3. /\ posted' \in Seq(1 .. MaxSends) /\ Len(posted') = Len(posted) + 1
          /\ \A i \in 1 .. Len(posted) : posted'[i] = posted[i]
          /\ posted'[Len(posted) + 1] = sends + 1
      BY <2>2, <2>4, <2>7, <2>8
    <2>5. SendTypeOK' /\ NothingWaits'
      BY <1>1, <2>1, <2>3 DEF NothingWaits
    <2>9. \A i \in 1 .. Len(posted') : posted'[i] = i
      BY <2>3, <2>4 DEF AllInOrder
    <2>6. AllInOrder'
      BY <1>1, <2>3, <2>4, <2>9 DEF AllInOrder
    <2>. QED  BY <2>5, <2>6
  <1>3. CASE ~ IsOpen
    <2>1. posted' = posted /\ pending' = Append(pending, sends + 1)
      BY <1>3 DEF Send, Flush
    <2>2. ~ IsOpen'
      BY <1>3 DEF Send, EnsureWs, OpenWs, IsOpen, sockVars, SocketTypeOK, SocketId
    <2>3. Len(pending) \in Nat /\ Len(posted) \in Nat
      OBVIOUS
    <2>5. ASSUME NEW i \in 1 .. Len(pending')
          PROVE  pending'[i] = Len(posted) + i
      <3>1. i \in 1 .. Len(pending) \/ i = Len(pending) + 1
        BY <1>1, <2>1, <2>3
      <3>2. CASE i \in 1 .. Len(pending)
        BY <1>1, <2>1, <3>2 DEF AllInOrder
      <3>3. CASE i = Len(pending) + 1
        <4>1. pending'[i] = sends + 1
          BY <1>1, <2>1, <3>3
        <4>2. Len(posted) + Len(pending) = sends
          BY DEF AllInOrder
        <4>3. Len(posted) + (Len(pending) + 1) = sends + 1
          BY <2>3, <4>2
        <4>4. i = Len(pending) + 1
          BY <3>3
        <4>5. pending'[i] = Len(posted) + (Len(pending) + 1)
          BY <4>1, <4>3, Zenon
        <4>. QED  BY <4>4, <4>5, Zenon
      <3>. QED  BY <3>1, <3>2, <3>3
    <2>4. AllInOrder'
      BY <1>1, <2>1, <2>3, <2>5 DEF AllInOrder
    <2>. QED  BY <1>1, <2>1, <2>2, <2>4 DEF NothingWaits
  <1>. QED  BY <1>2, <1>3

(* A socket that opens takes all that waited.                              *)
LEMMA OpenSends ==
    ASSUME SocketTypeOK, SocketInv, SendTypeOK, NothingWaits, AllInOrder,
           NEW n \in SocketId, Opens(n)
    PROVE  SendTypeOK' /\ NothingWaits' /\ AllInOrder'
  <1>. USE DEF SendTypeOK
  <1>1. ws = n
    BY DEF Opens, SocketInv, OneSocket
  <1>2. posted' = posted \o pending /\ pending' = << >> /\ sends' = sends
    BY <1>1 DEF Opens
  <1>3. /\ posted' \in Seq(1 .. MaxSends) /\ Len(posted') = Len(posted) + Len(pending)
        /\ \A i \in 1 .. Len(posted) : posted'[i] = posted[i]
        /\ \A i \in Len(posted) + 1 .. Len(posted) + Len(pending) :
              posted'[i] = pending[i - Len(posted)]
    BY <1>2, Concatenated
  <1>4. Len(pending) \in Nat /\ Len(posted) \in Nat
    OBVIOUS
  <1>5. \A i \in 1 .. Len(posted') : posted'[i] = i
    BY <1>3, <1>4 DEF AllInOrder
  <1>. QED  BY <1>2, <1>3, <1>5 DEF NothingWaits, AllInOrder

(* No other step touches the buffers or opens a socket.                    *)
LEMMA OtherSends ==
    ASSUME SocketTypeOK, SocketInv, SendTypeOK, NothingWaits, AllInOrder,
           [Next]_vars, ~ Send, \A n \in SocketId : ~ Opens(n)
    PROVE  SendTypeOK' /\ NothingWaits' /\ AllInOrder'
  <1>1. UNCHANGED sendVars /\ (IsOpen' => IsOpen)
    <2>. USE DEF SocketTypeOK, SocketId, IsOpen, sockVars
    <2>1. OpenWs => ~ IsOpen'
      BY BoundAssumption DEF OpenWs
    <2>2. ASSUME NEW c \in Call, Listen(c)
          PROVE  UNCHANGED sendVars /\ (IsOpen' => IsOpen)
      BY <2>1, <2>2 DEF Listen, EnsureWs
    <2>3. ASSUME NEW c \in Call, Unlisten(c)
          PROVE  UNCHANGED sendVars /\ (IsOpen' => IsOpen)
      BY <2>3 DEF Unlisten
    <2>4. ASSUME NEW h \in OpenHandler, OnOpen(h) \/ OffOpen(h)
          PROVE  UNCHANGED sendVars /\ (IsOpen' => IsOpen)
      BY <2>4 DEF OnOpen, OffOpen
    <2>5. ASSUME NEW n \in SocketId, Welcomed(n)
          PROVE  UNCHANGED sendVars /\ (IsOpen' => IsOpen)
      BY <2>5 DEF Welcomed
    <2>6. ASSUME NEW n \in SocketId, Closing(n)
          PROVE  UNCHANGED sendVars /\ (IsOpen' => IsOpen)
      BY <2>6 DEF Closing
    <2>9. ASSUME NEW n \in SocketId, Closes(n)
          PROVE  UNCHANGED sendVars /\ (IsOpen' => IsOpen)
      BY <2>9 DEF Closes
    <2>7. ASSUME NEW k \in 1 .. MaxSockets, TimerFires(k)
          PROVE  UNCHANGED sendVars /\ (IsOpen' => IsOpen)
      BY <2>1, <2>7 DEF TimerFires
    <2>8. UNCHANGED vars => UNCHANGED sendVars /\ (IsOpen' => IsOpen)
      BY DEF vars
    <2>. QED  BY <2>2, <2>3, <2>4, <2>5, <2>6, <2>7, <2>8, <2>9 DEF Next
  <1>. QED
    BY <1>1 DEF sendVars, SendTypeOK, NothingWaits, AllInOrder

(* Types and order of the buffers hold in every reachable state.           *)
LEMMA SendsCorrect == Spec => [](SendTypeOK /\ NothingWaits /\ AllInOrder)
  <1>1. /\ SocketTypeOK /\ SocketInv /\ SendTypeOK /\ NothingWaits /\ AllInOrder
        /\ [Next]_vars
        => SendTypeOK' /\ NothingWaits' /\ AllInOrder'
    BY SendSends, OpenSends, OtherSends
  <1>. QED  BY <1>1, InitSends, SocketsCorrect, PTL DEF Spec

(* What send() was given leaves in order and once, and nothing waits while *)
(* there is an open socket.                                                *)
THEOREM SendsOrdered == Spec => []SendsInOrder
  <1>1. SendTypeOK /\ NothingWaits /\ AllInOrder => SendsInOrder
    <2> SUFFICES ASSUME SendTypeOK, NothingWaits, AllInOrder,
                        NEW i \in DOMAIN (posted \o pending),
                        NEW j \in DOMAIN (posted \o pending), i < j
                 PROVE  (posted \o pending)[i] < (posted \o pending)[j]
      BY DEF SendsInOrder, NothingWaits
    <2>. USE DEF SendTypeOK
    <2>1. /\ Len(posted) \in Nat /\ Len(pending) \in Nat
          /\ DOMAIN (posted \o pending) = 1 .. Len(posted) + Len(pending)
      BY Concatenated
    <2>2. \A k \in DOMAIN (posted \o pending) : (posted \o pending)[k] = k
      BY <2>1, Concatenated DEF AllInOrder
    <2>. QED  BY <2>1, <2>2
  <1>. QED  BY <1>1, SendsCorrect, PTL

-----------------------------------------------------------------------------
(* The onOpen handlers.                                                    *)

OpenTypeOK ==
    /\ openHandlers \in SUBSET OpenHandler
    /\ fired \in [SocketId -> BOOLEAN]
    /\ runs \in [OpenHandler -> [SocketId -> 0 .. 2]]
    /\ joined \in [OpenHandler -> Meeting]

(* A socket is released when it opens on a resume, and never before the    *)
(* page has an id, which it keeps.                                         *)
ReleaseInv ==
    \A n \in SocketId :
        /\ fired[n] => n <= opened /\ clientId # 0
        /\ resumed[n] # 0 => clientId # 0
        /\ ready[n] = "open" /\ resumed[n] # 0 => fired[n]

(* Every handler was there before the socket that is released next, if     *)
(* there is one, and has run as HandlersRunPerSocket counts.               *)
CountInv ==
    /\ \A h \in OpenHandler \ openHandlers :
          \A n \in SocketId : runs[h][n] = 0
    /\ \A h \in openHandlers :
          /\ joined[h].from # 0
          /\ ws # 0 /\ ready[ws] \in {"connecting", "open"} /\ ~ fired[ws]
                => joined[h].from <= ws
          /\ joined[h].from <= opened + 1
    /\ \A h \in openHandlers, n \in SocketId :
          runs[h][n] = (IF n = joined[h].at THEN 1 ELSE 0)
                          + (IF n >= joined[h].from /\ fired[n] THEN 1 ELSE 0)

OpenInv == ReleaseInv /\ CountInv

(* Nothing has fired or run at the start.                                  *)
LEMMA InitOpen == Init => OpenTypeOK /\ OpenInv
  BY BoundAssumption
     DEF Init, OpenTypeOK, OpenInv, ReleaseInv, CountInv, Meeting, SocketId

(* fireOpen runs every handler, for a socket that has not fired yet.       *)
LEMMA FireOpens ==
    ASSUME SocketTypeOK, SocketInv, OpenTypeOK, OpenInv,
           NEW n \in SocketId, FireOpen(n), ready[n] \in {"connecting", "open"},
           UNCHANGED <<ws, opened, openHandlers, joined>>,
           \A m \in SocketId : m # n => ready'[m] = ready[m]
    PROVE  /\ OpenTypeOK' /\ CountInv'
           /\ fired' = [fired EXCEPT ![n] = TRUE]
  <1>. USE BoundAssumption DEF OpenTypeOK, SocketTypeOK, SocketId
  <1>1. ws = n /\ opened = n
    BY DEF SocketInv, OneSocket
  <1>2. CASE fired[n]
    BY <1>1, <1>2 DEF FireOpen, OpenInv, CountInv
  <1>3. CASE ~ fired[n]
    <2>1. fired' = [fired EXCEPT ![n] = TRUE]
      BY <1>3 DEF FireOpen
    <2>2. runs' = [h \in OpenHandler |->
                      IF h \in openHandlers
                        THEN [runs[h] EXCEPT ![n] = runs[h][n] + 1] ELSE runs[h]]
      BY <1>3 DEF FireOpen, RunAll
    <2>3. \A h \in OpenHandler, m \in SocketId :
             runs'[h][m] = IF h \in openHandlers /\ m = n
                             THEN runs[h][n] + 1 ELSE runs[h][m]
      BY <2>2
    <2>4. \A h \in openHandlers : joined[h].from <= n
      BY <1>1, <1>3 DEF OpenInv, CountInv
    <2>5. ASSUME NEW h \in openHandlers, NEW m \in SocketId
          PROVE  runs'[h][m] =
                    (IF m = joined[h].at THEN 1 ELSE 0)
                      + (IF m >= joined[h].from /\ fired'[m] THEN 1 ELSE 0)
      <3>1. /\ h \in OpenHandler /\ runs[h][m] \in Nat
            /\ runs[h][m] = (IF m = joined[h].at THEN 1 ELSE 0)
                              + (IF m >= joined[h].from /\ fired[m] THEN 1 ELSE 0)
        BY DEF OpenInv, CountInv
      <3>2. CASE m = n
        BY <1>3, <2>1, <2>3, <2>4, <3>1, <3>2 DEF Meeting
      <3>3. CASE m # n
        BY <2>1, <2>3, <3>1, <3>3
      <3>. QED  BY <3>2, <3>3
    <2>6. CountInv'
      <3>1. \A h \in OpenHandler \ openHandlers' : \A m \in SocketId : runs'[h][m] = 0
        BY <2>3 DEF OpenInv, CountInv
      <3>2. \A h \in openHandlers' :
               /\ joined'[h].from # 0 /\ joined'[h].from <= opened' + 1
               /\ ~ (ws' # 0 /\ ~ fired'[ws'])
        BY <1>1, <2>1 DEF OpenInv, CountInv
      <3>. QED  BY <2>5, <3>1, <3>2 DEF CountInv
    <2>7. ASSUME NEW h \in OpenHandler PROVE runs'[h] \in [SocketId -> 0 .. 2]
      <3>1. CASE h \notin openHandlers
        BY <2>2, <3>1
      <3>2. CASE h \in openHandlers
        <4>1. runs[h][n] + 1 \in 0 .. 2
          <5>1. runs[h][n] \in Nat /\ runs'[h][n] = runs[h][n] + 1
            BY <2>3, <3>2
          <5>2. runs'[h][n] \in 0 .. 2
            <6>. DEFINE a == IF n = joined[h].at THEN 1 ELSE 0
                        b == IF n >= joined[h].from /\ fired'[n] THEN 1 ELSE 0
            <6>1. runs'[h][n] = a + b
              BY <2>5, <3>2
            <6>2. a \in 0 .. 1 /\ b \in 0 .. 1
              OBVIOUS
            <6>. HIDE DEF a, b
            <6>. QED  BY <6>1, <6>2
          <5>. QED  BY <5>1, <5>2
        <4>. QED  BY <2>2, <3>2, <4>1
      <3>. QED  BY <3>1, <3>2
    <2>8. OpenTypeOK'
      BY <2>1, <2>2, <2>7
    <2>. QED  BY <2>1, <2>6, <2>8
  <1>. QED  BY <1>2, <1>3

(* The open event releases a socket whose url had an id, and the welcome   *)
(* any socket; both know an id by then.                                    *)
LEMMA OpenReleases ==
    ASSUME SocketTypeOK, SocketInv, OpenTypeOK, OpenInv,
           NEW n \in SocketId, Opens(n) \/ Welcomed(n)
    PROVE  OpenTypeOK' /\ OpenInv'
  <1>. USE BoundAssumption DEF OpenTypeOK, SocketTypeOK, SocketId
  <1>1. /\ ready[n] \in {"connecting", "open"} /\ UNCHANGED <<ws, opened, resumed>>
        /\ ready' = ready \/ ready' = [ready EXCEPT ![n] = "open"]
        /\ UNCHANGED <<openHandlers, joined>>
        /\ clientId' # 0 \/ clientId' = clientId
        /\ clientId # 0 => clientId' # 0
    BY DEF Opens, Welcomed
  <1>2. n <= opened
    BY <1>1 DEF SocketInv, OneSocket
  <1>3. CASE FireOpen(n) /\ clientId' # 0
    <2>1. /\ OpenTypeOK' /\ CountInv'
          /\ fired' = [fired EXCEPT ![n] = TRUE]
      BY <1>1, <1>3, FireOpens
    <2>2. ReleaseInv'
      BY <1>1, <1>2, <1>3, <2>1 DEF OpenInv, ReleaseInv
    <2>. QED  BY <2>1, <2>2 DEF OpenInv
  <1>4. CASE ~ (FireOpen(n) /\ clientId' # 0)
    <2>1. /\ Opens(n) /\ clientId = 0 /\ UNCHANGED <<fired, runs, clientId>>
          /\ ready[n] = "connecting" /\ ready' = [ready EXCEPT ![n] = "open"]
      BY <1>4 DEF Opens, Welcomed
    <2>2. ws = n
      BY <1>1 DEF SocketInv, OneSocket
    <2>3. ReleaseInv'
      BY <1>1, <2>1 DEF OpenInv, ReleaseInv
    <2>4. CountInv'
      BY <1>1, <2>1, <2>2 DEF OpenInv, CountInv
    <2>. QED  BY <1>1, <2>1, <2>3, <2>4 DEF OpenInv
  <1>. QED  BY <1>3, <1>4

(* A handler that comes runs once for an open socket, and not otherwise.   *)
LEMMA ComingHandler ==
    ASSUME SocketTypeOK, SocketInv, OpenTypeOK, OpenInv,
           NEW h \in OpenHandler, OnOpen(h)
    PROVE  OpenTypeOK' /\ OpenInv'
  <1>. USE BoundAssumption DEF OpenTypeOK, SocketTypeOK, SocketId
  <1>. DEFINE at == IF IsOpen THEN ws ELSE 0
  <1>1. /\ h \notin openHandlers /\ fired' = fired /\ UNCHANGED sockVars
        /\ openHandlers' = openHandlers \cup {h}
        /\ joined' = [joined EXCEPT ![h] = [at |-> at, from |-> FirstToFire]]
    BY DEF OnOpen
  <1>2. /\ at \in 0 .. MaxSockets /\ FirstToFire \in 1 .. MaxSockets + 1
        /\ FirstToFire <= opened + 1
        /\ \A n \in SocketId : n >= FirstToFire => ~ fired[n]
        /\ ws # 0 /\ ready[ws] \in {"connecting", "open"} /\ ~ fired[ws]
             => FirstToFire <= ws
    BY DEF FirstToFire, IsOpen, SocketInv, OpenInv, ReleaseInv
  <1>3. \A n \in SocketId : runs[h][n] = 0
    BY <1>1 DEF OpenInv, CountInv
  <1>4. /\ \A g \in OpenHandler : g # h => runs'[g] = runs[g]
        /\ \A n \in SocketId : runs'[h][n] = IF n = at THEN 1 ELSE 0
        /\ runs' \in [OpenHandler -> [SocketId -> 0 .. 2]]
    <2>1. CASE IsOpen
      <3>1. /\ ws \in SocketId
            /\ runs' = [runs EXCEPT ![h] = [runs[h] EXCEPT ![ws] = runs[h][ws] + 1]]
        BY <2>1 DEF OnOpen, IsOpen
      <3>2. runs[h][ws] + 1 = 1
        BY <1>3, <3>1
      <3>3. [runs[h] EXCEPT ![ws] = 1] \in [SocketId -> 0 .. 2]
        BY <3>1
      <3>. QED  BY <1>3, <2>1, <3>1, <3>2, <3>3
    <2>2. CASE ~ IsOpen
      BY <1>3, <2>2 DEF OnOpen
    <2>. QED  BY <2>1, <2>2
  <1>. HIDE DEF at
  <1>5. /\ joined'[h].at = at /\ joined'[h].from = FirstToFire
        /\ \A g \in OpenHandler : g # h => joined'[g] = joined[g]
        /\ joined' \in [OpenHandler -> Meeting]
    BY <1>1, <1>2 DEF Meeting
  <1>6. OpenTypeOK'
    BY <1>1, <1>4, <1>5
  <1>7. ReleaseInv'
    BY <1>1 DEF OpenInv, ReleaseInv, sockVars
  <1>8. CountInv'
    <2>1. \A g \in OpenHandler \ openHandlers' : \A n \in SocketId : runs'[g][n] = 0
      BY <1>1, <1>4 DEF OpenInv, CountInv
    <2>2. \A g \in openHandlers' :
             /\ joined'[g].from # 0
             /\ ws # 0 /\ ready[ws] \in {"connecting", "open"} /\ ~ fired[ws]
                   => joined'[g].from <= ws
             /\ joined'[g].from <= opened + 1
      BY <1>1, <1>2, <1>5 DEF OpenInv, CountInv
    <2>3. ASSUME NEW g \in openHandlers', NEW n \in SocketId
          PROVE  runs'[g][n] =
                    (IF n = joined'[g].at THEN 1 ELSE 0)
                      + (IF n >= joined'[g].from /\ fired[n] THEN 1 ELSE 0)
      <3>1. CASE g = h
        BY <1>2, <1>4, <1>5, <3>1
      <3>2. CASE g # h
        BY <1>1, <1>4, <1>5, <3>2 DEF OpenInv, CountInv
      <3>. QED  BY <3>1, <3>2
    <2>. QED  BY <1>1, <2>1, <2>2, <2>3 DEF CountInv, sockVars
  <1>. QED  BY <1>6, <1>7, <1>8 DEF OpenInv

(* A handler that leaves is forgotten.                                     *)
LEMMA LeavingHandler ==
    ASSUME OpenTypeOK, OpenInv, NEW h \in OpenHandler, OffOpen(h)
    PROVE  OpenTypeOK' /\ OpenInv'
  <1>. USE DEF OpenTypeOK
  <1>1. /\ UNCHANGED sockVars /\ fired' = fired
        /\ openHandlers' = openHandlers \ {h}
        /\ joined' = [joined EXCEPT ![h] = [at |-> 0, from |-> 0]]
        /\ runs' = [runs EXCEPT ![h] = [n \in SocketId |-> 0]]
    BY DEF OffOpen
  <1>2. [at |-> 0, from |-> 0] \in Meeting
    BY BoundAssumption DEF Meeting
  <1>3. OpenTypeOK'
    BY <1>1, <1>2
  <1>4. ReleaseInv'
    BY <1>1 DEF OpenInv, ReleaseInv, sockVars
  <1>5. CountInv'
    BY <1>1 DEF OpenInv, CountInv, sockVars
  <1>. QED  BY <1>3, <1>4, <1>5 DEF OpenInv

(* A socket that is opened, closes or begins to releases nothing.          *)
LEMMA OtherRelease ==
    ASSUME SocketTypeOK, SocketInv, OpenTypeOK, OpenInv, UNCHANGED openVars,
           \/ ws = 0 /\ OpenWs
           \/ \E n \in SocketId : Closing(n) \/ Closes(n)
           \/ UNCHANGED sockVars
    PROVE  OpenTypeOK' /\ OpenInv'
  <1>. USE BoundAssumption DEF OpenTypeOK, SocketTypeOK, SocketId, openVars
  <1>1. OpenTypeOK'
    OBVIOUS
  <1>2. CASE ws = 0 /\ OpenWs
    BY <1>1, <1>2 DEF OpenWs, OpenInv, ReleaseInv, CountInv, Meeting
  <1>3. ASSUME NEW n \in SocketId, Closing(n) \/ Closes(n)
        PROVE  OpenInv'
    <2>1. PICK r \in {"closing", "closed"} :
             /\ ready' = [ready EXCEPT ![n] = r]
             /\ ws' = ws \/ ws' = 0
             /\ UNCHANGED <<opened, resumed, clientId>>
      BY <1>3 DEF Closing, Closes
    <2>2. ReleaseInv'
      BY <2>1 DEF OpenInv, ReleaseInv
    <2>3. ws' # 0 /\ ready'[ws'] \in {"connecting", "open"}
             => ws' = ws /\ ready[ws] \in {"connecting", "open"}
      BY <2>1
    <2>4. CountInv'
      BY <2>1, <2>3 DEF OpenInv, CountInv
    <2>. QED  BY <2>2, <2>4 DEF OpenInv
  <1>4. CASE UNCHANGED sockVars
    BY <1>4 DEF OpenInv, ReleaseInv, CountInv, sockVars
  <1>. QED  BY <1>1, <1>2, <1>3, <1>4

(* Every step keeps the types and the invariant of the handlers.           *)
LEMMA OpenKept ==
    SocketTypeOK /\ SocketInv /\ OpenTypeOK /\ OpenInv /\ [Next]_vars
        => OpenTypeOK' /\ OpenInv'
  <1> SUFFICES ASSUME SocketTypeOK, SocketInv, OpenTypeOK, OpenInv, [Next]_vars
               PROVE  OpenTypeOK' /\ OpenInv'
    OBVIOUS
  <1>1. EnsureWs => (ws = 0 /\ OpenWs) \/ UNCHANGED sockVars
    BY DEF EnsureWs, SocketInv, IsLive
  <1>2. ASSUME \/ Send
               \/ \E c \in Call : Listen(c) \/ Unlisten(c)
               \/ \E n \in SocketId : Closing(n) \/ Closes(n)
               \/ \E k \in 1 .. MaxSockets : TimerFires(k)
               \/ UNCHANGED vars
        PROVE  /\ UNCHANGED openVars
               /\ \/ ws = 0 /\ OpenWs
                  \/ \E n \in SocketId : Closing(n) \/ Closes(n)
                  \/ UNCHANGED sockVars
    BY <1>1, <1>2 DEF Send, Listen, Unlisten, Closing, Closes, TimerFires, vars
  <1>. QED
    BY <1>2, OtherRelease, OpenReleases, ComingHandler, LeavingHandler DEF Next

(* Types and invariant of the handlers hold in every reachable state.      *)
LEMMA OpenCorrect == Spec => [](OpenTypeOK /\ OpenInv)
  BY InitOpen, OpenKept, SocketsCorrect, PTL DEF Spec

(* For every socket, a handler runs as often as it should: once when the   *)
(* socket is released if it was there by then, which takes an id and on a  *)
(* resume comes with the open event, and once if the socket was open when  *)
(* the handler came.                                                       *)
THEOREM HandlersCounted == Spec => []HandlersRunPerSocket
  <1>1. OpenInv => HandlersRunPerSocket
    BY DEF OpenInv, ReleaseInv, CountInv, HandlersRunPerSocket
  <1>. QED  BY <1>1, OpenCorrect, PTL

-----------------------------------------------------------------------------
(* Every variable of the client keeps its type; that timers and runs stay  *)
(* within their bounds rests on the invariants above.                      *)
THEOREM TypeCorrect == Spec => []TypeOK
  <1>1. SocketTypeOK /\ TopicTypeOK /\ SendTypeOK /\ TimerTypeOK /\ OpenTypeOK
        => TypeOK
    BY DEF SocketTypeOK, TopicTypeOK, SendTypeOK, TimerTypeOK, OpenTypeOK, TypeOK
  <1>. QED
    BY <1>1, SocketsCorrect, TopicTypesCorrect, SendsCorrect, TimersCorrect,
       OpenCorrect, PTL
=============================================================================
