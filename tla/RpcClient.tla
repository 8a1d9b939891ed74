------------------------------ MODULE RpcClient ------------------------------
(***************************************************************************)
(* The TypeScript client that draad ships with every generated API:        *)
(* defaultRpc in crates/draad-codegen/src/rpc_runtime.ts.  It keeps one    *)
(* WebSocket for events and application frames, opens it on demand,        *)
(* restores subscriptions when it opens, and reconnects with backoff.  The *)
(* delays of the timers are left out: a timer may fire whenever it is set. *)
(*                                                                         *)
(* JavaScript runs one task at a time, so every entry point and every      *)
(* event handler is one action.  The browser moves a socket from state to  *)
(* state and fires the matching event in the same task.                    *)
(***************************************************************************)
EXTENDS Naturals, Sequences, FiniteSets

CONSTANTS
    Call,          \* calls of listen(); each returns an unlisten function
    Topic,
    TopicOf,       \* the topic of each call
    HandlerOf,     \* the callback passed to each call
    OpenHandler,   \* callbacks passed to onOpen()
    NoSet,         \* "subs has no entry"
    MaxSockets,    \* bound on the sockets the client opens
    MaxSends,      \* bound on the calls of send()
    MaxUnlistens,  \* bound on the calls of one unlisten function
    Reconnect      \* opts.reconnect !== false

Handler == {HandlerOf[c] : c \in Call}

ASSUME CallAssumption ==
    /\ TopicOf \in [Call -> Topic]
    /\ NoSet \notin Call
ASSUME BoundAssumption ==
    MaxSockets \in Nat /\ MaxSends \in Nat /\ MaxUnlistens \in Nat
ASSUME OptionAssumption == Reconnect \in BOOLEAN

VARIABLES
    ws,          \* the variable ws: the socket it refers to, 0 if undefined
    ready,       \* readyState of every socket
    opened,      \* how many sockets were created
    resumed,     \* resumed[n]: the ?resume= id in the url of socket n, 0 if none
    clientId,    \* the client id; 0 is null
    subs,        \* topic -> the call that created its Set, or NoSet
    members,     \* the Set created by a call: the callbacks in it
    setOf,       \* the Set that a call's unlisten function closes over
    unlistens,   \* how often a call's unlisten function was called
    evicted,     \* history: Sets deleted by the unlisten function of another Set
    asked,       \* history: the topics whose last frame on socket n subscribes
    pending,     \* pendingSends
    posted,      \* history: the application frames given to an open socket
    sends,       \* how many times send() was called
    timers,      \* the setTimeout timers that have not fired
    timerVar,    \* the variable reconnectTimer; 0 if undefined
    nextTimer,
    openHandlers,
    fired,       \* firedOpen of every socket
    runs,        \* history: runs[h][n] times h ran for socket n since it came
    joined       \* history: the sockets h met when it came

sockVars  == <<ws, ready, opened, resumed, clientId>>
subVars   == <<subs, members, setOf, unlistens, evicted>>
sendVars  == <<pending, posted, sends>>
timerVars == <<timers, timerVar, nextTimer>>
openVars  == <<openHandlers, fired, runs, joined>>
vars == <<sockVars, subVars, asked, sendVars, timerVars, openVars>>

SocketId == 1 .. MaxSockets

Topics == {t \in Topic : subs[t] # NoSet}     \* subs.keys()

IsOpen == ws # 0 /\ ready[ws] = "open"

(* Call c was made, and its unlisten function was not called yet.          *)
Listening(c) == setOf[c] # NoSet /\ unlistens[c] = 0

(* The Set that c joined is still the one of its topic.                    *)
Installed(c) == subs[TopicOf[c]] = setOf[c]

(* What a handler met: the open socket for which it ran at once, if any,   *)
(* and the first socket whose fireOpen was still to come; 0 if none.       *)
Meeting == [at : 0 .. MaxSockets, from : 0 .. MaxSockets + 1]

TypeOK ==
    /\ ws \in 0 .. MaxSockets
    /\ ready \in [SocketId -> {"none", "connecting", "open", "closing", "closed"}]
    /\ opened \in 0 .. MaxSockets
    /\ resumed \in [SocketId -> 0 .. MaxSockets + 1]
    /\ clientId \in 0 .. MaxSockets + 1
    /\ subs \in [Topic -> Call \cup {NoSet}]
    /\ members \in [Call -> SUBSET Handler]
    /\ setOf \in [Call -> Call \cup {NoSet}]
    /\ unlistens \in [Call -> 0 .. MaxUnlistens]
    /\ evicted \in SUBSET Call
    /\ asked \in [SocketId -> SUBSET Topic]
    /\ pending \in Seq(1 .. MaxSends)
    /\ posted \in Seq(1 .. MaxSends)
    /\ sends \in 0 .. MaxSends
    /\ timers \subseteq 1 .. nextTimer - 1
    /\ timerVar \in 0 .. nextTimer - 1
    /\ nextTimer \in 1 .. MaxSockets + 1
    /\ openHandlers \in SUBSET OpenHandler
    /\ fired \in [SocketId -> BOOLEAN]
    /\ runs \in [OpenHandler -> [SocketId -> 0 .. 2]]
    /\ joined \in [OpenHandler -> Meeting]

(* readStoredClientId: a tab that was reloaded starts with an id.  Socket  *)
(* n that resumes nothing is given the id n; MaxSockets + 1 is the stored. *)
Init ==
    /\ ws = 0
    /\ ready = [n \in SocketId |-> "none"]
    /\ opened = 0
    /\ resumed = [n \in SocketId |-> 0]
    /\ clientId \in {0, MaxSockets + 1}
    /\ subs = [t \in Topic |-> NoSet]
    /\ members = [c \in Call |-> {}]
    /\ setOf = [c \in Call |-> NoSet]
    /\ unlistens = [c \in Call |-> 0]
    /\ evicted = {}
    /\ asked = [n \in SocketId |-> {}]
    /\ pending = << >>
    /\ posted = << >>
    /\ sends = 0
    /\ timers = {}
    /\ timerVar = 0
    /\ nextTimer = 1
    /\ openHandlers = {}
    /\ fired = [n \in SocketId |-> FALSE]
    /\ runs = [h \in OpenHandler |-> [n \in SocketId |-> 0]]
    /\ joined = [h \in OpenHandler |-> [at |-> 0, from |-> 0]]

-----------------------------------------------------------------------------
(* Fault: the url does not replay the id.                                  *)
OpenWsFresh ==
    /\ opened < MaxSockets
    /\ opened' = opened + 1
    /\ ws' = opened + 1
    /\ ready' = [ready EXCEPT ![opened + 1] = "connecting"]
    /\ UNCHANGED <<resumed, clientId>>

(* new WebSocket(resumeUrl()): the id is read when the socket is created.  *)
OpenWs ==
    /\ opened < MaxSockets
    /\ opened' = opened + 1
    /\ ws' = opened + 1
    /\ ready' = [ready EXCEPT ![opened + 1] = "connecting"]
    /\ resumed' = [resumed EXCEPT ![opened + 1] = clientId]
    /\ UNCHANGED clientId

(* A socket that is still there, even one that is closing, is kept.        *)
EnsureWs ==
    IF ws # 0 /\ ready[ws] # "closed" THEN UNCHANGED sockVars ELSE OpenWs

(* Fault: slice instead of splice.                                         *)
FlushCopy(frames) ==
    /\ pending' = frames
    /\ posted' = IF IsOpen THEN posted \o frames ELSE posted

(* pendingSends.splice(0), each frame to the open socket.                  *)
Flush(frames) ==
    IF IsOpen
      THEN posted' = posted \o frames /\ pending' = << >>
      ELSE pending' = frames /\ UNCHANGED posted

(* send(frame).                                                            *)
Send ==
    /\ sends < MaxSends
    /\ sends' = sends + 1
    /\ EnsureWs
    /\ Flush(Append(pending, sends + 1))
    /\ UNCHANGED <<subVars, asked, timerVars, openVars>>

(* listen(topic, handler): the first listener of a topic creates its Set   *)
(* and, on an open socket, asks the server for the topic.                  *)
Listen(c) ==
    LET t == TopicOf[c]
        isFirst == subs[t] = NoSet
        set == IF isFirst THEN c ELSE subs[t]
    IN
    /\ setOf[c] = NoSet
    /\ EnsureWs
    /\ subs' = [subs EXCEPT ![t] = set]
    /\ members' = [members EXCEPT ![set] = @ \cup {HandlerOf[c]}]
    /\ setOf' = [setOf EXCEPT ![c] = set]
    /\ asked' = IF isFirst /\ IsOpen
                  THEN [asked EXCEPT ![ws] = @ \cup {t}] ELSE asked
    /\ UNCHANGED <<unlistens, evicted, sendVars, timerVars, openVars>>

(* Fault: the topic is dropped with its first listener that leaves.        *)
EmptiedAnyway(set) == set # NoSet

(* set.size === 0                                                          *)
Emptied(set) == set = {}

(* Fault: some topic has no listener.                                      *)
SomeTopicLeft == \E u \in Topic : subs'[u] = NoSet

(* subs.size === 0, after the deletion.                                    *)
NobodyLeft == \A u \in Topic : subs'[u] = NoSet

(* What is left of the Set that call c joined, without its callback.       *)
LeftBy(c) == members[setOf[c]] \ {HandlerOf[c]}

(* The returned function: it deletes the callback from the Set it closes   *)
(* over, and the entry of the topic if that Set is empty.  Nothing keeps   *)
(* it from being called again, when its Set is empty and the topic may     *)
(* have another one.                                                       *)
Unlisten(c) ==
    LET t == TopicOf[c] IN
    /\ setOf[c] # NoSet
    /\ unlistens[c] < MaxUnlistens
    /\ unlistens' = [unlistens EXCEPT ![c] = @ + 1]
    /\ members' = [members EXCEPT ![setOf[c]] = LeftBy(c)]
    /\ IF Emptied(LeftBy(c))
         THEN /\ subs' = [subs EXCEPT ![t] = NoSet]
              /\ asked' = IF IsOpen THEN [asked EXCEPT ![ws] = @ \ {t}] ELSE asked
              /\ evicted' = evicted \cup ({subs[t]} \ {setOf[c], NoSet})
         ELSE UNCHANGED <<subs, asked, evicted>>
    /\ IF NobodyLeft /\ timerVar # 0
         THEN timers' = timers \ {timerVar} /\ timerVar' = 0
         ELSE UNCHANGED <<timers, timerVar>>
    /\ UNCHANGED <<sockVars, setOf, sendVars, nextTimer, openVars>>

-----------------------------------------------------------------------------
RunAll(n) ==
    runs' = [h \in OpenHandler |->
                IF h \in openHandlers THEN [runs[h] EXCEPT ![n] = @ + 1]
                                      ELSE runs[h]]

(* Fault: firedOpen is not looked at.                                      *)
FireOpenAlways(n) == fired' = [fired EXCEPT ![n] = TRUE] /\ RunAll(n)

FireOpen(n) ==
    IF fired[n]
      THEN UNCHANGED <<fired, runs>>
      ELSE fired' = [fired EXCEPT ![n] = TRUE] /\ RunAll(n)

(* Fault: subscriptions are not restored.                                  *)
RestoreNothing(n) == asked[n]

(* The topics asked for after a subscribe frame for every live topic.      *)
Restore(n) == asked[n] \cup Topics

(* The "open" event: resubscribe, flush, and fire onOpen on a resume.      *)
Opens(n) ==
    /\ ready[n] = "connecting"
    /\ ready' = [ready EXCEPT ![n] = "open"]
    /\ asked' = [asked EXCEPT ![n] = Restore(n)]
    /\ IF ws = n THEN posted' = posted \o pending /\ pending' = << >>
                 ELSE UNCHANGED <<posted, pending>>
    /\ IF clientId # 0 THEN FireOpen(n) ELSE UNCHANGED <<fired, runs>>
    /\ UNCHANGED <<ws, opened, resumed, clientId, subVars, sends, timers,
                   timerVar, nextTimer, openHandlers, joined>>

(* The welcome frame: the server adopts the id that the url replays, or    *)
(* draws a new one.                                                        *)
Welcomed(n) ==
    /\ ready[n] = "open"
    /\ clientId' = IF resumed[n] # 0 THEN resumed[n] ELSE n
    /\ FireOpen(n)
    /\ UNCHANGED <<ws, ready, opened, resumed, subVars, asked, sendVars,
                   timerVars, openHandlers, joined>>

(* The first socket whose fireOpen will run a handler that comes now.      *)
FirstToFire ==
    IF ws # 0 /\ ready[ws] \in {"connecting", "open"} /\ ~ fired[ws]
      THEN ws ELSE opened + 1

(* Fault: a handler that comes while a socket is open has to wait.         *)
OnOpenWaits(h) ==
    /\ h \notin openHandlers
    /\ openHandlers' = openHandlers \cup {h}
    /\ joined' = [joined EXCEPT ![h] = [at |-> IF IsOpen THEN ws ELSE 0,
                                        from |-> FirstToFire]]
    /\ UNCHANGED <<sockVars, subVars, asked, sendVars, timerVars, fired, runs>>

(* onOpen(handler): with an open socket the handler runs at once.          *)
OnOpen(h) ==
    /\ h \notin openHandlers
    /\ openHandlers' = openHandlers \cup {h}
    /\ joined' = [joined EXCEPT ![h] = [at |-> IF IsOpen THEN ws ELSE 0,
                                        from |-> FirstToFire]]
    /\ runs' = IF IsOpen THEN [runs EXCEPT ![h][ws] = @ + 1] ELSE runs
    /\ UNCHANGED <<sockVars, subVars, asked, sendVars, timerVars, fired>>

(* The function that onOpen returned.  The handler may come again.         *)
OffOpen(h) ==
    /\ h \in openHandlers
    /\ openHandlers' = openHandlers \ {h}
    /\ joined' = [joined EXCEPT ![h] = [at |-> 0, from |-> 0]]
    /\ runs' = [runs EXCEPT ![h] = [n \in SocketId |-> 0]]
    /\ UNCHANGED <<sockVars, subVars, asked, sendVars, timerVars, fired>>

(* The closing handshake has begun; the "close" event is still to come.    *)
Closing(n) ==
    /\ ready[n] = "open"
    /\ ready' = [ready EXCEPT ![n] = "closing"]
    /\ UNCHANGED <<ws, opened, resumed, clientId, subVars, asked, sendVars,
                   timerVars, openVars>>

(* The "close" event, of a socket that was open or never opened.  The last *)
(* socket the bound allows stays.                                          *)
Closes(n) ==
    /\ ready[n] \in {"connecting", "open", "closing"}
    /\ n < MaxSockets
    /\ ready' = [ready EXCEPT ![n] = "closed"]
    /\ ws' = 0
    /\ IF Reconnect /\ Topics # {}
         THEN /\ timers' = timers \cup {nextTimer}
              /\ timerVar' = nextTimer
              /\ nextTimer' = nextTimer + 1
         ELSE UNCHANGED timerVars
    /\ UNCHANGED <<opened, resumed, clientId, subVars, asked, sendVars, openVars>>

(* Fault: the callback does not look whether there is a socket by now.     *)
TimerFiresBlind(k) ==
    /\ k \in timers
    /\ timers' = timers \ {k}
    /\ timerVar' = 0
    /\ IF Topics # {} /\ opened < MaxSockets THEN OpenWs ELSE UNCHANGED sockVars
    /\ UNCHANGED <<subVars, asked, sendVars, nextTimer, openVars>>

(* The timer callback.                                                     *)
TimerFires(k) ==
    /\ k \in timers
    /\ timers' = timers \ {k}
    /\ timerVar' = 0
    /\ IF Topics # {} /\ ws = 0 THEN OpenWs ELSE UNCHANGED sockVars
    /\ UNCHANGED <<subVars, asked, sendVars, nextTimer, openVars>>

Next ==
    \/ Send
    \/ \E c \in Call : Listen(c) \/ Unlisten(c)
    \/ \E h \in OpenHandler : OnOpen(h) \/ OffOpen(h)
    \/ \E n \in SocketId : Opens(n) \/ Welcomed(n) \/ Closing(n) \/ Closes(n)
    \/ \E k \in 1 .. MaxSockets : TimerFires(k)

Spec == Init /\ [][Next]_vars

-----------------------------------------------------------------------------
(* The variable ws is the only socket that is not closed, whatever timers  *)
(* and callers race to open one: handlers of a lost socket never touch the *)
(* state of its successor (rpc_runtime.ts:207-216, 221-228).               *)
OneSocket ==
    \A n \in SocketId :
        ready[n] \in {"connecting", "open", "closing"} => ws = n

(* While someone listens, there is a socket or a timer that will open one, *)
(* though unlisten clears timers and two timers may be pending at once.    *)
ServedOrScheduled ==
    Reconnect /\ Topics # {} => ws # 0 \/ timers # {}

(* Frames given to send() leave in order, none twice, and none stays in    *)
(* the buffer of an open socket or overtakes one that does.                *)
SendsInOrder ==
    /\ IsOpen => pending = << >>
    /\ \A i, j \in DOMAIN (posted \o pending) :
          i < j => (posted \o pending)[i] < (posted \o pending)[j]

(* A listening call is never cut off from its topic, unless an unlisten    *)
(* function of another Set of the topic deleted the Set it joined, which   *)
(* takes one that was called again (rpc_runtime.ts:307-315).               *)
ListenerReachable ==
    \A c \in Call : Listening(c) =>
        /\ HandlerOf[c] \in members[setOf[c]]
        /\ \/ Installed(c)
           \/ /\ setOf[c] \in evicted
              /\ \E d \in Call : TopicOf[d] = TopicOf[c] /\ unlistens[d] > 1

(* "Last listener gone: stop the server sending this topic" (:311): while  *)
(* a call listens, its topic is not given up.                              *)
OnlyLastListenerStops ==
    \A c \in Call : Listening(c) => subs[TopicOf[c]] # NoSet

(* An onOpen handler runs when a socket is released, once, and not before  *)
(* the page has an id; on a resume that is when it opens.  A handler that  *)
(* comes while a socket is open runs at once, and again if the socket is   *)
(* not released yet: twice for one socket, where :174 says exactly once.   *)
HandlersRunPerSocket ==
    /\ \A n \in SocketId :
          /\ ready[n] = "open" /\ resumed[n] # 0 => fired[n]
          /\ fired[n] => clientId # 0
    /\ \A h \in openHandlers, n \in SocketId :
          LET atOnce == IF n = joined[h].at THEN 1 ELSE 0
              onRelease == IF n >= joined[h].from /\ fired[n] THEN 1 ELSE 0
          IN runs[h][n] = atOnce + onRelease
=============================================================================
