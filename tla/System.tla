------------------------------- MODULE System -------------------------------
(***************************************************************************)
(* One browser page on one server: the client of rpc_runtime.ts            *)
(* (RpcClient) composed with the session runtime of session.rs (Session),  *)
(* over the WebSockets that the page opens.  Socket n of the page is       *)
(* socket n of the server.                                                 *)
(*                                                                         *)
(* A socket carries frames in order, each way, and may break at any time:  *)
(* the two ends learn of it in their own time, and what is under way is    *)
(* lost.  The session hooks of the application leave the topics alone, so  *)
(* that the page alone decides what it is subscribed to.                   *)
(***************************************************************************)
EXTENDS RpcClient, SequencesExt

CONSTANTS
    Capacity, MaxPublish,    \* of the event bus
    MaxInputs                \* bound on listens, sends and publications together

ASSUME BusAssumption == Capacity \in Nat \ {0} /\ MaxPublish \in Nat
ASSUME MaxInputsAssumption == MaxInputs \in Nat

VARIABLES
    log, live, cursor, missed,            \* EventBus
    phase, connId, nextConn, client,      \* Session ...
    registry, lastBound, held,
    topics,                               \* ... its variable subs
    mark, out, written, writer, pump, hold,
    up,       \* up[n]: the frames on their way from the page to the server
    taken,    \* taken[n]: how many of the frames written to n the page has read
    heard,    \* history: the events that the callback of each call was given
    since     \* history: since[c] = Len(log) when call c began to listen

Server == INSTANCE Session WITH
    Socket <- SocketId,
    Client <- 1 .. MaxSockets + 1,
    NoClient <- 0,
    NoSocket <- 0,
    MaxDirect <- 0,
    subs <- topics

clientVars == vars

busVars   == <<log, live, cursor, missed>>
loopVars  == <<phase, connId, nextConn, client>>
dirVars   == <<registry, lastBound, held>>
queueVars == <<out, written, writer>>
pumpVars  == <<pump, hold>>
serverVars == <<busVars, loopVars, dirVars, topics, mark, queueVars, pumpVars>>

linkVars == <<up, taken, heard, since>>
systemVars == <<clientVars, serverVars, linkVars>>

Subscribe(t) == [type |-> "subscribe", topic |-> t]
Unsubscribe(t) == [type |-> "unsubscribe", topic |-> t]
Application == [type |-> "application"]

SystemInit ==
    /\ Init
    /\ Server!Init
    /\ up = [n \in SocketId |-> << >>]
    /\ taken = [n \in SocketId |-> 0]
    /\ heard = [c \in Call |-> << >>]
    /\ since = [c \in Call |-> 0]

-----------------------------------------------------------------------------
(* The frames that a step of the page puts on socket n: subscriptions,     *)
(* then what was posted.                                                   *)
Sent(n) ==
    LET FrameFor(t) == IF t \in asked'[n] THEN Subscribe(t) ELSE Unsubscribe(t)
        changed == (asked[n] \ asked'[n]) \cup (asked'[n] \ asked[n])
        posts == IF n = ws' THEN Len(posted') - Len(posted) ELSE 0
    IN  [k \in 1 .. Cardinality(changed) |-> FrameFor(SetToSeq(changed)[k])]
            \o [k \in 1 .. posts |-> Application]

(* Fault: a frame goes to the front of the socket's buffer.                *)
TransmitUrgent == up' = [n \in SocketId |-> Sent(n) \o up[n]]

Transmit == up' = [n \in SocketId |-> up[n] \o Sent(n)]

PageActs == Transmit /\ UNCHANGED <<serverVars, taken, heard, since>>

MoreInputs ==
    Cardinality({c \in Call : setOf[c] # NoSet}) + sends + Len(log) < MaxInputs

PageListens(c) ==
    /\ MoreInputs
    /\ Listen(c)
    /\ since' = [since EXCEPT ![c] = Len(log)]
    /\ Transmit
    /\ UNCHANGED <<serverVars, taken, heard>>

(* An unlisten function that is called again repeats its frame, whether    *)
(* or not the topic has a Set.                                             *)
PageUnlistens(c) ==
    /\ Unlisten(c)
    /\ up' = IF IsOpen /\ Emptied(LeftBy(c))
               THEN [up EXCEPT ![ws] = @ \o << Unsubscribe(TopicOf[c]) >>] ELSE up
    /\ UNCHANGED <<serverVars, taken, heard, since>>

PageSends == MoreInputs /\ Send /\ PageActs

TimerRuns(k) == TimerFires(k) /\ PageActs

(* A socket opens once the server has taken the upgrade.  That its answer  *)
(* may overtake the start of session_loop is left out.                     *)
SocketOpens(n) ==
    /\ phase[n] # "idle"
    /\ Opens(n)
    /\ PageActs

SocketCloses(n) == Closes(n) /\ PageActs

HandshakeBegins(n) == n < MaxSockets /\ Closing(n) /\ PageActs

(* The socket's next message event, if the page still has it open.         *)
Arriving(n) == out[n][taken[n] + 1]

HasArriving(n) == ready[n] = "open" /\ taken[n] < written[n]

TakeFrame(n) ==
    /\ taken' = [taken EXCEPT ![n] = @ + 1]
    /\ UNCHANGED <<serverVars, up, since>>

(* $draad/welcome: the id is the one that the server calls the socket.     *)
ReceiveWelcome(n) ==
    /\ HasArriving(n)
    /\ Arriving(n).kind = "welcome"
    /\ Welcomed(n)
    /\ TakeFrame(n)
    /\ UNCHANGED heard

(* The callbacks in the Set of the topic, if it still has one.             *)
Listeners(t) == IF subs[t] = NoSet THEN {} ELSE members[subs[t]]

(* An event: subs.get(topic)?.forEach(h => h(payload)).                    *)
ReceiveEvent(n) ==
    /\ HasArriving(n)
    /\ Arriving(n).kind = "event"
    /\ LET i == Arriving(n).pos
       IN heard' = [c \in Call |->
              IF HandlerOf[c] \in Listeners(log[i]) THEN Append(heard[c], i)
                                                    ELSE heard[c]]
    /\ TakeFrame(n)
    /\ UNCHANGED clientVars

-----------------------------------------------------------------------------
ServerActs == UNCHANGED <<clientVars, linkVars>>

(* The upgrade request of socket n, with the id its url replays.           *)
Upgrade(n) ==
    /\ ready[n] # "none"
    /\ IF resumed[n] # 0 THEN Server!Accept(n, resumed[n], TRUE)
                         ELSE Server!Accept(n, n, FALSE)
    /\ ServerActs

(* One frame of the page, in the order they were sent.                     *)
TakeUp(n) ==
    /\ phase[n] = "reading"
    /\ up[n] # << >>
    /\ up' = [up EXCEPT ![n] = Tail(@)]
    /\ LET frame == Head(up[n])
       IN \/ /\ frame.type = "subscribe"
             /\ Server!ConnSubscribe(n, frame.topic)
          \/ /\ frame.type = "unsubscribe"
             /\ Server!ConnUnsubscribe(n, frame.topic)
          \/ /\ frame.type = "application"
             /\ UNCHANGED <<topics, mark, queueVars>>
    /\ UNCHANGED <<clientVars, busVars, loopVars, dirVars, pumpVars, taken, heard, since>>

LoopRuns(n) == Server!LoopProceeds(n) /\ ServerActs

PumpRuns(n) == (Server!PumpProceeds(n) \/ Server!PumpAborted(n)) /\ ServerActs

WriterRuns(n) == (Server!WriterStep(n) \/ Server!WriterAborted(n)) /\ ServerActs

Panics(n) == Server!HookPanics(n) /\ ServerActs

(* The server finds the socket broken, or closed by the page.  As in       *)
(* RpcClient, the last socket that the bound allows does not break.        *)
ServerLoses(n) ==
    /\ n < MaxSockets
    /\ Server!StreamEnds(n) \/ Server!WriterFails(n)
    /\ ServerActs

Publish(t) == MoreInputs /\ Server!Emit(t) /\ ServerActs

SystemNext ==
    \/ \E c \in Call : PageListens(c) \/ PageUnlistens(c)
    \/ PageSends
    \/ \E k \in 1 .. MaxSockets : TimerRuns(k)
    \/ \E n \in SocketId :
          \/ SocketOpens(n)
          \/ HandshakeBegins(n)
          \/ SocketCloses(n)
          \/ ReceiveWelcome(n)
          \/ ReceiveEvent(n)
          \/ Upgrade(n)
          \/ TakeUp(n)
          \/ LoopRuns(n)
          \/ PumpRuns(n)
          \/ WriterRuns(n)
          \/ Panics(n)
          \/ ServerLoses(n)
    \/ \E t \in Topic : Publish(t)

(* The server has finished with the socket, and the page will learn it.    *)
LetGo(n) == (writer[n] = "gone" \/ ready[n] = "closing") /\ SocketCloses(n)

(* The socket is closed at the page, or writing to it failed, and the read *)
(* loop will learn it.                                                     *)
Forsaken(n) ==
    /\ ready[n] \in {"closing", "closed"} \/ writer[n] = "gone"
    /\ Server!StreamEnds(n)
    /\ ServerActs

(* Timers fire, a connection attempt ends, frames on a socket that stays   *)
(* arrive, tasks run, and a broken socket is noticed at both ends.  Nobody *)
(* has to listen, to publish or to break a socket.                         *)
SystemFairness ==
    /\ \A k \in 1 .. MaxSockets : WF_systemVars(TimerRuns(k))
    /\ \A n \in SocketId :
          /\ WF_systemVars(Upgrade(n))
          /\ WF_systemVars(SocketOpens(n))
          /\ WF_systemVars(ReceiveWelcome(n) \/ ReceiveEvent(n))
          /\ WF_systemVars(TakeUp(n))
          /\ WF_systemVars(LoopRuns(n))
          /\ WF_systemVars(PumpRuns(n))
          /\ WF_systemVars(WriterRuns(n))
          /\ WF_systemVars(LetGo(n))
          /\ WF_systemVars(Forsaken(n))

SystemSpec == SystemInit /\ [][SystemNext]_systemVars /\ SystemFairness

-----------------------------------------------------------------------------
(* What the server's topics become when it has read all that is under way: *)
(* the last frame about a topic decides, or else what it has now.          *)
Dropped(n, t, k) ==
    \E j \in DOMAIN up[n] : j > k /\ up[n][j] = Unsubscribe(t)

Settled(n) ==
    {t \in Topic :
        \/ t \in topics[n] /\ ~ Dropped(n, t, 0)
        \/ \E k \in DOMAIN up[n] :
              up[n][k] = Subscribe(t) /\ ~ Dropped(n, t, k)}

(* As long as both ends have a socket, the server's topics are on their    *)
(* way to those the page listens to: nothing is lost or undone by opening, *)
(* resuming and buffering (rpc_runtime.ts:187, 301, 312; session.rs:395).  *)
TopicsFollow ==
    \A n \in SocketId : ready[n] = "open" => Settled(n) = Topics

(* However sockets were lost before or after their welcome, the server     *)
(* knows the page by one id: every socket whose welcome was read goes by   *)
(* the id that the page replays (session.rs:328-330, rpc_runtime.ts:137).  *)
OneIdentity ==
    \A n \in SocketId : taken[n] > 0 => client[n] = clientId

(* An id that a welcome gave this page names its newest socket once that   *)
(* socket is bound, whatever its older sockets still do, unless one of     *)
(* them was lost before its welcome was read and may bind late: unbind     *)
(* spares the entry of a successor, bind does not (session.rs:169-185).    *)
OwnIdIsAddressable ==
    LET n == opened IN
    (/\ n # 0
     /\ clientId \in SocketId
     /\ client[n] = clientId
     /\ Server!IsBound(n)
     /\ \A m \in 1 .. n - 1 : client[m] = clientId => taken[m] > 0)
    => registry[clientId] = n

(* Whatever is lost on the way, the server ends up with the topics that    *)
(* the page listens to, on the page's open socket, unless a hook panics    *)
(* and leaves the socket open with nobody to read it.                      *)
SubscriptionsConverge ==
    <>[](Topics # {} => \/ IsOpen /\ topics[ws] = Topics
                        \/ ws # 0 /\ phase[ws] = "panicked")

(* Whatever sockets come and go, a callback is given events in the order   *)
(* they were published, and none twice: what a new socket brings is newer  *)
(* than all that the sockets before it did (session.rs:332, 337-373;       *)
(* rpc_runtime.ts:193-203).                                                *)
HeardInOrder ==
    \A c \in Call : \A j, k \in DOMAIN heard[c] :
        j < k => heard[c][j] < heard[c][k]

Heard(c) == {heard[c][k] : k \in DOMAIN heard[c]}

(* The events that are queued for the page or on their way to it.          *)
OnTheWay(n) ==
    {out[n][k].pos : k \in {j \in taken[n] + 1 .. Len(out[n]) : out[n][j].kind = "event"}}

(* A call that listens, and whose Set is still the one of its topic.       *)
Served(c) == Listening(c) /\ Installed(c)

(* Published on the topic of a call, after the call began to listen and    *)
(* after the server had subscribed the socket.                             *)
IsFor(i, c, n) ==
    /\ Served(c) /\ ready[n] = "open" /\ n \in live
    /\ log[i] = TopicOf[c] /\ TopicOf[c] \in topics[n]
    /\ i > mark[n][TopicOf[c]] /\ i > since[c]

(* There is no gap in what a callback is given: while it listens and is    *)
(* not cut off (ListenerReachable), every event for it that its socket's   *)
(* receiver has passed was heard, is on its way, is in the pump's hand, or *)
(* was lost to lag.                                                        *)
NothingSlips ==
    \A c \in Call, n \in SocketId : \A i \in 1 .. cursor[n] :
        IsFor(i, c, n) => i \in Heard(c) \cup OnTheWay(n) \cup {hold[n]} \cup missed[n]

(* An event that its call is still waiting for.  A topic may be asked for  *)
(* anew while it is being given up for an earlier call; until that is      *)
(* through, the server may not send it.                                    *)
Overdue(i, c, n) ==
    /\ IsFor(i, c, n) /\ ~ Dropped(n, TopicOf[c], 0)
    /\ i \notin Heard(c) \cup missed[n]

(* Every event published on a subscribed topic reaches the callback of     *)
(* every call that listens, unless it stops listening, is cut off, the     *)
(* socket ends, or lag: again and again, nothing is overdue.               *)
EventsReachListeners ==
    []<>(\A c \in Call, n \in SocketId :
            \A i \in 1 .. Len(log) : ~ Overdue(i, c, n))
=============================================================================
