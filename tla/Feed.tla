-------------------------------- MODULE Feed --------------------------------
(***************************************************************************)
(* What a subscriber of the event bus is promised, whatever tasks, queues  *)
(* and locks carry the frames: it is handed the frames published while it  *)
(* is a member, in order and once.  A frame may be left out for two        *)
(* reasons only: Window later frames were published before it was handed   *)
(* over, or the subscriber did not want its topic when its turn came.      *)
(*                                                                         *)
(* WsHandler and Session implement this specification (FeedSpec there).    *)
(***************************************************************************)
EXTENDS Naturals, Sequences, FiniteSets

CONSTANTS Subscriber, Topic, Window

VARIABLES
    log,        \* the frames published so far, by topic
    member,     \* the subscribers that are being served
    wanted,     \* wanted[s]: the topics s wants
    turned,     \* turned[s][t]: Len(log) when s last began or ceased to want t
    given,      \* given[s]: the positions handed to s, in order
    omitted     \* omitted[s]: the positions that member s goes without

vars == <<log, member, wanted, turned, given, omitted>>

Init ==
    /\ log = << >>
    /\ member = {}
    /\ wanted \in [Subscriber -> {{}, Topic}]
    /\ turned = [s \in Subscriber |-> [t \in Topic |-> 0]]
    /\ given = [s \in Subscriber |-> << >>]
    /\ omitted = [s \in Subscriber |-> {}]

Given(s) == {given[s][k] : k \in DOMAIN given[s]}

(* The frames still due to a member.                                       *)
Due(s) == (1 .. Len(log)) \ (Given(s) \cup omitted[s])

IsNext(s, i) == i \in Due(s) /\ \A j \in Due(s) : i <= j

Publish(t) ==
    /\ log' = Append(log, t)
    /\ UNCHANGED <<member, wanted, turned, given, omitted>>

(* What was published before is not due.                                   *)
Join(s) ==
    /\ s \notin member
    /\ member' = member \cup {s}
    /\ omitted' = [omitted EXCEPT ![s] = 1 .. Len(log)]
    /\ UNCHANGED <<log, wanted, turned, given>>

Leave(s) ==
    /\ s \in member
    /\ member' = member \ {s}
    /\ omitted' = [omitted EXCEPT ![s] = {}]
    /\ UNCHANGED <<log, wanted, turned, given>>

Turn(s, t) ==
    /\ wanted' = [wanted EXCEPT ![s] = IF t \in @ THEN @ \ {t} ELSE @ \cup {t}]
    /\ turned' = [turned EXCEPT ![s][t] = Len(log)]
    /\ UNCHANGED <<log, member, given, omitted>>

(* A frame may be wanted, or on its way since before it ceased to be.      *)
Give(s) ==
    /\ s \in member
    /\ \E i \in Due(s) :
          /\ IsNext(s, i)
          /\ log[i] \in wanted[s] \/ i <= turned[s][log[i]]
          /\ given' = [given EXCEPT ![s] = Append(@, i)]
    /\ UNCHANGED <<log, member, wanted, turned, omitted>>

PassOver(s) ==
    /\ s \in member
    /\ \E i \in Due(s) :
          /\ IsNext(s, i)
          /\ log[i] \notin wanted[s]
          /\ omitted' = [omitted EXCEPT ![s] = @ \cup {i}]
    /\ UNCHANGED <<log, member, wanted, turned, given>>

Overflow(s) ==
    /\ s \in member
    /\ \E i \in Due(s) :
          /\ i + Window <= Len(log)
          /\ omitted' = [omitted EXCEPT ![s] = @ \cup {j \in Due(s) : j <= i}]
    /\ UNCHANGED <<log, member, wanted, turned, given>>

Serve(s) == Give(s) \/ PassOver(s) \/ Overflow(s)

Next ==
    \/ \E t \in Topic : Publish(t)
    \/ \E s \in Subscriber :
          \/ Join(s)
          \/ Leave(s)
          \/ Serve(s)
          \/ \E t \in Topic : Turn(s, t)

(* A member is served as long as something is due to it.                   *)
Spec == Init /\ [][Next]_vars /\ \A s \in Subscriber : WF_vars(Serve(s))
=============================================================================
