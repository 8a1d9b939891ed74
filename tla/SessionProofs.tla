---------------------------- MODULE SessionProofs ----------------------------
(***************************************************************************)
(* What TLAPS proves about Session, for any sets of sockets, topics and    *)
(* client ids, any size of the ring and any bounds: the registry, the way  *)
(* of an event from the bus to the queue of a socket, and the refinement   *)
(* of Feed.                                                                *)
(***************************************************************************)
EXTENDS Session, FiniteSetTheorems, TLAPS

-----------------------------------------------------------------------------
(* Type correctness, one lemma per group of variables that an operation    *)
(* disturbs.                                                               *)

(* The initial states are type correct.                                    *)
LEMMA InitType == Init => TypeOK
  BY MaxPublishAssumption
     DEF Init, BusInit, TypeOK, BusTypeOK, LoopTypeOK, DirTypeOK, SubTypeOK,
         OutTypeOK, PumpTypeOK, Frame, Phases

(* The variables that a step leaves alone keep their types.                *)
LEMMA UnchangedType ==
    /\ BusTypeOK /\ UNCHANGED busVars => BusTypeOK'
    /\ PumpTypeOK /\ UNCHANGED <<busVars, pumpVars>> => PumpTypeOK'
    /\ LoopTypeOK /\ UNCHANGED loopVars => LoopTypeOK'
    /\ DirTypeOK /\ UNCHANGED dirVars => DirTypeOK'
    /\ SubTypeOK /\ UNCHANGED subVars => SubTypeOK'
    /\ OutTypeOK /\ UNCHANGED outVars => OutTypeOK'
  BY DEF BusTypeOK, LoopTypeOK, DirTypeOK, SubTypeOK, OutTypeOK, PumpTypeOK,
         busVars, loopVars, dirVars, subVars, outVars, pumpVars

(* Publishing on the bus keeps the types of ring and cursors.              *)
LEMMA PublishType ==
    ASSUME BusTypeOK, PumpTypeOK, NEW t \in Topic, BusPublish(t),
           UNCHANGED pumpVars
    PROVE  BusTypeOK' /\ PumpTypeOK'
  BY MaxPublishAssumption DEF BusTypeOK, PumpTypeOK, BusPublish, pumpVars

(* A frame given to the mpsc channel of a socket keeps its type.           *)
LEMMA EnqueueType ==
    ASSUME OutTypeOK, NEW s \in Socket, NEW f \in Frame, Enqueue(s, f)
    PROVE  OutTypeOK'
  BY DEF OutTypeOK, Enqueue

(* The operations of Conn keep the types of subscriptions and queues.      *)
LEMMA ConnOpType ==
    ASSUME TypeOK, NEW s \in Socket, ConnOp(s)
    PROVE  SubTypeOK' /\ OutTypeOK'
  <1>1. Len(log) \in 0 .. MaxPublish
    BY MaxPublishAssumption DEF TypeOK, BusTypeOK
  <1>2. ASSUME NEW t \in Topic PROVE MoveMark(s, t) => mark' \in [Socket -> [Topic -> 0 .. MaxPublish]]
    <2> SUFFICES ASSUME MoveMark(s, t) PROVE mark' \in [Socket -> [Topic -> 0 .. MaxPublish]]
      OBVIOUS
    <2>1. [mark[s] EXCEPT ![t] = Len(log)] \in [Topic -> 0 .. MaxPublish]
      BY <1>1 DEF TypeOK, SubTypeOK
    <2>2. mark' = [mark EXCEPT ![s] = [mark[s] EXCEPT ![t] = Len(log)]]
      BY DEF MoveMark
    <2> QED BY <2>1, <2>2 DEF TypeOK, SubTypeOK
  <1>3. CASE ConnSend(s)
    <2>1. Direct \in Frame
      BY DEF Frame
    <2> QED BY <1>3, <2>1, EnqueueType DEF ConnSend, TypeOK, SubTypeOK, subVars
  <1>4. ASSUME NEW t \in Topic, ConnSubscribe(s, t) PROVE SubTypeOK' /\ OutTypeOK'
    BY <1>2, <1>4 DEF ConnSubscribe, TypeOK, SubTypeOK, OutTypeOK, outVars
  <1>5. ASSUME NEW t \in Topic, ConnUnsubscribe(s, t) PROVE SubTypeOK' /\ OutTypeOK'
    BY <1>2, <1>5 DEF ConnUnsubscribe, TypeOK, SubTypeOK, OutTypeOK, outVars
  <1> QED BY <1>3, <1>4, <1>5 DEF ConnOp

(* The upgrade of a socket keeps all types.                                *)
LEMMA AcceptType ==
    ASSUME TypeOK, NEW s \in Socket, NEW c \in Client, NEW resumed \in BOOLEAN,
           Accept(s, c, resumed)
    PROVE  TypeOK'
  <1> USE DEF Accept
  <1>1. BusTypeOK'
    BY DEF TypeOK, BusTypeOK, BusSubscribe
  <1>2. LoopTypeOK'
    BY DEF TypeOK, LoopTypeOK, Phases
  <1>3. DirTypeOK' /\ SubTypeOK'
    BY DEF TypeOK, DirTypeOK, SubTypeOK, dirVars, subVars
  <1>4. OutTypeOK'
    BY DEF TypeOK, OutTypeOK
  <1>5. PumpTypeOK'
    <2>1. \A r \in Socket : r # s => cursor'[r] = cursor[r] /\ pump'[r] = pump[r]
      BY DEF TypeOK, BusTypeOK, PumpTypeOK, BusSubscribe
    <2> QED BY <2>1 DEF TypeOK, BusTypeOK, PumpTypeOK
  <1> QED BY <1>1, <1>2, <1>3, <1>4, <1>5 DEF TypeOK

(* So does every step that session_loop takes on its own.                  *)
LEMMA LoopType ==
    ASSUME TypeOK, NEW s \in Socket,
           LoopProceeds(s) \/ StreamEnds(s) \/ HookPanics(s)
    PROVE  TypeOK'
  <1>1. LoopTypeOK'
    BY DEF TypeOK, LoopTypeOK, LoopProceeds, StreamEnds, HookPanics, Bind,
           SendWelcome, OnConnect, OnDisconnect, Unbind, Abort, StepPhase, Phases
  <1>2. BusTypeOK' /\ SubTypeOK' /\ PumpTypeOK'
    BY DEF TypeOK, BusTypeOK, SubTypeOK, PumpTypeOK, LoopProceeds, StreamEnds,
           HookPanics, Bind, SendWelcome, OnConnect, OnDisconnect, Unbind,
           Abort, busVars, subVars, pumpVars
  <1>3. DirTypeOK'
    BY DEF TypeOK, DirTypeOK, LoopProceeds, StreamEnds, HookPanics, Bind,
           SendWelcome, OnConnect, OnDisconnect, Unbind, Abort, dirVars
  <1>4. OutTypeOK'
    <2>1. CASE SendWelcome(s)
      <3>1. Welcome \in Frame
        BY DEF Frame
      <3> QED BY <2>1, <3>1, EnqueueType DEF SendWelcome, TypeOK
    <2>2. CASE UNCHANGED outVars
      BY <2>2 DEF TypeOK, OutTypeOK, outVars
    <2> QED
      BY <2>1, <2>2 DEF LoopProceeds, StreamEnds, HookPanics, Bind, OnConnect,
           OnDisconnect, Unbind, Abort
  <1> QED BY <1>1, <1>2, <1>3, <1>4 DEF TypeOK

(* A pump that ends drops its receiver.                                    *)
LEMMA PumpEndsType ==
    ASSUME TypeOK, NEW s \in Socket, PumpEnds(s)
    PROVE  BusTypeOK' /\ PumpTypeOK'
  BY MaxPublishAssumption
     DEF TypeOK, BusTypeOK, PumpTypeOK, PumpEnds, BusDrop

(* The pump keeps the types; what it has in hand, it has received.         *)
LEMMA PumpType ==
    ASSUME TypeOK, NEW s \in Socket, PumpProceeds(s) \/ PumpAborted(s)
    PROVE  TypeOK'
  <1>1. LoopTypeOK' /\ DirTypeOK' /\ SubTypeOK'
    BY DEF TypeOK, LoopTypeOK, DirTypeOK, SubTypeOK, PumpProceeds, PumpAborted,
           PumpRecv, PumpLagged, PumpCheck, PumpSend, loopVars, dirVars, subVars
  <1>2. OutTypeOK'
    <2>1. CASE PumpSend(s)
      <3>1. hold[s] \in 1 .. MaxPublish
        BY <2>1, MaxPublishAssumption
           DEF PumpSend, TypeOK, PumpTypeOK, BusTypeOK
      <3>2. Event(hold[s]) \in Frame
        BY <3>1 DEF Frame
      <3> QED BY <2>1, <3>2, EnqueueType DEF PumpSend, TypeOK
    <2>2. CASE UNCHANGED outVars
      BY <2>2 DEF TypeOK, OutTypeOK, outVars
    <2> QED
      BY <2>1, <2>2 DEF PumpProceeds, PumpAborted, PumpRecv, PumpLagged, PumpCheck
  <1>3. BusTypeOK' /\ PumpTypeOK'
    <2>1. CASE PumpRecv(s)
      BY <2>1, CapacityAssumption, MaxPublishAssumption
         DEF PumpRecv, BusRecv, Backlog, TypeOK, BusTypeOK, PumpTypeOK
    <2>2. CASE PumpLagged(s)
      <3>1. Len(log) - Capacity \in 1 .. Len(log) /\ cursor[s] < Len(log) - Capacity
        BY <2>2, CapacityAssumption
           DEF PumpLagged, BusLagged, Backlog, TypeOK, BusTypeOK
      <3>2. BusTypeOK'
        BY <2>2, <3>1 DEF PumpLagged, BusLagged, TypeOK, BusTypeOK
      <3>3. \A r \in Socket : cursor[r] <= cursor'[r]
        BY <2>2, <3>1 DEF PumpLagged, BusLagged, TypeOK, BusTypeOK
      <3>4. PumpTypeOK'
        BY <2>2, <3>2, <3>3
           DEF PumpLagged, pumpVars, TypeOK, BusTypeOK, PumpTypeOK
      <3> QED BY <3>2, <3>4
    <2>3. CASE PumpCheck(s)
      <3>1. BusTypeOK' /\ cursor' = cursor
        BY <2>3, UnchangedType DEF PumpCheck, TypeOK, busVars
      <3>2. PumpTypeOK'
        BY <2>3, <3>1, MaxPublishAssumption DEF PumpCheck, TypeOK, PumpTypeOK
      <3> QED BY <3>1, <3>2
    <2>4. CASE PumpSend(s)
      <3>1. CASE writer[s] = "running"
        <4>1. BusTypeOK' /\ cursor' = cursor
          BY <2>4, <3>1, UnchangedType DEF PumpSend, TypeOK, busVars
        <4>2. PumpTypeOK'
          BY <2>4, <3>1, <4>1, MaxPublishAssumption
             DEF PumpSend, TypeOK, PumpTypeOK
        <4> QED BY <4>1, <4>2
      <3>2. CASE writer[s] # "running"
        BY <2>4, <3>2, PumpEndsType DEF PumpSend
      <3> QED BY <3>1, <3>2
    <2>5. CASE PumpAborted(s)
      BY <2>5, PumpEndsType DEF PumpAborted
    <2> QED BY <2>1, <2>2, <2>3, <2>4, <2>5 DEF PumpProceeds
  <1> QED BY <1>1, <1>2, <1>3 DEF TypeOK

(* The writer keeps the types.                                             *)
LEMMA WriterType ==
    ASSUME TypeOK, NEW s \in Socket,
           WriterStep(s) \/ WriterFails(s) \/ WriterAborted(s)
    PROVE  TypeOK'
  <1>1. UNCHANGED <<busVars, loopVars, dirVars, subVars, pumpVars>>
    BY DEF WriterStep, WriterFails, WriterAborted, WriterEnds
  <1>2. CASE WriterStep(s)
    <2>1. OutTypeOK'
      BY <1>2 DEF WriterStep, TypeOK, OutTypeOK
    <2> QED BY <1>1, <2>1, UnchangedType DEF TypeOK
  <1>3. CASE WriterEnds(s)
    <2>1. OutTypeOK'
      BY <1>3 DEF WriterEnds, TypeOK, OutTypeOK
    <2> QED BY <1>1, <2>1, UnchangedType DEF TypeOK
  <1> QED BY <1>2, <1>3 DEF WriterFails, WriterAborted

(* Frames of the client and the hooks use Conn only.                       *)
LEMMA OperationType ==
    ASSUME TypeOK, NEW s \in Socket, ReadFrame(s) \/ HookUses(s) \/ UseHandle(s)
    PROVE  TypeOK'
  <1>1. ConnOp(s)
    BY DEF ReadFrame, HookUses, UseHandle
  <1>2. UNCHANGED <<busVars, loopVars, dirVars, pumpVars>>
    BY <1>1 DEF ConnOp
  <1> QED BY <1>1, <1>2, ConnOpType, UnchangedType DEF TypeOK

(* The application looks up entries and sends through them.                *)
LEMMA ApplicationType ==
    ASSUME TypeOK, NEW c \in Client, Get(c) \/ SendTo(c)
    PROVE  TypeOK'
  <1>1. CASE Get(c)
    <2>1. DirTypeOK'
      BY <1>1 DEF Get, TypeOK, DirTypeOK
    <2> QED BY <1>1, <2>1, UnchangedType DEF Get, TypeOK
  <1>2. CASE SendTo(c)
    <2>1. registry[c] \in Socket
      BY <1>2 DEF SendTo, TypeOK, DirTypeOK
    <2>2. ConnOp(registry[c])
      BY <1>2 DEF SendTo, ConnOp
    <2>3. SubTypeOK' /\ OutTypeOK'
      BY <2>1, <2>2, ConnOpType
    <2> QED BY <1>2, <2>3, UnchangedType DEF SendTo, TypeOK
  <1> QED BY <1>1, <1>2

(* Every step keeps every type.                                            *)
LEMMA NextType == TypeOK /\ [Next]_vars => TypeOK'
  <1> SUFFICES ASSUME TypeOK, [Next]_vars PROVE TypeOK'
    OBVIOUS
  <1>1. CASE UNCHANGED vars
    BY <1>1, UnchangedType DEF vars, TypeOK
  <1>2. ASSUME NEW s \in Socket, NEW c \in Client, NEW resumed \in BOOLEAN,
               Accept(s, c, resumed)
        PROVE  TypeOK'
    BY <1>2, AcceptType
  <1>3. ASSUME NEW s \in Socket,
               LoopProceeds(s) \/ StreamEnds(s) \/ HookPanics(s)
        PROVE  TypeOK'
    BY <1>3, LoopType
  <1>4. ASSUME NEW s \in Socket, PumpProceeds(s) \/ PumpAborted(s)
        PROVE  TypeOK'
    BY <1>4, PumpType
  <1>5. ASSUME NEW s \in Socket,
               WriterStep(s) \/ WriterFails(s) \/ WriterAborted(s)
        PROVE  TypeOK'
    BY <1>5, WriterType
  <1>6. ASSUME NEW s \in Socket, ReadFrame(s) \/ HookUses(s) \/ UseHandle(s)
        PROVE  TypeOK'
    BY <1>6, OperationType
  <1>7. ASSUME NEW c \in Client, Get(c) \/ SendTo(c)
        PROVE  TypeOK'
    BY <1>7, ApplicationType
  <1>8. ASSUME NEW t \in Topic, Emit(t)
        PROVE  TypeOK'
    BY <1>8, PublishType, UnchangedType DEF Emit, TypeOK
  <1> QED
    BY <1>1, <1>2, <1>3, <1>4, <1>5, <1>6, <1>7, <1>8 DEF Next

(* Every variable of a running server keeps its type.                      *)
THEOREM TypeCorrect == Spec => []TypeOK
  BY InitType, NextType, PTL DEF Spec

-----------------------------------------------------------------------------
(* The registry.  unbind compares ConnIds, so that an entry is removed by  *)
(* its owner alone rests on ConnIds being unique; the rest of DirInv says  *)
(* which sockets the registry and its history can point at.                *)

ConnIdsUnique ==
    /\ \A s \in Socket :
          /\ phase[s] = "idle" <=> connId[s] = 0
          /\ connId[s] < nextConn
    /\ \A r, s \in Socket : connId[r] = connId[s] /\ connId[s] # 0 => r = s

NamedOnceAccepted ==
    \A s \in Socket : phase[s] # "idle" => client[s] \in Client

EntriesHaveOwners ==
    \A c \in Client :
        /\ registry[c] # NoSocket =>
              /\ client[registry[c]] = c
              /\ IsBound(registry[c]) \/ phase[registry[c]] = "panicked"
        /\ lastBound[c] # NoSocket =>
              /\ client[lastBound[c]] = c
              /\ phase[lastBound[c]] \notin {"idle", "binding"}

DirInv ==
    /\ ConnIdsUnique
    /\ NamedOnceAccepted
    /\ EntriesHaveOwners
    /\ RegistryIsLastBinder

(* The initial registry is empty, and satisfies the invariant.             *)
LEMMA InitDir == Init => DirInv
  BY DEF Init, DirInv, ConnIdsUnique, NamedOnceAccepted, EntriesHaveOwners,
         RegistryIsLastBinder, IsBound

(* An accepted socket has a fresh ConnId.                                  *)
LEMMA AcceptDir ==
    ASSUME TypeOK, DirInv, NEW s \in Socket, NEW c \in Client,
           NEW resumed \in BOOLEAN, Accept(s, c, resumed)
    PROVE  DirInv'
  <1> USE DEF Accept, TypeOK, LoopTypeOK, DirTypeOK, DirInv, dirVars
  <1>1. ConnIdsUnique'
    BY DEF ConnIdsUnique
  <1>2. NamedOnceAccepted'
    BY DEF NamedOnceAccepted
  <1>3. \A d \in Client : registry[d] # s /\ lastBound[d] # s
    BY NoSocketAssumption DEF EntriesHaveOwners, IsBound
  <1>4. EntriesHaveOwners'
    BY <1>3 DEF EntriesHaveOwners, IsBound
  <1>5. RegistryIsLastBinder'
    BY <1>3 DEF RegistryIsLastBinder, IsBound
  <1> QED BY <1>1, <1>2, <1>4, <1>5

(* bind makes the socket the owner and the last binder of the entry.       *)
LEMMA BindDir ==
    ASSUME TypeOK, DirInv, NEW s \in Socket, Bind(s)
    PROVE  DirInv'
  <1> USE DEF Bind, StepPhase, TypeOK, LoopTypeOK, DirTypeOK, DirInv
  <1>1. ConnIdsUnique' /\ NamedOnceAccepted'
    BY DEF ConnIdsUnique, NamedOnceAccepted
  <1>2. client[s] \in Client
    BY DEF NamedOnceAccepted
  <1>3. \A d \in Client : registry[d] # s /\ lastBound[d] # s
    BY NoSocketAssumption DEF EntriesHaveOwners, IsBound
  <1>4. EntriesHaveOwners'
    BY <1>2, <1>3 DEF EntriesHaveOwners, IsBound
  <1>5. RegistryIsLastBinder'
    BY <1>2, <1>3 DEF RegistryIsLastBinder, IsBound
  <1> QED BY <1>1, <1>4, <1>5

(* A step of the loop that leaves the registry alone.                      *)
LEMMA PhaseDir ==
    ASSUME TypeOK, DirInv, NEW s \in Socket,
           UNCHANGED <<registry, lastBound>>,
           \/ StepPhase(s, "welcoming", "connecting")
           \/ StepPhase(s, "connecting", "reading")
           \/ StepPhase(s, "reading", "disconnecting")
           \/ StepPhase(s, "disconnecting", "unbinding")
           \/ StepPhase(s, "aborting", "ended")
           \/ \E p \in {"connecting", "reading", "disconnecting"} :
                 StepPhase(s, p, "panicked")
    PROVE  DirInv'
  <1> USE DEF StepPhase, TypeOK, LoopTypeOK, DirTypeOK, DirInv
  <1>1. ConnIdsUnique' /\ NamedOnceAccepted'
    BY DEF ConnIdsUnique, NamedOnceAccepted
  <1>2. EntriesHaveOwners'
    BY DEF EntriesHaveOwners, IsBound
  <1>3. RegistryIsLastBinder'
    BY DEF RegistryIsLastBinder, IsBound
  <1> QED BY <1>1, <1>2, <1>3

(* The one step that removes an entry: by <1>3 it is the socket's own.     *)
LEMMA UnbindDir ==
    ASSUME TypeOK, DirInv, NEW s \in Socket, Unbind(s)
    PROVE  DirInv'
  <1> USE DEF Unbind, StepPhase, TypeOK, LoopTypeOK, DirTypeOK, DirInv
  <1>1. ConnIdsUnique' /\ NamedOnceAccepted'
    BY DEF ConnIdsUnique, NamedOnceAccepted
  <1>2. client[s] \in Client /\ connId[s] # 0
    BY DEF NamedOnceAccepted, ConnIdsUnique
  <1>3. RegisteredId(client[s]) = connId[s] <=> registry[client[s]] = s
    BY <1>2, NoSocketAssumption DEF RegisteredId, ConnIdsUnique
  <1>4. registry' = [c \in Client |->
                        IF registry[c] = s THEN NoSocket ELSE registry[c]]
    <2>1. \A c \in Client : registry[c] = s => c = client[s]
      BY NoSocketAssumption DEF EntriesHaveOwners
    <2>2. CASE registry[client[s]] = s
      <3>1. registry' = [registry EXCEPT ![client[s]] = NoSocket]
        BY <1>3, <2>2
      <3> QED BY <1>2, <2>1, <2>2, <3>1
    <2>3. CASE registry[client[s]] # s
      <3>1. registry' = registry
        BY <1>3, <2>3
      <3> QED BY <2>1, <2>3, <3>1
    <2> QED BY <2>2, <2>3
  <1>5. EntriesHaveOwners'
    BY <1>4 DEF EntriesHaveOwners, IsBound
  <1>6. RegistryIsLastBinder'
    <2> SUFFICES ASSUME NEW c \in Client
                 PROVE  /\ registry'[c] \in {lastBound[c], NoSocket}
                        /\ lastBound[c] # NoSocket /\ IsBound(lastBound[c])'
                              => registry'[c] = lastBound[c]
      BY DEF RegistryIsLastBinder
    <2>1. CASE registry[c] = s
      BY <1>4, <2>1, NoSocketAssumption DEF RegistryIsLastBinder, IsBound
    <2>2. CASE registry[c] # s
      BY <1>4, <2>2 DEF RegistryIsLastBinder, EntriesHaveOwners, IsBound
    <2> QED BY <2>1, <2>2
  <1> QED BY <1>1, <1>5, <1>6

(* Steps that leave loop and registry alone keep the invariant.            *)
LEMMA UnchangedDir ==
    ASSUME DirInv, UNCHANGED <<loopVars, registry, lastBound>>
    PROVE  DirInv'
  BY DEF DirInv, ConnIdsUnique, NamedOnceAccepted, EntriesHaveOwners,
         RegistryIsLastBinder, IsBound, loopVars

(* Every step keeps the invariant of the registry.                         *)
LEMMA NextDir == TypeOK /\ DirInv /\ [Next]_vars => DirInv'
  <1> SUFFICES ASSUME TypeOK, DirInv, [Next]_vars PROVE DirInv'
    OBVIOUS
  <1>1. CASE UNCHANGED <<loopVars, registry, lastBound>>
    BY <1>1, UnchangedDir
  <1>2. ASSUME NEW s \in Socket, NEW c \in Client, NEW resumed \in BOOLEAN,
               Accept(s, c, resumed)
        PROVE  DirInv'
    BY <1>2, AcceptDir
  <1>3. ASSUME NEW s \in Socket,
               LoopProceeds(s) \/ StreamEnds(s) \/ HookPanics(s)
        PROVE  DirInv'
    <2>1. CASE Bind(s)
      BY <2>1, BindDir
    <2>2. CASE Unbind(s)
      BY <2>2, UnbindDir
    <2>3. CASE ~ Bind(s) /\ ~ Unbind(s)
      BY <1>3, <2>3, PhaseDir
         DEF LoopProceeds, StreamEnds, HookPanics, SendWelcome, OnConnect,
             OnDisconnect, Abort, dirVars
    <2> QED BY <2>1, <2>2, <2>3
  <1>4. ASSUME NEW s \in Socket,
               \/ PumpProceeds(s) \/ PumpAborted(s)
               \/ WriterStep(s) \/ WriterFails(s) \/ WriterAborted(s)
               \/ ReadFrame(s) \/ HookUses(s) \/ UseHandle(s)
        PROVE  UNCHANGED <<loopVars, registry, lastBound>>
    BY <1>4
       DEF PumpProceeds, PumpRecv, PumpLagged, PumpCheck, PumpSend, PumpAborted,
           WriterStep, WriterFails, WriterAborted, WriterEnds, ReadFrame,
           HookUses, UseHandle, ConnOp, dirVars
  <1>5. ASSUME NEW c \in Client, Get(c) \/ SendTo(c)
        PROVE  UNCHANGED <<loopVars, registry, lastBound>>
    BY <1>5 DEF Get, SendTo, dirVars
  <1>6. ASSUME NEW t \in Topic, Emit(t)
        PROVE  UNCHANGED <<loopVars, registry, lastBound>>
    BY <1>6 DEF Emit, dirVars
  <1> QED
    BY <1>1, <1>2, <1>3, <1>4, <1>5, <1>6 DEF Next, vars, dirVars

(* Whatever sockets come, resume and go, and whatever their hooks do, the  *)
(* entry of a client is its last binder's, and is there as long as that    *)
(* socket is up.                                                           *)
THEOREM RegistryCorrect == Spec => []RegistryIsLastBinder
  <1>1. DirInv => RegistryIsLastBinder
    BY DEF DirInv
  <1> QED
    BY <1>1, TypeCorrect, InitDir, NextDir, PTL DEF Spec

(* An entry outlives its socket only if a hook of that socket panicked.    *)
THEOREM NoEntryDangles == Spec => []NoDanglingEntry
  <1>1. TypeOK /\ DirInv => NoDanglingEntry
    BY DEF TypeOK, DirTypeOK, DirInv, EntriesHaveOwners, NoDanglingEntry
  <1> QED
    BY <1>1, TypeCorrect, InitDir, NextDir, PTL DEF Spec

-----------------------------------------------------------------------------
(* Delivery: nothing is lost silently, and an unsubscribe is final.        *)

(* What is queued was published; a receiver belongs to a pump that runs,   *)
(* and a frame in hand to one that checks or sends; what a pump is about   *)
(* to queue is subscribed, or was when it was published.                   *)
QueuedWasPublished(s) == Queued(s) \subseteq 1 .. Len(log)

ReceiverHasPump(s) == s \in live <=> pump[s] \in {"idle", "checking", "sending"}

EmptyHand(s) == pump[s] \notin {"checking", "sending"} => hold[s] = 0

SendingWasWanted(s) ==
    pump[s] = "sending" =>
        log[hold[s]] \in subs[s] \/ hold[s] <= mark[s][log[hold[s]]]

LosesNothing(s) ==
    s \in live => \A t \in subs[s] : \A i \in mark[s][t] + 1 .. cursor[s] :
        log[i] = t => i \in Queued(s) \cup {hold[s]} \cup missed[s]

IsFinal(s) ==
    \A i \in Queued(s) : log[i] \notin subs[s] => i <= mark[s][log[i]]

Delivery(s) ==
    /\ QueuedWasPublished(s)
    /\ ReceiverHasPump(s)
    /\ EmptyHand(s)
    /\ SendingWasWanted(s)
    /\ LosesNothing(s)
    /\ IsFinal(s)

DeliveryInv == \A s \in Socket : Delivery(s)

(* The state of one socket that Delivery reads.                            *)
Unmoved(s) ==
    /\ (s \in live)' = (s \in live)
    /\ cursor'[s] = cursor[s] /\ missed'[s] = missed[s]
    /\ subs'[s] = subs[s] /\ mark'[s] = mark[s]
    /\ out'[s] = out[s] /\ pump'[s] = pump[s] /\ hold'[s] = hold[s]

LEMMA UnmovedDelivery ==
    ASSUME NEW s \in Socket, Delivery(s), Unmoved(s), log' = log
    PROVE  Delivery(s)'
  BY DEF Delivery, Unmoved, QueuedWasPublished, ReceiverHasPump, EmptyHand,
         SendingWasWanted, LosesNothing, IsFinal, Queued, EventIndices

(* The queue after one more frame: it has one more event, if it is one.    *)
LEMMA QueuedAppend ==
    ASSUME TypeOK, NEW s \in Socket, NEW f \in Frame, Enqueue(s, f)
    PROVE  /\ writer[s] = "running" /\ f.kind = "event"
                  => Queued(s)' = Queued(s) \cup {f.pos}
           /\ writer[s] # "running" \/ f.kind # "event" => Queued(s)' = Queued(s)
  <1>1. out \in [Socket -> Seq(Frame)]
    BY DEF TypeOK, OutTypeOK
  <1>2. CASE writer[s] # "running"
    BY <1>2 DEF Enqueue, Queued, EventIndices
  <1>3. CASE writer[s] = "running"
    <2>1. out'[s] = Append(out[s], f)
      BY <1>1, <1>3 DEF Enqueue
    <2>2. /\ Len(out[s]) \in Nat /\ DOMAIN out[s] = 1 .. Len(out[s])
          /\ DOMAIN out'[s] = 1 .. (Len(out[s]) + 1)
          /\ \A k \in 1 .. Len(out[s]) : out'[s][k] = out[s][k]
          /\ out'[s][Len(out[s]) + 1] = f
      BY <1>1, <2>1
    <2>3. 1 .. (Len(out[s]) + 1) = (1 .. Len(out[s])) \cup {Len(out[s]) + 1}
      BY <2>2
    <2>. QED  BY <1>3, <2>2, <2>3 DEF Queued, EventIndices
  <1>. QED  BY <1>2, <1>3

(* Positions and types of one socket.                                      *)
LEMMA SocketType ==
    ASSUME TypeOK, NEW s \in Socket
    PROVE  /\ log \in Seq(Topic) /\ Len(log) \in Nat
           /\ cursor[s] \in Nat /\ cursor[s] <= Len(log)
           /\ subs[s] \subseteq Topic
           /\ mark[s] \in [Topic -> 0 .. MaxPublish]
           /\ \A i \in 1 .. Len(log) : log[i] \in Topic
           /\ hold[s] \in Nat
           /\ pump[s] \in {"checking", "sending"} => hold[s] \in 1 .. Len(log)
  <1>1. /\ log \in Seq(Topic) /\ Len(log) \in Nat /\ cursor[s] \in Nat
        /\ cursor[s] <= Len(log) /\ subs[s] \subseteq Topic
        /\ mark[s] \in [Topic -> 0 .. MaxPublish]
        /\ hold[s] \in 0 .. MaxPublish
        /\ pump[s] \in {"checking", "sending"} => hold[s] \in 1 .. cursor[s]
    BY DEF TypeOK, BusTypeOK, SubTypeOK, PumpTypeOK
  <1>2. \A i \in 1 .. Len(log) : log[i] \in Topic
    BY <1>1
  <1>. QED  BY <1>1, <1>2, MaxPublishAssumption

-----------------------------------------------------------------------------
(* Before the first socket comes, nothing is queued and nobody listens.    *)
LEMMA InitDelivery == Init => DeliveryInv
  <1> SUFFICES ASSUME Init, NEW s \in Socket PROVE Delivery(s)
    BY DEF DeliveryInv
  <1>1. /\ out[s] = << >> /\ pump[s] = "absent" /\ hold[s] = 0
        /\ s \notin live /\ log = << >>
    BY DEF Init, BusInit
  <1>2. DOMAIN out[s] = {}
    BY <1>1
  <1>3. Queued(s) = {}
    BY <1>2 DEF Queued, EventIndices
  <1> QED
    BY <1>1, <1>3
       DEF Delivery, QueuedWasPublished, ReceiverHasPump, EmptyHand,
           SendingWasWanted, LosesNothing, IsFinal

(* A new receiver has passed, and goes without, all that was published.    *)
LEMMA AcceptDelivery ==
    ASSUME TypeOK, NEW s \in Socket, Delivery(s), NEW c \in Client,
           NEW resumed \in BOOLEAN, Accept(s, c, resumed)
    PROVE  Delivery(s)'
  <1>1. /\ log' = log /\ UNCHANGED <<subs, mark, out>>
        /\ cursor'[s] = Len(log) /\ missed'[s] = 1 .. Len(log)
        /\ s \notin live /\ s \in live' /\ pump'[s] = "idle" /\ hold' = hold
    BY DEF Accept, BusSubscribe, TypeOK, BusTypeOK, PumpTypeOK, subVars
  <1>2. Queued(s)' = Queued(s)
    BY <1>1 DEF Queued, EventIndices
  <1>3. QueuedWasPublished(s)' /\ SendingWasWanted(s)' /\ IsFinal(s)'
    BY <1>1, <1>2 DEF Delivery, QueuedWasPublished, SendingWasWanted, IsFinal
  <1>4. LosesNothing(s)'
    BY <1>1, SocketType, MaxPublishAssumption DEF LosesNothing
  <1>5. ReceiverHasPump(s)' /\ EmptyHand(s)'
    BY <1>1 DEF Delivery, ReceiverHasPump, EmptyHand
  <1>. QED  BY <1>3, <1>4, <1>5 DEF Delivery

-----------------------------------------------------------------------------
(* The operations of Conn.  A topic that is subscribed anew owes nothing   *)
(* yet; all that is queued or in hand precedes the end of the log, which   *)
(* is where an unsubscribe puts the mark.                                  *)
LEMMA SubscribeDelivery ==
    ASSUME TypeOK, NEW s \in Socket, Delivery(s), NEW t \in Topic,
           ConnSubscribe(s, t), UNCHANGED <<busVars, pumpVars>>
    PROVE  Delivery(s)'
  <1>1. /\ log' = log /\ live' = live /\ cursor' = cursor /\ missed' = missed
        /\ out' = out /\ pump' = pump /\ hold' = hold
        /\ subs'[s] = subs[s] \cup {t}
        /\ \A u \in Topic : u # t \/ t \in subs[s] => mark'[s][u] = mark[s][u]
        /\ t \notin subs[s] => mark'[s][t] = Len(log)
    BY DEF ConnSubscribe, MoveMark, busVars, pumpVars, outVars, TypeOK, SubTypeOK
  <1>2. Queued(s)' = Queued(s)
    BY <1>1 DEF Queued, EventIndices
  <1>3. QueuedWasPublished(s)' /\ ReceiverHasPump(s)' /\ EmptyHand(s)'
    BY <1>1, <1>2 DEF Delivery, QueuedWasPublished, ReceiverHasPump, EmptyHand
  <1>4. SendingWasWanted(s)'
    BY <1>1, SocketType DEF Delivery, SendingWasWanted
  <1>5. LosesNothing(s)'
    <2> SUFFICES ASSUME s \in live, NEW u \in subs'[s],
                        NEW i \in mark'[s][u] + 1 .. cursor[s], log[i] = u
                 PROVE  i \in Queued(s) \cup {hold[s]} \cup missed[s]
      BY <1>1, <1>2 DEF LosesNothing
    <2>1. CASE u \in subs[s]
      BY <1>1, <2>1, SocketType DEF Delivery, LosesNothing
    <2>2. CASE u \notin subs[s]
      BY <1>1, <2>2, SocketType
    <2> QED  BY <2>1, <2>2
  <1>6. IsFinal(s)'
    BY <1>1, <1>2, SocketType DEF Delivery, IsFinal, QueuedWasPublished
  <1>. QED  BY <1>3, <1>4, <1>5, <1>6 DEF Delivery

(* Leaving a topic: what is owed shrinks, what is final grows by nothing.   *)
LEMMA UnsubscribeDelivery ==
    ASSUME TypeOK, NEW s \in Socket, Delivery(s), NEW t \in Topic,
           ConnUnsubscribe(s, t), UNCHANGED <<busVars, pumpVars>>
    PROVE  Delivery(s)'
  <1>1. /\ log' = log /\ live' = live /\ cursor' = cursor /\ missed' = missed
        /\ out' = out /\ pump' = pump /\ hold' = hold
        /\ subs'[s] = subs[s] \ {t}
        /\ \A u \in Topic : u # t \/ t \notin subs[s] => mark'[s][u] = mark[s][u]
        /\ t \in subs[s] => mark'[s][t] = Len(log)
    BY DEF ConnUnsubscribe, MoveMark, busVars, pumpVars, outVars, TypeOK, SubTypeOK
  <1>2. Queued(s)' = Queued(s)
    BY <1>1 DEF Queued, EventIndices
  <1>3. QueuedWasPublished(s)' /\ ReceiverHasPump(s)' /\ EmptyHand(s)'
    BY <1>1, <1>2 DEF Delivery, QueuedWasPublished, ReceiverHasPump, EmptyHand
  <1>4. SendingWasWanted(s)'
    BY <1>1, SocketType DEF Delivery, SendingWasWanted
  <1>5. LosesNothing(s)'
    BY <1>1, <1>2, SocketType DEF Delivery, LosesNothing
  <1>6. IsFinal(s)'
    BY <1>1, <1>2, SocketType DEF Delivery, IsFinal, QueuedWasPublished
  <1>. QED  BY <1>3, <1>4, <1>5, <1>6 DEF Delivery

(* A welcome or a direct send queues no event.                             *)
LEMMA OtherFrameDelivery ==
    ASSUME TypeOK, NEW s \in Socket, Delivery(s), NEW f \in {Welcome, Direct},
           Enqueue(s, f), UNCHANGED <<busVars, subVars, pumpVars>>
    PROVE  Delivery(s)'
  <1>1. f \in Frame /\ f.kind # "event"
    BY DEF Frame, Welcome, Direct
  <1>2. Queued(s)' = Queued(s)
    BY <1>1, QueuedAppend
  <1>. QED
    BY <1>2 DEF Delivery, QueuedWasPublished, ReceiverHasPump, EmptyHand,
       SendingWasWanted, LosesNothing, IsFinal, busVars, subVars, pumpVars

(* Whoever uses a conn.                                                    *)
LEMMA ConnOpDelivery ==
    ASSUME TypeOK, NEW s \in Socket, Delivery(s), ConnOp(s)
    PROVE  Delivery(s)'
  BY SubscribeDelivery, UnsubscribeDelivery, OtherFrameDelivery DEF ConnOp, ConnSend

-----------------------------------------------------------------------------
(* The pump.  Its hand is empty when it receives.                          *)
LEMMA RecvDelivery ==
    ASSUME TypeOK, NEW s \in Socket, Delivery(s), PumpRecv(s)
    PROVE  Delivery(s)'
  <1>1. /\ log' = log /\ live' = live /\ missed' = missed
        /\ subs' = subs /\ mark' = mark /\ out' = out
        /\ cursor'[s] = cursor[s] + 1 /\ hold'[s] = cursor[s] + 1
        /\ pump[s] = "idle" /\ pump'[s] = "checking"
    BY DEF PumpRecv, BusRecv, subVars, outVars, TypeOK, BusTypeOK, PumpTypeOK
  <1>2. Queued(s)' = Queued(s)
    BY <1>1 DEF Queued, EventIndices
  <1>3. /\ QueuedWasPublished(s)' /\ ReceiverHasPump(s)' /\ EmptyHand(s)'
        /\ SendingWasWanted(s)' /\ IsFinal(s)'
    BY <1>1, <1>2 DEF Delivery, QueuedWasPublished, ReceiverHasPump, EmptyHand,
       SendingWasWanted, IsFinal
  <1>4. LosesNothing(s)'
    <2> SUFFICES ASSUME s \in live, NEW t \in subs[s],
                        NEW i \in mark[s][t] + 1 .. cursor[s] + 1, log[i] = t
                 PROVE  i \in Queued(s) \cup {cursor[s] + 1} \cup missed[s]
      BY <1>1, <1>2 DEF LosesNothing
    <2>1. /\ mark[s][t] \in Nat /\ cursor[s] \in Nat /\ hold[s] = 0 /\ i # 0
      BY <1>1, SocketType, MaxPublishAssumption DEF Delivery, EmptyHand
    <2>2. CASE i = cursor[s] + 1
      BY <2>2
    <2>3. CASE i # cursor[s] + 1
      <3>1. i \in mark[s][t] + 1 .. cursor[s]
        BY <2>1, <2>3
      <3>. QED  BY <2>1, <3>1 DEF Delivery, LosesNothing
    <2>. QED  BY <2>2, <2>3
  <1>. QED  BY <1>3, <1>4 DEF Delivery

(* What a lag skips is missed.                                             *)
LEMMA LaggedDelivery ==
    ASSUME TypeOK, NEW s \in Socket, Delivery(s), PumpLagged(s)
    PROVE  Delivery(s)'
  <1>1. /\ log' = log /\ live' = live /\ subs' = subs /\ mark' = mark
        /\ out' = out /\ hold' = hold /\ pump' = pump
        /\ cursor'[s] = Len(log) - Capacity
        /\ missed'[s] = missed[s] \cup (cursor[s] + 1 .. Len(log) - Capacity)
    BY DEF PumpLagged, BusLagged, subVars, outVars, pumpVars, TypeOK, BusTypeOK
  <1>2. Queued(s)' = Queued(s)
    BY <1>1 DEF Queued, EventIndices
  <1>3. /\ QueuedWasPublished(s)' /\ ReceiverHasPump(s)' /\ EmptyHand(s)'
        /\ SendingWasWanted(s)' /\ IsFinal(s)'
    BY <1>1, <1>2 DEF Delivery, QueuedWasPublished, ReceiverHasPump, EmptyHand,
       SendingWasWanted, IsFinal
  <1>4. LosesNothing(s)'
    <2> SUFFICES ASSUME s \in live, NEW t \in subs[s],
                        NEW i \in mark[s][t] + 1 .. Len(log) - Capacity, log[i] = t
                 PROVE  i \in Queued(s) \cup {hold[s]} \cup missed'[s]
      BY <1>1, <1>2 DEF LosesNothing
    <2>1. CASE i > cursor[s]
      BY <1>1, <2>1, SocketType, MaxPublishAssumption, CapacityAssumption
    <2>2. CASE ~ (i > cursor[s])
      <3>1. i \in mark[s][t] + 1 .. cursor[s]
        BY <2>2, SocketType, MaxPublishAssumption, CapacityAssumption
      <3>. QED  BY <1>1, <3>1 DEF Delivery, LosesNothing
    <2>. QED  BY <2>1, <2>2
  <1>. QED  BY <1>3, <1>4 DEF Delivery

(* The filter lets go of what is not subscribed, and of nothing else.      *)
LEMMA CheckDelivery ==
    ASSUME TypeOK, NEW s \in Socket, Delivery(s), PumpCheck(s)
    PROVE  Delivery(s)'
  <1>1. /\ log' = log /\ live' = live /\ missed' = missed /\ cursor' = cursor
        /\ subs' = subs /\ mark' = mark /\ out' = out /\ pump[s] = "checking"
        /\ \/ log[hold[s]] \in subs[s] /\ pump'[s] = "sending" /\ hold'[s] = hold[s]
           \/ log[hold[s]] \notin subs[s] /\ pump'[s] = "idle" /\ hold'[s] = 0
    BY DEF PumpCheck, busVars, subVars, outVars, TypeOK, PumpTypeOK
  <1>2. Queued(s)' = Queued(s)
    BY <1>1 DEF Queued, EventIndices
  <1>3. /\ QueuedWasPublished(s)' /\ ReceiverHasPump(s)' /\ EmptyHand(s)'
        /\ SendingWasWanted(s)' /\ IsFinal(s)'
    BY <1>1, <1>2 DEF Delivery, QueuedWasPublished, ReceiverHasPump, EmptyHand,
       SendingWasWanted, IsFinal
  <1>4. LosesNothing(s)'
    BY <1>1, <1>2 DEF Delivery, LosesNothing
  <1>. QED  BY <1>3, <1>4 DEF Delivery

(* A pump that ends lets go of its receiver.                               *)
LEMMA EndDelivery ==
    ASSUME TypeOK, NEW s \in Socket, Delivery(s), PumpEnds(s),
           UNCHANGED <<out, subVars>>
    PROVE  Delivery(s)'
  <1>1. /\ log' = log /\ s \notin live' /\ subs' = subs /\ mark' = mark
        /\ out' = out /\ pump'[s] = "gone" /\ hold'[s] = 0
    BY DEF PumpEnds, BusDrop, subVars, TypeOK, PumpTypeOK
  <1>2. Queued(s)' = Queued(s)
    BY <1>1 DEF Queued, EventIndices
  <1>. QED
    BY <1>1, <1>2 DEF Delivery, QueuedWasPublished, ReceiverHasPump, EmptyHand,
       SendingWasWanted, LosesNothing, IsFinal

(* What the pump had in hand is queued, if anybody still takes it.         *)
LEMMA SendDelivery ==
    ASSUME TypeOK, NEW s \in Socket, Delivery(s), PumpSend(s)
    PROVE  Delivery(s)'
  <1>0. pump[s] = "sending" /\ hold[s] \in 1 .. Len(log)
    BY SocketType DEF PumpSend
  <1>1. Event(hold[s]) \in Frame /\ Event(hold[s]).kind = "event"
        /\ Event(hold[s]).pos = hold[s]
    BY <1>0, MaxPublishAssumption DEF Frame, Event, TypeOK, BusTypeOK
  <1>2. CASE writer[s] # "running"
    BY <1>2, EndDelivery DEF PumpSend, Enqueue
  <1>3. CASE writer[s] = "running"
    <2>1. /\ log' = log /\ live' = live /\ missed' = missed /\ cursor' = cursor
          /\ subs' = subs /\ mark' = mark /\ pump'[s] = "idle" /\ hold'[s] = 0
      BY <1>3 DEF PumpSend, busVars, subVars, TypeOK, PumpTypeOK
    <2>2. Queued(s)' = Queued(s) \cup {hold[s]}
      BY <1>1, <1>3, QueuedAppend DEF PumpSend
    <2>3. QueuedWasPublished(s)' /\ ReceiverHasPump(s)' /\ EmptyHand(s)'
          /\ SendingWasWanted(s)'
      BY <1>0, <2>1, <2>2 DEF Delivery, QueuedWasPublished, ReceiverHasPump,
         EmptyHand, SendingWasWanted
    <2>4. LosesNothing(s)'
      BY <2>1, <2>2 DEF Delivery, LosesNothing
    <2>5. IsFinal(s)'
      BY <1>0, <2>1, <2>2 DEF Delivery, IsFinal, SendingWasWanted
    <2>. QED  BY <2>3, <2>4, <2>5 DEF Delivery
  <1>. QED  BY <1>2, <1>3

(* A publication moves the end of the log, and nothing before it.          *)
LEMMA EmitDelivery ==
    ASSUME TypeOK, NEW s \in Socket, Delivery(s), NEW t \in Topic, Emit(t)
    PROVE  Delivery(s)'
  <1>1. /\ live' = live /\ missed' = missed /\ cursor' = cursor
        /\ subs' = subs /\ mark' = mark /\ out' = out
        /\ pump' = pump /\ hold' = hold
        /\ log' = log \/ log' = Append(log, t)
    BY DEF Emit, BusPublish, subVars, outVars, pumpVars
  <1>2. /\ Len(log) <= Len(log') /\ Len(log') \in Nat
        /\ \A i \in 1 .. Len(log) : log'[i] = log[i]
    BY <1>1, SocketType
  <1>3. Queued(s)' = Queued(s)
    BY <1>1 DEF Queued, EventIndices
  <1>4. QueuedWasPublished(s)' /\ ReceiverHasPump(s)' /\ EmptyHand(s)'
    BY <1>1, <1>2, <1>3, SocketType
       DEF Delivery, QueuedWasPublished, ReceiverHasPump, EmptyHand
  <1>5. SendingWasWanted(s)'
    BY <1>1, <1>2, SocketType DEF Delivery, SendingWasWanted
  <1>6. LosesNothing(s)'
    <2>1. ASSUME NEW u \in subs[s], NEW i \in mark[s][u] + 1 .. cursor[s]
          PROVE  log'[i] = log[i]
      <3>1. mark[s][u] \in Nat
        BY SocketType, MaxPublishAssumption
      <3>2. i \in 1 .. Len(log)
        BY <3>1, SocketType
      <3>. QED  BY <1>2, <3>2
    <2>. QED  BY <1>1, <1>3, <2>1 DEF Delivery, LosesNothing
  <1>7. IsFinal(s)'
    BY <1>1, <1>2, <1>3 DEF Delivery, IsFinal, QueuedWasPublished
  <1>. QED  BY <1>4, <1>5, <1>6, <1>7 DEF Delivery

-----------------------------------------------------------------------------
(* No step of one socket moves what another is owed.                       *)
LEMMA OneSocketMoves ==
    ASSUME TypeOK, NEW s \in Socket, NEW r \in Socket, r # s,
           \/ \E c \in Client, resumed \in BOOLEAN : Accept(s, c, resumed)
           \/ ConnOp(s)
           \/ SendWelcome(s)
           \/ PumpProceeds(s)
           \/ PumpAborted(s)
    PROVE  Unmoved(r) /\ log' = log
  <1>. USE DEF Unmoved, busVars, subVars, outVars, pumpVars,
           TypeOK, BusTypeOK, SubTypeOK, OutTypeOK, PumpTypeOK
  <1>1. ASSUME NEW c \in Client, NEW resumed \in BOOLEAN, Accept(s, c, resumed)
        PROVE  Unmoved(r) /\ log' = log
    BY <1>1 DEF Accept, BusSubscribe
  <1>2. CASE ConnOp(s)
    <2>1. CASE ConnSend(s)
      BY <1>2, <2>1 DEF ConnOp, ConnSend, Enqueue
    <2>2. ASSUME NEW t \in Topic, ConnSubscribe(s, t) PROVE Unmoved(r) /\ log' = log
      BY <1>2, <2>2 DEF ConnOp, ConnSubscribe, MoveMark
    <2>3. ASSUME NEW t \in Topic, ConnUnsubscribe(s, t) PROVE Unmoved(r) /\ log' = log
      BY <1>2, <2>3 DEF ConnOp, ConnUnsubscribe, MoveMark
    <2>. QED  BY <1>2, <2>1, <2>2, <2>3 DEF ConnOp
  <1>3. CASE SendWelcome(s)
    BY <1>3 DEF SendWelcome, Enqueue
  <1>4. CASE PumpRecv(s)
    BY <1>4 DEF PumpRecv, BusRecv
  <1>5. CASE PumpLagged(s)
    BY <1>5 DEF PumpLagged, BusLagged
  <1>6. CASE PumpCheck(s)
    BY <1>6 DEF PumpCheck
  <1>7. CASE PumpSend(s)
    BY <1>7 DEF PumpSend, Enqueue, PumpEnds, BusDrop
  <1>8. CASE PumpAborted(s)
    BY <1>8 DEF PumpAborted, PumpEnds, BusDrop
  <1>. QED  BY <1>1, <1>2, <1>3, <1>4, <1>5, <1>6, <1>7, <1>8 DEF PumpProceeds

(* So it is enough to look at the socket that moved.                       *)
LEMMA DeliveryByOne ==
    ASSUME TypeOK, DeliveryInv, NEW s \in Socket, Delivery(s)',
           \A r \in Socket : r # s => Unmoved(r) /\ log' = log
    PROVE  DeliveryInv'
  <1>1. ASSUME NEW r \in Socket PROVE Delivery(r)'
    <2>1. CASE r = s
      BY <2>1
    <2>2. CASE r # s
      BY <2>2, UnmovedDelivery DEF DeliveryInv
    <2>. QED  BY <2>1, <2>2
  <1>. QED  BY <1>1 DEF DeliveryInv

(* The steps that only move phases, the registry or the writer.            *)
LEMMA StillDelivery ==
    ASSUME DeliveryInv, UNCHANGED <<busVars, subVars, out, pumpVars>>
    PROVE  DeliveryInv'
  <1>1. ASSUME NEW s \in Socket PROVE Delivery(s)'
    <2>1. Delivery(s) /\ Unmoved(s) /\ log' = log
      BY DEF DeliveryInv, Unmoved, busVars, subVars, pumpVars
    <2>. QED  BY <2>1, UnmovedDelivery
  <1>. QED  BY <1>1 DEF DeliveryInv

(* Every step keeps what every socket is owed.                             *)
LEMMA NextDelivery == TypeOK /\ DeliveryInv /\ [Next]_vars => DeliveryInv'
  <1> SUFFICES ASSUME TypeOK, DeliveryInv, [Next]_vars PROVE DeliveryInv'
    OBVIOUS
  <1>1. CASE UNCHANGED <<busVars, subVars, out, pumpVars>>
    BY <1>1, StillDelivery
  <1>2. ASSUME NEW s \in Socket, NEW c \in Client, NEW resumed \in BOOLEAN,
               Accept(s, c, resumed)
        PROVE  DeliveryInv'
    <2>1. Delivery(s)'
      BY <1>2, AcceptDelivery DEF DeliveryInv
    <2>. QED  BY <1>2, <2>1, OneSocketMoves, DeliveryByOne
  <1>3. ASSUME NEW s \in Socket, ConnOp(s)
        PROVE  DeliveryInv'
    <2>1. Delivery(s)'
      BY <1>3, ConnOpDelivery DEF DeliveryInv
    <2>. QED  BY <1>3, <2>1, OneSocketMoves, DeliveryByOne
  <1>4. ASSUME NEW s \in Socket, SendWelcome(s)
        PROVE  DeliveryInv'
    <2>1. Delivery(s)'
      BY <1>4, OtherFrameDelivery DEF DeliveryInv, SendWelcome
    <2>. QED  BY <1>4, <2>1, OneSocketMoves, DeliveryByOne
  <1>5. ASSUME NEW s \in Socket, PumpProceeds(s)
        PROVE  DeliveryInv'
    <2>1. Delivery(s)'
      BY <1>5, RecvDelivery, LaggedDelivery, CheckDelivery, SendDelivery
         DEF DeliveryInv, PumpProceeds
    <2>. QED  BY <1>5, <2>1, OneSocketMoves, DeliveryByOne
  <1>6. ASSUME NEW s \in Socket, PumpAborted(s)
        PROVE  DeliveryInv'
    <2>1. Delivery(s)'
      BY <1>6, EndDelivery DEF DeliveryInv, PumpAborted, outVars
    <2>. QED  BY <1>6, <2>1, OneSocketMoves, DeliveryByOne
  <1>7. ASSUME NEW t \in Topic, Emit(t)
        PROVE  DeliveryInv'
    BY <1>7, EmitDelivery DEF DeliveryInv
  <1>8. ASSUME NEW c \in Client, SendTo(c)
        PROVE  DeliveryInv'
    <2>1. registry[c] \in Socket /\ ConnOp(registry[c])
      BY <1>8 DEF SendTo, ConnOp, TypeOK, DirTypeOK
    <2>. QED  BY <1>3, <2>1
  <1>9. ASSUME NEW c \in Client, Get(c)
        PROVE  DeliveryInv'
    BY <1>1, <1>9 DEF Get, outVars
  <1>10. ASSUME NEW s \in Socket, ReadFrame(s) \/ HookUses(s) \/ UseHandle(s)
         PROVE  DeliveryInv'
    BY <1>3, <1>10 DEF ReadFrame, HookUses, UseHandle
  <1>11. ASSUME NEW s \in Socket, LoopProceeds(s) \/ StreamEnds(s) \/ HookPanics(s)
         PROVE  DeliveryInv'
    BY <1>1, <1>4, <1>11
       DEF LoopProceeds, StreamEnds, HookPanics, Bind, OnConnect, OnDisconnect,
           Unbind, Abort, outVars
  <1>12. ASSUME NEW s \in Socket, WriterStep(s) \/ WriterFails(s) \/ WriterAborted(s)
         PROVE  DeliveryInv'
    BY <1>1, <1>12 DEF WriterStep, WriterFails, WriterAborted, WriterEnds
  <1>13. CASE UNCHANGED vars
    BY <1>1, <1>13 DEF vars, outVars
  <1>. QED
    BY <1>2, <1>5, <1>6, <1>7, <1>8, <1>9, <1>10, <1>11, <1>12, <1>13 DEF Next

(* Whatever the pump, the writer, the hooks and the teardown do, and in    *)
(* whatever order, an event on a topic a socket is subscribed to is queued *)
(* for it, in the hand of its pump, or one of those that lag overwrote.    *)
THEOREM LossIsNeverSilent == Spec => []NoSilentLoss
  <1>1. TypeOK /\ DeliveryInv => NoSilentLoss
    BY DEF TypeOK, BusTypeOK, DeliveryInv, Delivery, LosesNothing, NoSilentLoss
  <1>. QED
    BY <1>1, TypeCorrect, InitDelivery, NextDelivery, PTL DEF Spec

(* However late the pump is, what it queues of a topic after the socket    *)
(* has unsubscribed it was published before.                               *)
THEOREM UnsubscribeFinal == Spec => []UnsubscribeIsFinal
  <1>1. DeliveryInv => UnsubscribeIsFinal
    BY DEF DeliveryInv, Delivery, IsFinal, UnsubscribeIsFinal
  <1>. QED
    BY <1>1, TypeCorrect, InitDelivery, NextDelivery, PTL DEF Spec

-----------------------------------------------------------------------------
(* Feed.  First what Nth and EventsOut say: the numbers of a finite set,   *)
(* and the events of a queue, in order.                                    *)

Upto(S, i) == {j \in S : j <= i}

(* Every number of a finite set of n has one of the places 1 .. n, and     *)
(* every place its number.                                                 *)
LEMMA Numbering ==
    ASSUME NEW S \in SUBSET Nat, IsFiniteSet(S)
    PROVE  /\ Cardinality(S) \in Nat
           /\ \A k \in 1 .. Cardinality(S) : Nth(S, k) \in AtPlace(S, k)
           /\ \A i \in S : \E k \in 1 .. Cardinality(S) :
                 AtPlace(S, k) = {i}
  <1>. DEFINE n == Cardinality(S)
              f == [i \in S |-> Cardinality(Upto(S, i))]
  <1>1. n \in Nat
    BY FS_CardinalityType
  <1>2. ASSUME NEW i \in S PROVE IsFiniteSet(Upto(S, i)) /\ f[i] \in 1 .. n
    <2>1. Upto(S, i) \in SUBSET S /\ i \in Upto(S, i)
      BY DEF Upto
    <2>2. IsFiniteSet(Upto(S, i)) /\ Cardinality(Upto(S, i)) <= n
      BY <2>1, FS_Subset
    <2>3. Cardinality(Upto(S, i)) \in Nat /\ Cardinality(Upto(S, i)) # 0
      BY <2>1, <2>2, FS_CardinalityType, FS_EmptySet
    <2>. QED  BY <1>1, <2>2, <2>3
  <1>3. ASSUME NEW i \in S, NEW j \in S, i < j PROVE f[i] # f[j]
    <2>1. \A k \in S : k <= i => k <= j
      BY <1>3
    <2>2. ~ (j <= i) /\ j <= j
      BY <1>3
    <2>3. Upto(S, i) \in SUBSET Upto(S, j) /\ Upto(S, i) # Upto(S, j)
      BY <2>1, <2>2 DEF Upto
    <2>4. IsFiniteSet(Upto(S, j))
      BY <1>2
    <2>5. Cardinality(Upto(S, i)) # Cardinality(Upto(S, j))
      BY <2>3, <2>4, FS_Subset
    <2>. QED  BY <2>5
  <1>4. f \in [S -> 1 .. n]
    BY <1>2
  <1>5. \A i, j \in S : f[i] = f[j] => i = j
    <2>. SUFFICES ASSUME NEW i \in S, NEW j \in S, i # j PROVE f[i] # f[j]
      OBVIOUS
    <2>1. i < j \/ j < i
      OBVIOUS
    <2>. QED  BY <1>3, <2>1
  <1>6. f \in Injection(S, 1 .. n)
    BY <1>4, <1>5 DEF Injection, IsInjective
  <1>7. IsFiniteSet(1 .. n) /\ Cardinality(1 .. n) = n
    BY <1>1, FS_Interval
  <1>8. f \in Surjection(S, 1 .. n)
    BY <1>6, <1>7, FS_Injection
  <1>9. \A i \in S : \A k \in 1 .. n : i \in AtPlace(S, k) <=> f[i] = k
    BY DEF AtPlace, Upto
  <1>10. \A k \in 1 .. n : \E i \in S : f[i] = k
    BY <1>8 DEF Surjection
  <1>11. ASSUME NEW k \in 1 .. n PROVE Nth(S, k) \in AtPlace(S, k)
    BY <1>9, <1>10 DEF Nth
  <1>. HIDE DEF f
  <1>12. ASSUME NEW i \in S PROVE AtPlace(S, f[i]) = {i}
    <2>1. \A j \in AtPlace(S, f[i]) : j \in S
      BY DEF AtPlace
    <2>2. f[i] \in 1 .. n
      BY <1>2
    <2>3. \A j \in S : j \in AtPlace(S, f[i]) <=> f[j] = f[i]
      BY <1>9, <2>2
    <2>4. \A j : j \in AtPlace(S, f[i]) <=> j = i
      BY <1>5, <2>1, <2>3
    <2>. QED  BY <2>4
  <1>. QED  BY <1>1, <1>2, <1>11, <1>12

(* A number beyond all others takes the place after theirs.                *)
LEMMA NumberingAppend ==
    ASSUME NEW S \in SUBSET Nat, IsFiniteSet(S), NEW x \in Nat,
           \A i \in S : i < x
    PROVE  /\ Cardinality(S \cup {x}) = Cardinality(S) + 1
           /\ \A k \in 1 .. Cardinality(S) : Nth(S \cup {x}, k) = Nth(S, k)
           /\ Nth(S \cup {x}, Cardinality(S) + 1) = x
  <1>. DEFINE n == Cardinality(S)
              T == S \cup {x}
  <1>1. n \in Nat
    BY FS_CardinalityType
  <1>2. x \notin S /\ Cardinality(T) = n + 1
    BY FS_AddElement
  <1>3. \A i \in S : {j \in T : j <= i} = {j \in S : j <= i}
    OBVIOUS
  <1>4. {j \in T : j <= x} = T
    <2>1. \A j \in T : j <= x
      OBVIOUS
    <2>. QED  BY <2>1
  <1>5. ASSUME NEW k \in 1 .. n PROVE Nth(T, k) = Nth(S, k)
    <2>1. k # n + 1
      BY <1>1
    <2>2. AtPlace(T, k) = AtPlace(S, k)
      BY <1>2, <1>3, <1>4, <2>1 DEF AtPlace
    <2>. QED  BY <2>2 DEF Nth
  <1>6. Nth(T, n + 1) = x
    <2>1. \A i \in S : Cardinality({j \in S : j <= i}) # n + 1
      <3>. SUFFICES ASSUME NEW i \in S
                    PROVE  Cardinality({j \in S : j <= i}) # n + 1
        OBVIOUS
      <3>1. {j \in S : j <= i} \in SUBSET S
        OBVIOUS
      <3>2. Cardinality({j \in S : j <= i}) <= n
        BY <3>1, FS_Subset
      <3>. QED  BY <1>1, <3>2
    <2>2. AtPlace(T, n + 1) = {x}
      BY <1>2, <1>3, <1>4, <2>1 DEF AtPlace
    <2>. QED  BY <2>2 DEF Nth
  <1>. QED  BY <1>2, <1>5, <1>6

LEMMA EventIndicesType ==
    ASSUME TypeOK, NEW s \in Socket
    PROVE  /\ EventIndices(s) \in SUBSET Nat
           /\ IsFiniteSet(EventIndices(s))
           /\ EventIndices(s) \subseteq 1 .. Len(out[s])
           /\ Len(out[s]) \in Nat
  <1>1. /\ out[s] \in Seq(Frame)
        /\ Len(out[s]) \in Nat /\ DOMAIN out[s] = 1 .. Len(out[s])
    BY DEF TypeOK, OutTypeOK
  <1>2. EventIndices(s) \in SUBSET (1 .. Len(out[s]))
    BY <1>1 DEF EventIndices
  <1>3. IsFiniteSet(1 .. Len(out[s]))
    BY <1>1, FS_Interval
  <1>4. IsFiniteSet(EventIndices(s))
    BY <1>2, <1>3, FS_Subset
  <1>. QED  BY <1>1, <1>2, <1>4

(* EventsOut is a sequence, of what Queued is the set.                     *)
LEMMA EventsOutIs ==
    ASSUME TypeOK, NEW s \in Socket
    PROVE  /\ EventsOut(s) \in Seq(Nat)
           /\ Len(EventsOut(s)) = Cardinality(EventIndices(s))
           /\ {EventsOut(s)[k] : k \in DOMAIN EventsOut(s)} = Queued(s)
  <1>. DEFINE S == EventIndices(s)
              n == Cardinality(S)
  <1>1. /\ n \in Nat
        /\ \A k \in 1 .. n : Nth(S, k) \in AtPlace(S, k)
        /\ \A i \in S : \E k \in 1 .. n : AtPlace(S, k) = {i}
    BY EventIndicesType, Numbering
  <1>2. \A k \in 1 .. n : Nth(S, k) \in S
    BY <1>1 DEF AtPlace
  <1>3. \A i \in S : \E k \in 1 .. n : Nth(S, k) = i
    BY <1>1
  <1>4. \A i \in S : out[s][i].pos \in Nat
    <2>1. \A f \in Frame : f.pos \in Nat
      BY MaxPublishAssumption DEF Frame, Welcome, Direct, Event
    <2>2. \A i \in S : out[s][i] \in Frame
      BY EventIndicesType DEF TypeOK, OutTypeOK
    <2>. QED  BY <2>1, <2>2
  <1>5. /\ DOMAIN EventsOut(s) = 1 .. n
        /\ \A k \in 1 .. n : EventsOut(s)[k] = out[s][Nth(S, k)].pos
    BY DEF EventsOut
  <1>6. EventsOut(s) \in [1 .. n -> Nat]
    BY <1>2, <1>4 DEF EventsOut
  <1>7. EventsOut(s) \in Seq(Nat) /\ Len(EventsOut(s)) = n
    BY <1>1, <1>6
  <1>. HIDE DEF n, S
  <1>8. {EventsOut(s)[k] : k \in 1 .. n} = {out[s][i].pos : i \in S}
    BY <1>2, <1>3, <1>5
  <1>. QED  BY <1>5, <1>7, <1>8 DEF Queued, n, S

(* It is a matter of the queue alone.                                      *)
LEMMA EventsOutSame ==
    ASSUME NEW s \in Socket, out'[s] = out[s]
    PROVE  EventsOut(s)' = EventsOut(s) /\ Queued(s)' = Queued(s)
  <1>1. EventIndices(s)' = EventIndices(s)
    BY DEF EventIndices
  <1>. QED  BY <1>1 DEF EventsOut, Queued

(* An event that is queued is handed over last; no other frame counts.     *)
LEMMA EventsOutAppend ==
    ASSUME TypeOK, NEW s \in Socket, NEW f \in Frame, f.pos \in Nat,
           out'[s] = Append(out[s], f)
    PROVE  EventsOut(s)' = IF f.kind = "event" THEN Append(EventsOut(s), f.pos)
                                               ELSE EventsOut(s)
  <1>. DEFINE S == EventIndices(s)
              n == Cardinality(S)
              x == Len(out[s]) + 1
  <1>1. /\ S \in SUBSET Nat /\ IsFiniteSet(S) /\ x \in Nat
        /\ \A i \in S : i < x /\ i \in 1 .. Len(out[s])
    BY EventIndicesType
  <1>2. /\ DOMAIN out[s] = 1 .. Len(out[s])
        /\ DOMAIN out'[s] = (1 .. Len(out[s])) \cup {x}
        /\ \A k \in 1 .. Len(out[s]) : out'[s][k] = out[s][k]
        /\ out'[s][x] = f
    <2>1. out[s] \in Seq(Frame) /\ Len(out[s]) \in Nat
      BY DEF TypeOK, OutTypeOK
    <2>2. 1 .. (Len(out[s]) + 1) = (1 .. Len(out[s])) \cup {Len(out[s]) + 1}
      BY <2>1
    <2>. QED  BY <2>1, <2>2
  <1>3. /\ n \in Nat
        /\ \A k \in 1 .. n : Nth(S, k) \in S
    BY <1>1, Numbering DEF AtPlace
  <1>4. CASE f.kind # "event"
    <2>1. EventIndices(s)' = S
      BY <1>2, <1>4 DEF EventIndices
    <2>2. \A k \in 1 .. n : out'[s][Nth(S, k)] = out[s][Nth(S, k)]
      BY <1>1, <1>2, <1>3
    <2>. QED  BY <1>4, <2>1, <2>2 DEF EventsOut
  <1>5. CASE f.kind = "event"
    <2>1. EventIndices(s)' = S \cup {x}
      BY <1>2, <1>5 DEF EventIndices
    <2>2. /\ Cardinality(S \cup {x}) = n + 1
          /\ \A k \in 1 .. n : Nth(S \cup {x}, k) = Nth(S, k)
          /\ Nth(S \cup {x}, n + 1) = x
      BY <1>1, NumberingAppend
    <2>. DEFINE T == S \cup {x}
    <2>3. EventsOut(s)' = [k \in 1 .. n + 1 |-> out'[s][Nth(T, k)].pos]
      BY <2>1, <2>2 DEF EventsOut
    <2>4. /\ \A k \in 1 .. n : out'[s][Nth(T, k)] = out[s][Nth(S, k)]
          /\ out'[s][Nth(T, n + 1)] = f
      BY <1>1, <1>2, <1>3, <2>2
    <2>5. /\ EventsOut(s) \in Seq(Nat) /\ Len(EventsOut(s)) = n
          /\ \A k \in 1 .. n : EventsOut(s)[k] = out[s][Nth(S, k)].pos
      BY EventsOutIs DEF EventsOut
    <2>6. Append(EventsOut(s), f.pos) =
              [k \in 1 .. n + 1 |-> IF k = n + 1 THEN f.pos ELSE EventsOut(s)[k]]
      BY <2>5, <1>3
    <2>7. \A k \in 1 .. n + 1 :
              out'[s][Nth(T, k)].pos = IF k = n + 1 THEN f.pos ELSE EventsOut(s)[k]
      <3>. SUFFICES ASSUME NEW k \in 1 .. n + 1, k # n + 1
                    PROVE  out'[s][Nth(T, k)].pos = EventsOut(s)[k]
        BY <2>4
      <3>1. k \in 1 .. n
        BY <1>3
      <3>. QED  BY <2>4, <2>5, <3>1
    <2>. QED  BY <1>5, <2>3, <2>6, <2>7
  <1>. QED  BY <1>4, <1>5

-----------------------------------------------------------------------------
(* A socket that was not accepted has an empty queue; what is queued, the  *)
(* receiver has passed; what the pump has in hand is not queued yet.       *)
Fresh(s) == phase[s] = "idle" => out[s] = << >> /\ writer[s] = "absent"

QueuedWasPassed(s) == s \in live => Queued(s) \subseteq 1 .. cursor[s]

HandIsNew(s) == pump[s] \in {"checking", "sending"} => hold[s] \notin Queued(s)

Serving(s) == Fresh(s) /\ QueuedWasPassed(s) /\ HandIsNew(s)

ServingInv == \A s \in Socket : Serving(s)

IInv == TypeOK /\ DeliveryInv /\ ServingInv

Omitted(s) ==
    IF s \in live THEN (1 .. cursor[s]) \ (Queued(s) \cup {hold[s]}) ELSE {}

(* Nothing moves of what Serving, EventsOut and Omitted read.              *)
Still(s) ==
    /\ phase'[s] = "idle" =>
          phase[s] = "idle" /\ out'[s] = out[s] /\ writer'[s] = writer[s]
    /\ (s \in live)' = (s \in live)
    /\ cursor'[s] = cursor[s] /\ pump'[s] = pump[s] /\ hold'[s] = hold[s]
    /\ EventsOut(s)' = EventsOut(s) /\ Queued(s)' = Queued(s)

LEMMA StillServing ==
    ASSUME NEW s \in Socket, Serving(s), Still(s)
    PROVE  Serving(s)' /\ Omitted(s)' = Omitted(s)
  BY DEF Serving, Still, Fresh, QueuedWasPassed, HandIsNew, Omitted

LEMMA AllStill ==
    ASSUME ServingInv, \A s \in Socket : Still(s),
           UNCHANGED <<log, live, subs, mark>>
    PROVE  ServingInv' /\ UNCHANGED Feed!vars
  <1>1. \A s \in Socket : Serving(s)' /\ Omitted(s)' = Omitted(s)
    BY StillServing DEF ServingInv
  <1>2. \A s \in Socket : EventsOut(s)' = EventsOut(s)
    BY DEF Still
  <1>. QED  BY <1>1, <1>2 DEF ServingInv, Feed!vars, Omitted

(* One socket moves.                                                       *)
LEMMA OneMoves ==
    ASSUME ServingInv, NEW s \in Socket, Serving(s)',
           \A r \in Socket : r # s => Still(r)
    PROVE  /\ ServingInv'
           /\ [u \in Socket |-> EventsOut(u)]'
                = [[u \in Socket |-> EventsOut(u)] EXCEPT ![s] = EventsOut(s)']
           /\ [u \in Socket |-> Omitted(u)]'
                = [[u \in Socket |-> Omitted(u)] EXCEPT ![s] = Omitted(s)']
  <1>1. \A r \in Socket : r # s => Serving(r)' /\ Omitted(r)' = Omitted(r)
    BY StillServing DEF ServingInv
  <1>2. \A r \in Socket : r # s => EventsOut(r)' = EventsOut(r)
    BY DEF Still
  <1>. QED  BY <1>1, <1>2 DEF ServingInv

(* What is still due to a member: the frame in hand and those to come.     *)
LEMMA DueIs ==
    ASSUME IInv, NEW s \in Socket, s \in live
    PROVE  /\ Feed!Due(s) = {i \in {hold[s]} : i # 0} \cup (cursor[s] + 1 .. Len(log))
           /\ cursor[s] \in Nat /\ Len(log) \in Nat /\ cursor[s] <= Len(log)
           /\ hold[s] \in 0 .. cursor[s] /\ hold[s] \notin Queued(s)
           /\ Queued(s) \subseteq 1 .. cursor[s]
  <1>1. /\ cursor[s] \in Nat /\ Len(log) \in Nat /\ cursor[s] <= Len(log)
        /\ Queued(s) \subseteq 1 .. cursor[s]
    BY SocketType DEF IInv, ServingInv, Serving, QueuedWasPassed
  <1>2. hold[s] \in 0 .. cursor[s] /\ hold[s] \notin Queued(s)
    <2>1. CASE pump[s] \in {"checking", "sending"}
      BY <1>1, <2>1 DEF IInv, TypeOK, PumpTypeOK, ServingInv, Serving, HandIsNew
    <2>2. CASE pump[s] \notin {"checking", "sending"}
      BY <1>1, <2>2 DEF IInv, DeliveryInv, Delivery, EmptyHand
    <2>. QED  BY <2>1, <2>2
  <1>3. Feed!Given(s) = Queued(s)
    BY EventsOutIs DEF IInv, Feed!Given
  <1>4. Feed!Due(s) = (1 .. Len(log))
                        \ (Queued(s) \cup ((1 .. cursor[s]) \ (Queued(s) \cup {hold[s]})))
    BY <1>3 DEF Feed!Due
  <1>5. 1 .. Len(log) = (1 .. cursor[s]) \cup (cursor[s] + 1 .. Len(log))
        /\ (1 .. cursor[s]) \cap (cursor[s] + 1 .. Len(log)) = {}
        /\ hold[s] # 0 => hold[s] \in 1 .. cursor[s]
        /\ 0 \notin (1 .. cursor[s])
        /\ 0 \notin (cursor[s] + 1 .. Len(log))
    BY <1>1, <1>2
  <1>. QED  BY <1>1, <1>2, <1>4, <1>5

-----------------------------------------------------------------------------
(* A step of one socket leaves the others as they were.                    *)
LEMMA OthersStill ==
    ASSUME TypeOK, NEW s \in Socket, NEW r \in Socket, r # s,
           \/ \E c \in Client, resumed \in BOOLEAN : Accept(s, c, resumed)
           \/ PumpProceeds(s)
           \/ PumpAborted(s)
    PROVE  Still(r)
  <1>1. Unmoved(r)
    BY OneSocketMoves
  <1>2. EventsOut(r)' = EventsOut(r) /\ Queued(r)' = Queued(r)
    BY <1>1, EventsOutSame DEF Unmoved
  <1>3. phase'[r] = phase[r] /\ writer'[r] = writer[r]
    <2>. USE DEF TypeOK, LoopTypeOK, OutTypeOK, loopVars
    <2>1. ASSUME NEW c \in Client, NEW resumed \in BOOLEAN, Accept(s, c, resumed)
          PROVE  phase'[r] = phase[r] /\ writer'[r] = writer[r]
      BY <2>1 DEF Accept
    <2>2. CASE PumpProceeds(s) \/ PumpAborted(s)
      BY <2>2 DEF PumpProceeds, PumpAborted, PumpRecv, PumpLagged, PumpCheck,
                  PumpSend, Enqueue, outVars
    <2>. QED  BY <2>1, <2>2
  <1>. QED  BY <1>1, <1>2, <1>3 DEF Still, Unmoved

(* Session_loop subscribes: a member joins.                                *)
LEMMA FeedJoin ==
    ASSUME IInv, NEW s \in Socket, NEW c \in Client, NEW resumed \in BOOLEAN,
           Accept(s, c, resumed)
    PROVE  Feed!Join(s) /\ ServingInv'
  <1>1. /\ s \notin live /\ live' = live \cup {s} /\ log' = log /\ out' = out
        /\ cursor'[s] = Len(log) /\ pump'[s] = "idle" /\ hold' = hold
        /\ phase[s] = "idle" /\ phase'[s] = "binding" /\ UNCHANGED <<subs, mark>>
    BY DEF Accept, BusSubscribe, IInv, TypeOK, BusTypeOK, PumpTypeOK, LoopTypeOK,
           subVars
  <1>2. Queued(s) = {} /\ Queued(s)' = {} /\ hold[s] = 0
    <2>1. out[s] = << >>
      BY <1>1 DEF IInv, ServingInv, Serving, Fresh
    <2>2. Queued(s) = {}
      BY <2>1 DEF Queued, EventIndices
    <2>3. pump[s] \notin {"checking", "sending"}
      BY <1>1 DEF IInv, DeliveryInv, Delivery, ReceiverHasPump
    <2>4. hold[s] = 0
      BY <2>3 DEF IInv, DeliveryInv, Delivery, EmptyHand
    <2>. QED  BY <1>1, <2>2, <2>4, EventsOutSame
  <1>3. Serving(s)'
    BY <1>1, <1>2 DEF Serving, Fresh, QueuedWasPassed, HandIsNew
  <1>4. \A r \in Socket : r # s => Still(r)
    BY OthersStill DEF IInv
  <1>5. Omitted(s)' = 1 .. Len(log)
    <2>1. Len(log) \in Nat
      BY DEF IInv, TypeOK, BusTypeOK
    <2>. QED  BY <1>1, <1>2, <2>1 DEF Omitted
  <1>6. \A u \in Socket : EventsOut(u)' = EventsOut(u)
    BY <1>1, EventsOutSame
  <1>7. /\ ServingInv'
        /\ [u \in Socket |-> Omitted(u)]'
              = [[u \in Socket |-> Omitted(u)] EXCEPT ![s] = 1 .. Len(log)]
    BY <1>3, <1>4, <1>5, OneMoves DEF IInv
  <1>. QED  BY <1>1, <1>6, <1>7 DEF Feed!Join, Omitted

(* The pump ends: a member leaves.                                         *)
LEMMA FeedLeave ==
    ASSUME IInv, NEW s \in Socket, PumpEnds(s), UNCHANGED <<phase, outVars, subVars>>,
           \A r \in Socket : r # s => Still(r)
    PROVE  Feed!Leave(s) /\ ServingInv'
  <1>1. /\ s \in live /\ live' = live \ {s} /\ log' = log /\ out' = out
        /\ pump'[s] = "gone" /\ UNCHANGED <<subs, mark, phase>>
    BY DEF PumpEnds, BusDrop, IInv, TypeOK, PumpTypeOK, subVars, outVars
  <1>2. \A u \in Socket : EventsOut(u)' = EventsOut(u)
    BY <1>1, EventsOutSame
  <1>3. Serving(s)'
    <2>1. Serving(s)
      BY DEF IInv, ServingInv
    <2>. QED
      BY <1>1, <2>1 DEF Serving, Fresh, QueuedWasPassed, HandIsNew, outVars
  <1>4. Omitted(s)' = {}
    BY <1>1 DEF Omitted
  <1>5. /\ ServingInv'
        /\ [u \in Socket |-> Omitted(u)]'
              = [[u \in Socket |-> Omitted(u)] EXCEPT ![s] = {}]
    BY <1>3, <1>4, OneMoves DEF IInv
  <1>. QED  BY <1>1, <1>2, <1>5 DEF Feed!Leave, Omitted

(* The frame the pump receives is still due, and nothing is omitted.       *)
LEMMA FeedRecv ==
    ASSUME IInv, NEW s \in Socket, PumpRecv(s)
    PROVE  UNCHANGED Feed!vars /\ ServingInv'
  <1>1. /\ log' = log /\ live' = live /\ out' = out /\ phase' = phase
        /\ cursor'[s] = cursor[s] + 1 /\ hold'[s] = cursor[s] + 1
        /\ s \in live /\ pump[s] = "idle" /\ UNCHANGED <<subs, mark, writer>>
    BY DEF PumpRecv, BusRecv, IInv, TypeOK, BusTypeOK, PumpTypeOK,
           subVars, outVars, loopVars
  <1>2. \A u \in Socket : EventsOut(u)' = EventsOut(u) /\ Queued(u)' = Queued(u)
    BY <1>1, EventsOutSame
  <1>3. /\ cursor[s] \in Nat /\ Queued(s) \subseteq 1 .. cursor[s]
        /\ hold[s] = 0
    BY <1>1, DueIs DEF IInv, DeliveryInv, Delivery, EmptyHand
  <1>4. /\ 1 .. (cursor[s] + 1) = (1 .. cursor[s]) \cup {cursor[s] + 1}
        /\ cursor[s] + 1 \notin 1 .. cursor[s] /\ 0 \notin 1 .. cursor[s]
    BY <1>3
  <1>5. Serving(s)'
    <2>1. Serving(s)
      BY DEF IInv, ServingInv
    <2>. QED
      BY <1>1, <1>2, <1>3, <1>4, <2>1 DEF Serving, Fresh, QueuedWasPassed, HandIsNew
  <1>6. Omitted(s)' = Omitted(s)
    BY <1>1, <1>2, <1>3, <1>4 DEF Omitted
  <1>7. \A r \in Socket : r # s => Still(r)
    BY OthersStill DEF IInv, PumpProceeds
  <1>8. /\ ServingInv'
        /\ [u \in Socket |-> Omitted(u)]' = [u \in Socket |-> Omitted(u)]
    BY <1>5, <1>6, <1>7, OneMoves DEF IInv
  <1>. QED  BY <1>1, <1>2, <1>8 DEF Feed!vars, Omitted

(* What a lag skips, as many later frames have overwritten.                *)
LEMMA FeedOverflow ==
    ASSUME IInv, NEW s \in Socket, PumpLagged(s)
    PROVE  Feed!Overflow(s) /\ ServingInv'
  <1>. DEFINE top == Len(log) - Capacity
  <1>1. /\ log' = log /\ live' = live /\ out' = out /\ phase' = phase
        /\ cursor'[s] = top /\ hold' = hold /\ pump' = pump
        /\ Len(log) - cursor[s] > Capacity
        /\ s \in live /\ pump[s] = "idle" /\ UNCHANGED <<subs, mark, writer>>
    BY DEF PumpLagged, BusLagged, Backlog, IInv, TypeOK, BusTypeOK, PumpTypeOK,
           subVars, outVars, loopVars, pumpVars
  <1>2. \A u \in Socket : EventsOut(u)' = EventsOut(u) /\ Queued(u)' = Queued(u)
    BY <1>1, EventsOutSame
  <1>3. /\ cursor[s] \in Nat /\ Len(log) \in Nat
        /\ Queued(s) \subseteq 1 .. cursor[s] /\ hold[s] = 0
        /\ Feed!Due(s) = cursor[s] + 1 .. Len(log)
    BY <1>1, DueIs DEF IInv, DeliveryInv, Delivery, EmptyHand
  <1>4. /\ 1 .. top = (1 .. cursor[s]) \cup (cursor[s] + 1 .. top)
        /\ (1 .. cursor[s]) \cap (cursor[s] + 1 .. top) = {}
        /\ 0 \notin (1 .. top)
        /\ top \in Feed!Due(s) /\ top + Capacity <= Len(log)
        /\ {j \in Feed!Due(s) : j <= top} = cursor[s] + 1 .. top
    BY <1>1, <1>3, CapacityAssumption
  <1>5. Serving(s)'
    <2>1. Serving(s)
      BY DEF IInv, ServingInv
    <2>. QED
      BY <1>1, <1>2, <1>3, <1>4, <2>1 DEF Serving, Fresh, QueuedWasPassed, HandIsNew
  <1>6. Omitted(s)' = Omitted(s) \cup {j \in Feed!Due(s) : j <= top}
    BY <1>1, <1>2, <1>3, <1>4 DEF Omitted
  <1>7. \A r \in Socket : r # s => Still(r)
    BY OthersStill DEF IInv, PumpProceeds
  <1>8. /\ ServingInv'
        /\ [u \in Socket |-> Omitted(u)]'
              = [[u \in Socket |-> Omitted(u)] EXCEPT
                    ![s] = @ \cup {j \in Feed!Due(s) : j <= top}]
    BY <1>5, <1>6, <1>7, OneMoves DEF IInv
  <1>. QED  BY <1>1, <1>2, <1>4, <1>8 DEF Feed!Overflow, Omitted

(* The filter takes the frame in hand out of what is due, if its topic is  *)
(* not subscribed.                                                         *)
LEMMA FeedPassOver ==
    ASSUME IInv, NEW s \in Socket, PumpCheck(s)
    PROVE  (Feed!PassOver(s) \/ UNCHANGED Feed!vars) /\ ServingInv'
  <1>. DEFINE i == hold[s]
  <1>1. /\ log' = log /\ live' = live /\ out' = out /\ cursor' = cursor
        /\ pump[s] = "checking" /\ UNCHANGED <<subs, mark, phase, writer>>
        /\ \/ log[i] \in subs[s] /\ pump'[s] = "sending" /\ hold' = hold
           \/ log[i] \notin subs[s] /\ pump'[s] = "idle" /\ hold'[s] = 0
    BY DEF PumpCheck, busVars, subVars, outVars, loopVars, IInv, TypeOK, PumpTypeOK
  <1>2. \A u \in Socket : EventsOut(u)' = EventsOut(u) /\ Queued(u)' = Queued(u)
    BY <1>1, EventsOutSame
  <1>3. s \in live /\ i \in 1 .. cursor[s]
    BY <1>1 DEF IInv, DeliveryInv, Delivery, ReceiverHasPump, TypeOK, PumpTypeOK
  <1>4. /\ cursor[s] \in Nat /\ Len(log) \in Nat
        /\ Feed!Due(s) = {i} \cup (cursor[s] + 1 .. Len(log))
        /\ i \notin Queued(s) /\ i \in Nat /\ i # 0
    BY <1>3, DueIs
  <1>5. Serving(s)'
    <2>1. Serving(s)
      BY DEF IInv, ServingInv
    <2>. QED
      BY <1>1, <1>2, <2>1 DEF Serving, Fresh, QueuedWasPassed, HandIsNew
  <1>6. \A r \in Socket : r # s => Still(r)
    BY OthersStill DEF IInv, PumpProceeds
  <1>7. /\ ServingInv'
        /\ [u \in Socket |-> Omitted(u)]'
              = [[u \in Socket |-> Omitted(u)] EXCEPT ![s] = Omitted(s)']
    BY <1>5, <1>6, OneMoves DEF IInv
  <1>8. CASE log[i] \in subs[s]
    <2>1. Omitted(s)' = Omitted(s)
      BY <1>1, <1>2, <1>8 DEF Omitted
    <2>2. [u \in Socket |-> Omitted(u)]' = [u \in Socket |-> Omitted(u)]
      BY <1>7, <2>1
    <2>. QED  BY <1>1, <1>2, <1>7, <2>2 DEF Feed!vars, Omitted
  <1>9. CASE log[i] \notin subs[s]
    <2>1. Omitted(s)' = Omitted(s) \cup {i}
      <3>1. 0 \notin 1 .. cursor[s]
        BY <1>4
      <3>. QED  BY <1>1, <1>2, <1>3, <1>4, <1>9, <3>1 DEF Omitted
    <2>2. Feed!IsNext(s, i)
      BY <1>3, <1>4 DEF Feed!IsNext
    <2>3. [u \in Socket |-> Omitted(u)]'
              = [[u \in Socket |-> Omitted(u)] EXCEPT ![s] = @ \cup {i}]
      BY <1>7, <2>1
    <2>. QED
      BY <1>1, <1>2, <1>3, <1>4, <1>7, <1>9, <2>2, <2>3 DEF Feed!PassOver, Omitted
  <1>. QED  BY <1>8, <1>9

(* What the pump queues is given, if anybody still takes it: it is next,   *)
(* and it is wanted or was when it was published.                          *)
LEMMA FeedGive ==
    ASSUME IInv, NEW s \in Socket, PumpSend(s)
    PROVE  (Feed!Give(s) \/ Feed!Leave(s)) /\ ServingInv'
  <1>. DEFINE i == hold[s]
  <1>1. \A r \in Socket : r # s => Still(r)
    BY OthersStill DEF IInv, PumpProceeds
  <1>2. CASE writer[s] # "running"
    BY <1>1, <1>2, FeedLeave DEF PumpSend, Enqueue, outVars, loopVars
  <1>3. CASE writer[s] = "running"
    <2>1. /\ log' = log /\ live' = live /\ cursor' = cursor
          /\ pump[s] = "sending" /\ pump'[s] = "idle" /\ hold'[s] = 0
          /\ UNCHANGED <<subs, mark, phase, writer>>
          /\ out'[s] = Append(out[s], Event(i))
      BY <1>3 DEF PumpSend, Enqueue, busVars, subVars, loopVars,
                  IInv, TypeOK, PumpTypeOK, OutTypeOK
    <2>2. s \in live /\ i \in 1 .. cursor[s]
      BY <2>1 DEF IInv, DeliveryInv, Delivery, ReceiverHasPump, TypeOK, PumpTypeOK
    <2>3. /\ cursor[s] \in Nat /\ Len(log) \in Nat /\ cursor[s] <= Len(log)
          /\ Feed!Due(s) = {i} \cup (cursor[s] + 1 .. Len(log))
          /\ Queued(s) \subseteq 1 .. cursor[s] /\ i \in Nat /\ i # 0
      BY <2>2, DueIs
    <2>4. /\ Event(i) \in Frame /\ Event(i).kind = "event" /\ Event(i).pos = i
      BY <2>2, <2>3, MaxPublishAssumption DEF Event, Frame, IInv, TypeOK, BusTypeOK
    <2>5. EventsOut(s)' = Append(EventsOut(s), i)
      BY <2>1, <2>3, <2>4, EventsOutAppend DEF IInv
    <2>6. Queued(s)' = Queued(s) \cup {i}
      BY <1>3, <2>4, QueuedAppend DEF PumpSend, IInv
    <2>7. Serving(s)'
      <3>1. Serving(s) /\ phase[s] # "idle"
        BY <1>3 DEF IInv, ServingInv, Serving, Fresh
      <3>. QED
        BY <2>1, <2>2, <2>6, <3>1 DEF Serving, Fresh, QueuedWasPassed, HandIsNew
    <2>8. Omitted(s)' = Omitted(s)
      <3>1. 0 \notin 1 .. cursor[s]
        BY <2>3
      <3>. QED  BY <2>1, <2>2, <2>6, <3>1 DEF Omitted
    <2>9. /\ ServingInv'
          /\ [u \in Socket |-> EventsOut(u)]'
                = [[u \in Socket |-> EventsOut(u)] EXCEPT ![s] = Append(@, i)]
          /\ [u \in Socket |-> Omitted(u)]' = [u \in Socket |-> Omitted(u)]
      BY <1>1, <2>5, <2>7, <2>8, OneMoves DEF IInv
    <2>10. Feed!IsNext(s, i)
      BY <2>2, <2>3 DEF Feed!IsNext
    <2>11. log[i] \in subs[s] \/ i <= mark[s][log[i]]
      BY <2>1 DEF IInv, DeliveryInv, Delivery, SendingWasWanted
    <2>. QED
      BY <2>1, <2>2, <2>3, <2>9, <2>10, <2>11 DEF Feed!Give, Omitted
  <1>. QED  BY <1>2, <1>3

-----------------------------------------------------------------------------
(* Steps that only move a phase, the registry, a writer or the log.        *)
LEMMA QuietIsStill ==
    ASSUME IInv, UNCHANGED <<live, cursor, out, pumpVars>>,
           \A s \in Socket : phase'[s] = "idle" => phase[s] = "idle",
           \A s \in Socket : phase[s] = "idle" => writer'[s] = writer[s]
    PROVE  \A s \in Socket : Still(s)
  <1>1. \A s \in Socket : EventsOut(s)' = EventsOut(s) /\ Queued(s)' = Queued(s)
    BY EventsOutSame
  <1>. QED  BY <1>1 DEF Still, pumpVars

(* A welcome or a direct send is no frame of the feed.                     *)
LEMMA OtherFrameIsStill ==
    ASSUME IInv, NEW s \in Socket, NEW f \in {Welcome, Direct}, Enqueue(s, f),
           UNCHANGED <<busVars, pumpVars>>,
           \A r \in Socket : phase'[r] = "idle" => phase[r] = "idle"
    PROVE  \A r \in Socket : Still(r)
  <1>1. f \in Frame /\ f.kind # "event" /\ f.pos \in Nat
    BY DEF Frame, Welcome, Direct
  <1>2. ASSUME NEW r \in Socket
        PROVE  /\ EventsOut(r)' = EventsOut(r) /\ Queued(r)' = Queued(r)
               /\ phase[r] = "idle" => out'[r] = out[r]
    <2>1. CASE out'[r] = out[r]
      BY <2>1, EventsOutSame
    <2>2. CASE out'[r] # out[r]
      <3>1. r = s /\ writer[s] = "running" /\ out'[s] = Append(out[s], f)
        BY <2>2 DEF Enqueue, IInv, TypeOK, OutTypeOK
      <3>2. phase[s] # "idle"
        BY <3>1 DEF IInv, ServingInv, Serving, Fresh
      <3>. QED
        BY <1>1, <3>1, <3>2, EventsOutAppend, QueuedAppend DEF IInv
    <2>. QED  BY <2>1, <2>2
  <1>. QED  BY <1>2 DEF Still, Enqueue, busVars, pumpVars

(* Who uses a conn subscribes, unsubscribes, or queues a direct frame.     *)
LEMMA FeedTurn ==
    ASSUME IInv, NEW s \in Socket, ConnOp(s)
    PROVE  /\ ServingInv'
           /\ (\E t \in Topic : Feed!Turn(s, t)) \/ UNCHANGED Feed!vars
  <1>1. CASE ConnSend(s)
    <2>1. \A r \in Socket : Still(r)
      BY <1>1, OtherFrameIsStill DEF ConnOp, ConnSend, loopVars
    <2>. QED
      BY <1>1, <2>1, AllStill DEF IInv, ConnOp, ConnSend, busVars, subVars
  <1>2. CASE ~ ConnSend(s)
    <2>1. /\ UNCHANGED <<log, live, cursor, out, writer, phase, pumpVars>>
      BY <1>2 DEF ConnOp, ConnSubscribe, ConnUnsubscribe, busVars, outVars, loopVars
    <2>2. \A r \in Socket : Still(r)
      BY <2>1, QuietIsStill
    <2>3. /\ ServingInv'
          /\ \A r \in Socket : EventsOut(r)' = EventsOut(r) /\ Omitted(r)' = Omitted(r)
      BY <2>2, StillServing DEF IInv, ServingInv, Still
    <2>4. PICK t \in Topic : ConnSubscribe(s, t) \/ ConnUnsubscribe(s, t)
      BY <1>2 DEF ConnOp
    <2>5. subs \in [Socket -> SUBSET Topic] /\ mark \in [Socket -> [Topic -> 0 .. MaxPublish]]
      BY DEF IInv, TypeOK, SubTypeOK
    <2>6. CASE UNCHANGED <<subs, mark>>
      BY <2>2, <2>1, <2>6, AllStill DEF IInv
    <2>7. CASE ~ UNCHANGED <<subs, mark>>
      <3>1. /\ subs' = [subs EXCEPT ![s] = IF t \in @ THEN @ \ {t} ELSE @ \cup {t}]
            /\ mark' = [mark EXCEPT ![s][t] = Len(log)]
        <4>1. CASE ConnSubscribe(s, t)
          <5>1. t \in subs[s] => subs' = subs /\ mark' = mark
            <6>. SUFFICES ASSUME t \in subs[s] PROVE subs' = subs /\ mark' = mark
              OBVIOUS
            <6>1. subs[s] \cup {t} = subs[s]
              OBVIOUS
            <6>. QED  BY <2>5, <4>1, <6>1 DEF ConnSubscribe
          <5>. QED  BY <2>7, <4>1, <5>1 DEF ConnSubscribe, MoveMark
        <4>2. CASE ConnUnsubscribe(s, t)
          <5>1. t \notin subs[s] => subs' = subs /\ mark' = mark
            <6>. SUFFICES ASSUME t \notin subs[s] PROVE subs' = subs /\ mark' = mark
              OBVIOUS
            <6>1. subs[s] \ {t} = subs[s]
              OBVIOUS
            <6>. QED  BY <2>5, <4>2, <6>1 DEF ConnUnsubscribe
          <5>. QED  BY <2>7, <4>2, <5>1 DEF ConnUnsubscribe, MoveMark
        <4>. QED  BY <2>4, <4>1, <4>2
      <3>2. Feed!Turn(s, t)
        BY <2>1, <2>3, <3>1 DEF Feed!Turn, Omitted
      <3>. QED  BY <2>3, <3>2
    <2>. QED  BY <2>6, <2>7
  <1>. QED  BY <1>1, <1>2

LEMMA FeedPublish ==
    ASSUME IInv, NEW t \in Topic, Emit(t)
    PROVE  (Feed!Publish(t) \/ UNCHANGED Feed!vars) /\ ServingInv'
  <1>1. UNCHANGED <<live, cursor, phase, writer, out, subs, mark, pumpVars>>
    BY DEF Emit, BusPublish, loopVars, subVars, outVars
  <1>2. \A s \in Socket : Still(s)
    BY <1>1, QuietIsStill
  <1>3. /\ ServingInv'
        /\ \A s \in Socket : EventsOut(s)' = EventsOut(s) /\ Omitted(s)' = Omitted(s)
    BY <1>2, StillServing DEF IInv, ServingInv, Still
  <1>4. CASE live = {}
    <2>1. log' = log
      BY <1>4 DEF Emit, BusPublish
    <2>. QED  BY <1>1, <1>2, <2>1, AllStill DEF IInv
  <1>5. CASE live # {}
    <2>1. log' = Append(log, t)
      BY <1>5 DEF Emit, BusPublish
    <2>. QED  BY <1>1, <1>3, <2>1 DEF Feed!Publish, Omitted
  <1>. QED  BY <1>4, <1>5

(* Before the first socket comes, the feed has no member.                  *)
LEMMA FeedInit == Init => Feed!Init /\ ServingInv
  <1>. SUFFICES ASSUME Init PROVE Feed!Init /\ ServingInv
    OBVIOUS
  <1>1. \A s \in Socket : /\ out[s] = << >> /\ pump[s] = "absent"
                          /\ writer[s] = "absent" /\ s \notin live
    BY DEF Init, BusInit
  <1>2. ASSUME NEW s \in Socket PROVE EventsOut(s) = << >>
    <2>1. EventIndices(s) = {}
      BY <1>1 DEF EventIndices
    <2>2. Cardinality(EventIndices(s)) = 0
      BY <2>1, FS_EmptySet
    <2>. QED  BY <2>2 DEF EventsOut
  <1>3. ServingInv
    BY <1>1 DEF ServingInv, Serving, Fresh, QueuedWasPassed, HandIsNew
  <1>4. Feed!Init
    BY <1>1, <1>2 DEF Init, BusInit, Feed!Init
  <1>. QED  BY <1>3, <1>4

LEMMA FeedNext ==
    IInv /\ [Next]_vars => ServingInv' /\ [Feed!Next]_(Feed!vars)
  <1>. SUFFICES ASSUME IInv, [Next]_vars
                PROVE  ServingInv' /\ [Feed!Next]_(Feed!vars)
    OBVIOUS
  <1>. DEFINE Goal == ServingInv' /\ [Feed!Next]_(Feed!vars)
  <1>1. ASSUME UNCHANGED <<log, live, cursor, out, pumpVars, subs, mark>>,
               \A s \in Socket : phase'[s] = "idle" => phase[s] = "idle",
               \A s \in Socket : phase[s] = "idle" => writer'[s] = writer[s]
        PROVE  Goal
    BY <1>1, QuietIsStill, AllStill DEF IInv
  <1>2. ASSUME NEW s \in Socket, NEW c \in Client, NEW resumed \in BOOLEAN,
               Accept(s, c, resumed)
        PROVE  Goal
    BY <1>2, FeedJoin DEF Feed!Next
  <1>3. ASSUME NEW s \in Socket, ConnOp(s)
        PROVE  Goal
    BY <1>3, FeedTurn DEF Feed!Next
  <1>4. ASSUME NEW s \in Socket, SendWelcome(s)
        PROVE  Goal
    <2>1. \A r \in Socket : phase'[r] = "idle" => phase[r] = "idle"
      BY <1>4 DEF SendWelcome, StepPhase, IInv, TypeOK, LoopTypeOK
    <2>2. \A r \in Socket : Still(r)
      BY <1>4, <2>1, OtherFrameIsStill DEF SendWelcome
    <2>. QED
      BY <1>4, <2>2, AllStill DEF IInv, SendWelcome, busVars, subVars
  <1>5. ASSUME NEW s \in Socket, PumpProceeds(s)
        PROVE  Goal
    BY <1>5, FeedRecv, FeedOverflow, FeedPassOver, FeedGive
       DEF PumpProceeds, Feed!Next, Feed!Serve
  <1>6. ASSUME NEW s \in Socket, PumpAborted(s)
        PROVE  Goal
    <2>1. \A r \in Socket : r # s => Still(r)
      BY <1>6, OthersStill DEF IInv
    <2>2. PumpEnds(s) /\ UNCHANGED <<phase, outVars, subVars>>
      BY <1>6 DEF PumpAborted, loopVars
    <2>. QED  BY <2>1, <2>2, FeedLeave DEF Feed!Next
  <1>7. ASSUME NEW t \in Topic, Emit(t)
        PROVE  Goal
    BY <1>7, FeedPublish DEF Feed!Next
  <1>8. ASSUME NEW c \in Client, SendTo(c)
        PROVE  Goal
    <2>1. registry[c] \in Socket /\ ConnOp(registry[c])
      BY <1>8 DEF SendTo, ConnOp, IInv, TypeOK, DirTypeOK
    <2>. QED  BY <1>3, <2>1
  <1>9. ASSUME NEW c \in Client, Get(c)
        PROVE  Goal
    BY <1>1, <1>9 DEF Get, busVars, loopVars, outVars, subVars
  <1>10. ASSUME NEW s \in Socket, ReadFrame(s) \/ HookUses(s) \/ UseHandle(s)
         PROVE  Goal
    BY <1>3, <1>10 DEF ReadFrame, HookUses, UseHandle
  <1>11. ASSUME NEW s \in Socket, NEW from \in Phases, NEW to \in Phases \ {"idle"},
                StepPhase(s, from, to),
                UNCHANGED <<busVars, subVars, outVars, pumpVars>>
         PROVE  Goal
    BY <1>1, <1>11
       DEF StepPhase, busVars, subVars, outVars, IInv, TypeOK, LoopTypeOK
  <1>12. ASSUME NEW s \in Socket, LoopProceeds(s) \/ StreamEnds(s) \/ HookPanics(s)
         PROVE  Goal
    BY <1>4, <1>11, <1>12
       DEF LoopProceeds, StreamEnds, HookPanics, Bind, OnConnect, OnDisconnect,
           Unbind, Abort, Phases
  <1>13. ASSUME NEW s \in Socket, WriterStep(s) \/ WriterFails(s) \/ WriterAborted(s)
         PROVE  Goal
    <2>1. writer[s] = "running"
      BY <1>13 DEF WriterStep, WriterFails, WriterAborted, Unwritten
    <2>2. phase[s] # "idle"
      BY <2>1 DEF IInv, ServingInv, Serving, Fresh
    <2>3. \A r \in Socket : phase[r] = "idle" => writer'[r] = writer[r]
      BY <1>13, <2>2
         DEF WriterStep, WriterFails, WriterAborted, WriterEnds, IInv, TypeOK, OutTypeOK
    <2>. QED
      BY <1>1, <1>13, <2>3 DEF WriterStep, WriterFails, WriterAborted, WriterEnds,
         busVars, loopVars, subVars
  <1>14. CASE UNCHANGED vars
    BY <1>1, <1>14 DEF vars, busVars, loopVars, outVars, subVars
  <1>. QED
    BY <1>2, <1>5, <1>6, <1>7, <1>8, <1>9, <1>10, <1>12, <1>13, <1>14 DEF Next

(* The session runtime implements the safety part of Feed: a socket is     *)
(* given frames of the feed in order and once, and what it goes without    *)
(* was overwritten in the ring or not subscribed when its turn came, for   *)
(* any sockets, topics and ring (session.rs:354-373).                      *)
THEOREM SessionImplementsFeed ==
    Spec => Feed!Init /\ [][Feed!Next]_(Feed!vars)
  BY TypeCorrect, InitDelivery, NextDelivery, FeedInit, FeedNext, PTL
     DEF Spec, IInv
-----------------------------------------------------------------------------
(* The queue is in order: events stand in it as they were published, and   *)
(* what the pump has in hand is newer than all of them.                    *)

QueueOrdered(s) ==
    \A j, k \in EventIndices(s) : j < k => out[s][j].pos < out[s][k].pos

HandIsNewest(s) ==
    pump[s] \in {"checking", "sending"} => \A i \in Queued(s) : i < hold[s]

Ordered(s) == QueueOrdered(s) /\ HandIsNewest(s)

OrderInv == \A s \in Socket : Ordered(s)

(* What a step can do to the queue and the hand of one socket: nothing, or *)
(* an empty hand; a frame taken off the bus; a frame that is no event      *)
(* queued; the event in hand queued.                                       *)
KeepsQueue(s) ==
    /\ out'[s] = out[s]
    /\ \/ pump'[s] \notin {"checking", "sending"}
       \/ pump[s] \in {"checking", "sending"} /\ hold'[s] = hold[s]

TakesUp(s) == out'[s] = out[s] /\ s \in live /\ hold'[s] = cursor[s] + 1

QueuesOther(s) ==
    /\ \E f \in Frame : f.kind # "event" /\ out'[s] = Append(out[s], f)
    /\ pump'[s] = pump[s] /\ hold'[s] = hold[s]

QueuesHand(s) ==
    /\ pump[s] = "sending"
    /\ out'[s] = Append(out[s], Event(hold[s]))
    /\ pump'[s] = "idle"

(* Each of these keeps the order.                                          *)
LEMMA OrderStays ==
    ASSUME IInv, NEW s \in Socket, Ordered(s),
           KeepsQueue(s) \/ TakesUp(s) \/ QueuesOther(s) \/ QueuesHand(s)
    PROVE  Ordered(s)'
  <1>1. out[s] \in Seq(Frame) /\ Len(out[s]) \in Nat
    BY DEF IInv, TypeOK, OutTypeOK
  <1>2. CASE KeepsQueue(s)
    BY <1>2 DEF KeepsQueue, Ordered, QueueOrdered, HandIsNewest, EventIndices, Queued
  <1>3. CASE TakesUp(s)
    <2>1. Queued(s) \subseteq 1 .. cursor[s] /\ cursor[s] \in Nat
      BY <1>3, SocketType DEF TakesUp, IInv, ServingInv, Serving, QueuedWasPassed
    <2>2. Queued(s)' = Queued(s) /\ QueueOrdered(s)'
      BY <1>3 DEF TakesUp, Ordered, QueueOrdered, EventIndices, Queued
    <2>3. \A i \in Queued(s) : i < cursor[s] + 1
      BY <2>1
    <2>. QED  BY <1>3, <2>2, <2>3 DEF TakesUp, Ordered, HandIsNewest
  <1>4. ASSUME NEW f \in Frame, out'[s] = Append(out[s], f)
        PROVE  /\ DOMAIN out'[s] = DOMAIN out[s] \cup {Len(out[s]) + 1}
               /\ Len(out[s]) + 1 \notin DOMAIN out[s]
               /\ \A k \in DOMAIN out[s] : k < Len(out[s]) + 1 /\ out'[s][k] = out[s][k]
               /\ out'[s][Len(out[s]) + 1] = f
    BY <1>1, <1>4
  <1>5. CASE QueuesOther(s)
    <2>1. PICK f \in Frame : f.kind # "event" /\ out'[s] = Append(out[s], f)
      BY <1>5 DEF QueuesOther
    <2>2. EventIndices(s)' = EventIndices(s)
      BY <1>4, <2>1 DEF EventIndices
    <2>3. \A k \in EventIndices(s) : out'[s][k] = out[s][k]
      BY <1>4, <2>1 DEF EventIndices
    <2>4. Queued(s)' = Queued(s)
      BY <2>2, <2>3 DEF Queued
    <2>. QED
      BY <1>5, <2>2, <2>3, <2>4
         DEF QueuesOther, Ordered, QueueOrdered, HandIsNewest
  <1>6. CASE QueuesHand(s)
    <2>. DEFINE f == Event(hold[s])
    <2>1. hold[s] \in 1 .. MaxPublish
      BY <1>6, MaxPublishAssumption
         DEF QueuesHand, IInv, TypeOK, PumpTypeOK, BusTypeOK
    <2>2. f \in Frame /\ f.kind = "event" /\ f.pos = hold[s]
      BY <2>1 DEF Frame, Event
    <2>3. out'[s] = Append(out[s], f)
      BY <1>6 DEF QueuesHand
    <2>4. EventIndices(s)' = EventIndices(s) \cup {Len(out[s]) + 1}
      BY <1>4, <2>2, <2>3 DEF EventIndices
    <2>5. \A k \in EventIndices(s) :
             /\ out'[s][k] = out[s][k]
             /\ out[s][k].pos < hold[s]
             /\ ~ (Len(out[s]) + 1 < k)
      BY <1>1, <1>4, <1>6, <2>2, <2>3
         DEF QueuesHand, Ordered, HandIsNewest, Queued, EventIndices
    <2>6. out'[s][Len(out[s]) + 1].pos = hold[s]
      BY <1>4, <2>2, <2>3
    <2>7. QueueOrdered(s)'
      BY <1>1, <2>4, <2>5, <2>6 DEF Ordered, QueueOrdered
    <2>. QED  BY <1>6, <2>7 DEF QueuesHand, Ordered, HandIsNewest
  <1>. QED  BY <1>2, <1>3, <1>5, <1>6

(* A frame that is no event, given to the queue of one socket.             *)
LEMMA OtherOrder ==
    ASSUME TypeOK, NEW r \in Socket, NEW f \in {Welcome, Direct}, Enqueue(r, f),
           UNCHANGED pumpVars, NEW s \in Socket
    PROVE  KeepsQueue(s) \/ QueuesOther(s)
  <1>1. f \in Frame /\ f.kind # "event"
    BY DEF Frame, Welcome, Direct
  <1>. QED
    BY <1>1 DEF Enqueue, KeepsQueue, QueuesOther, pumpVars, TypeOK, OutTypeOK

(* The same for every operation of a conn.                                 *)
LEMMA ConnOpOrder ==
    ASSUME TypeOK, NEW r \in Socket, ConnOp(r), NEW s \in Socket
    PROVE  KeepsQueue(s) \/ QueuesOther(s)
  <1>1. CASE ConnSend(r)
    BY <1>1, OtherOrder DEF ConnSend, ConnOp
  <1>2. CASE UNCHANGED outVars
    BY <1>2 DEF ConnOp, KeepsQueue, outVars, pumpVars
  <1>. QED  BY <1>1, <1>2 DEF ConnOp, ConnSubscribe, ConnUnsubscribe

(* The pump of one socket.                                                 *)
LEMMA PumpOrder ==
    ASSUME TypeOK, DeliveryInv, NEW r \in Socket,
           PumpProceeds(r) \/ PumpAborted(r), NEW s \in Socket
    PROVE  KeepsQueue(s) \/ TakesUp(s) \/ QueuesHand(s)
  <1>. USE DEF TypeOK, OutTypeOK, PumpTypeOK, KeepsQueue, outVars, pumpVars
  <1>1. CASE PumpRecv(r)
    BY <1>1 DEF PumpRecv, BusRecv, TakesUp
  <1>2. CASE PumpLagged(r)
    BY <1>2 DEF PumpLagged
  <1>3. CASE PumpCheck(r)
    BY <1>3 DEF PumpCheck
  <1>4. CASE PumpSend(r)
    BY <1>4 DEF PumpSend, Enqueue, PumpEnds, QueuesHand
  <1>5. CASE PumpAborted(r)
    BY <1>5 DEF PumpAborted, PumpEnds
  <1>. QED  BY <1>1, <1>2, <1>3, <1>4, <1>5 DEF PumpProceeds

(* A step does one of those things to the queue and the hand of a socket.  *)
LEMMA QueueSteps ==
    ASSUME IInv, [Next]_vars, NEW s \in Socket
    PROVE  KeepsQueue(s) \/ TakesUp(s) \/ QueuesOther(s) \/ QueuesHand(s)
  <1>. DEFINE Goal == KeepsQueue(s) \/ TakesUp(s) \/ QueuesOther(s) \/ QueuesHand(s)
  <1>. USE DEF IInv
  <1>1. ASSUME UNCHANGED <<out, pumpVars>> PROVE Goal
    BY <1>1 DEF KeepsQueue, pumpVars
  <1>2. ASSUME NEW r \in Socket, NEW c \in Client, NEW resumed \in BOOLEAN,
               Accept(r, c, resumed)
        PROVE  Goal
    BY <1>2 DEF Accept, KeepsQueue, TypeOK, PumpTypeOK
  <1>3. ASSUME NEW r \in Socket, LoopProceeds(r) PROVE Goal
    <2>1. CASE SendWelcome(r)
      BY <2>1, OtherOrder DEF SendWelcome
    <2>. QED
      BY <1>1, <1>3, <2>1 DEF LoopProceeds, Bind, OnConnect, OnDisconnect,
                              Unbind, Abort, outVars
  <1>4. ASSUME NEW r \in Socket, StreamEnds(r) \/ HookPanics(r) PROVE Goal
    BY <1>1, <1>4 DEF StreamEnds, HookPanics, outVars
  <1>5. ASSUME NEW r \in Socket, ReadFrame(r) \/ HookUses(r) \/ UseHandle(r)
        PROVE  Goal
    BY <1>5, ConnOpOrder DEF ReadFrame, HookUses, UseHandle
  <1>6. ASSUME NEW r \in Socket, PumpProceeds(r) \/ PumpAborted(r) PROVE Goal
    BY <1>6, PumpOrder
  <1>7. ASSUME NEW r \in Socket, WriterStep(r) \/ WriterFails(r) \/ WriterAborted(r)
        PROVE  Goal
    BY <1>1, <1>7 DEF WriterStep, WriterFails, WriterAborted, WriterEnds
  <1>8. ASSUME NEW c \in Client, Get(c) PROVE Goal
    BY <1>1, <1>8 DEF Get, outVars
  <1>9. ASSUME NEW c \in Client, SendTo(c) PROVE Goal
    <2>1. registry[c] \in Socket /\ ConnOp(registry[c])
      BY <1>9 DEF SendTo, ConnOp, TypeOK, DirTypeOK
    <2>. QED  BY <2>1, ConnOpOrder
  <1>10. ASSUME NEW t \in Topic, Emit(t) PROVE Goal
    BY <1>1, <1>10 DEF Emit, outVars
  <1>11. UNCHANGED vars => Goal
    BY <1>1 DEF vars, outVars
  <1>. QED
    BY <1>2, <1>3, <1>4, <1>5, <1>6, <1>7, <1>8, <1>9, <1>10, <1>11 DEF Next

LEMMA NextOrder == IInv /\ OrderInv /\ [Next]_vars => OrderInv'
  BY QueueSteps, OrderStays DEF OrderInv

(* The log only grows.                                                     *)
LEMMA LogSteps ==
    [Next]_vars => log' = log \/ \E t \in Topic : log' = Append(log, t)
  <1> SUFFICES ASSUME [Next]_vars
               PROVE  log' = log \/ \E t \in Topic : log' = Append(log, t)
    OBVIOUS
  <1>1. ASSUME NEW s \in Socket, NEW c \in Client, NEW resumed \in BOOLEAN,
               Accept(s, c, resumed)
        PROVE  log' = log
    BY <1>1 DEF Accept, BusSubscribe
  <1>2. ASSUME NEW s \in Socket,
               \/ LoopProceeds(s) \/ StreamEnds(s) \/ HookPanics(s)
               \/ ReadFrame(s) \/ HookUses(s) \/ UseHandle(s)
               \/ WriterStep(s) \/ WriterFails(s) \/ WriterAborted(s)
        PROVE  log' = log
    BY <1>2
       DEF LoopProceeds, Bind, SendWelcome, OnConnect, OnDisconnect, Unbind,
           Abort, StreamEnds, HookPanics, ReadFrame, HookUses, UseHandle,
           ConnOp, WriterStep, WriterFails, WriterAborted, WriterEnds, busVars
  <1>3. ASSUME NEW s \in Socket, PumpProceeds(s) \/ PumpAborted(s)
        PROVE  log' = log
    BY <1>3
       DEF PumpProceeds, PumpAborted, PumpRecv, PumpLagged, PumpCheck,
           PumpSend, PumpEnds, BusRecv, BusLagged, BusDrop, busVars
  <1>4. ASSUME NEW c \in Client, Get(c) \/ SendTo(c) PROVE log' = log
    BY <1>4 DEF Get, SendTo, busVars
  <1>5. ASSUME NEW t \in Topic, Emit(t)
        PROVE  log' = log \/ log' = Append(log, t)
    BY <1>5 DEF Emit, BusPublish
  <1>6. UNCHANGED vars => log' = log
    BY DEF vars, busVars
  <1>. QED
    BY <1>1, <1>2, <1>3, <1>4, <1>5, <1>6 DEF Next

(* A receiver only moves forward; the one of a new socket starts at the    *)
(* end of the log.                                                         *)
LEMMA ReceiverSteps ==
    ASSUME TypeOK, [Next]_vars, NEW s \in Socket
    PROVE  \/ phase'[s] = "idle"
           \/ /\ phase[s] = "idle"
              /\ cursor'[s] = Len(log) /\ out'[s] = out[s] /\ pump'[s] = "idle"
           \/ /\ phase[s] # "idle"
              /\ s \in live' => s \in live /\ cursor'[s] >= cursor[s]
  <1>. DEFINE Moves == \/ phase'[s] = "idle"
                       \/ /\ phase[s] = "idle"
                          /\ cursor'[s] = Len(log) /\ out'[s] = out[s]
                          /\ pump'[s] = "idle"
                       \/ /\ phase[s] # "idle"
                          /\ s \in live' => s \in live /\ cursor'[s] >= cursor[s]
  <1>0. cursor[s] \in Nat /\ Len(log) \in Nat
    BY SocketType
  <1>1. ASSUME UNCHANGED busVars,
               \/ UNCHANGED phase
               \/ \E r \in Socket, from \in Phases \ {"idle"}, to \in Phases :
                     StepPhase(r, from, to)
        PROVE  Moves
    BY <1>0, <1>1 DEF busVars, StepPhase, TypeOK, LoopTypeOK
  <1>2. ASSUME NEW r \in Socket, NEW c \in Client, NEW resumed \in BOOLEAN,
               Accept(r, c, resumed)
        PROVE  Moves
    BY <1>0, <1>2
       DEF Accept, BusSubscribe, TypeOK, LoopTypeOK, BusTypeOK, PumpTypeOK
  <1>3. ASSUME NEW r \in Socket, LoopProceeds(r) \/ StreamEnds(r) \/ HookPanics(r)
        PROVE  Moves
    BY <1>1, <1>3
       DEF LoopProceeds, Bind, SendWelcome, OnConnect, OnDisconnect, Unbind,
           Abort, StreamEnds, HookPanics, Phases
  <1>4. ASSUME NEW r \in Socket, PumpProceeds(r) \/ PumpAborted(r)
        PROVE  Moves
    <2>1. phase' = phase
      BY <1>4 DEF PumpProceeds, PumpAborted, PumpRecv, PumpLagged, PumpCheck,
                  PumpSend, loopVars
    <2>2. CASE PumpRecv(r)
      BY <1>0, <2>1, <2>2 DEF PumpRecv, BusRecv, TypeOK, BusTypeOK
    <2>3. CASE PumpLagged(r)
      <3>1. /\ log' = log /\ live' = live
            /\ cursor[r] \in Nat /\ cursor[r] < Len(log) - Capacity
            /\ cursor' = [cursor EXCEPT ![r] = Len(log) - Capacity]
        BY <2>3, CapacityAssumption
           DEF PumpLagged, BusLagged, Backlog, TypeOK, BusTypeOK
      <3>. QED  BY <1>0, <2>1, <3>1, CapacityAssumption DEF TypeOK, BusTypeOK
    <2>4. CASE PumpCheck(r)
      BY <1>1, <2>1, <2>4 DEF PumpCheck
    <2>5. CASE PumpSend(r) \/ PumpAborted(r)
      BY <1>0, <2>1, <2>5 DEF PumpSend, PumpAborted, PumpEnds, BusDrop, busVars
    <2>. QED  BY <1>4, <2>2, <2>3, <2>4, <2>5 DEF PumpProceeds
  <1>5. ASSUME NEW r \in Socket,
               \/ WriterStep(r) \/ WriterFails(r) \/ WriterAborted(r)
               \/ ReadFrame(r) \/ HookUses(r) \/ UseHandle(r)
        PROVE  Moves
    BY <1>1, <1>5
       DEF WriterStep, WriterFails, WriterAborted, WriterEnds, ReadFrame,
           HookUses, UseHandle, ConnOp, loopVars
  <1>6. ASSUME NEW c \in Client, Get(c) \/ SendTo(c) PROVE Moves
    BY <1>1, <1>6 DEF Get, SendTo, loopVars
  <1>7. ASSUME NEW t \in Topic, Emit(t) PROVE Moves
    BY <1>0, <1>7 DEF Emit, BusPublish, loopVars
  <1>8. UNCHANGED vars => Moves
    BY <1>1 DEF vars, loopVars
  <1>. QED
    BY <1>2, <1>3, <1>4, <1>5, <1>6, <1>7, <1>8 DEF Next

(* The invariants of this module together, at any time.                    *)
LEMMA InOrder == Spec => [](IInv /\ OrderInv)
  <1>1. ASSUME Init, NEW s \in Socket PROVE Ordered(s)
    <2>1. out[s] = << >> /\ pump[s] = "absent"
      BY <1>1 DEF Init
    <2>2. EventIndices(s) = {}
      BY <2>1 DEF EventIndices
    <2>. QED  BY <2>1, <2>2 DEF Ordered, QueueOrdered, HandIsNewest
  <1>2. Init => OrderInv
    BY <1>1 DEF OrderInv
  <1>. QED
    BY <1>2, TypeCorrect, InitDelivery, NextDelivery, FeedInit, FeedNext,
       NextOrder, PTL DEF Spec, IInv
=============================================================================
