---------------------------- MODULE LifeCycle_proofs ----------------------------
(***************************************************************************)
(* Proofs about start, stop and the ends of connections in AppNetModule:   *)
(* the safety properties that relate the listener objects, their threads,  *)
(* the timer and the descriptors.                                          *)
(***************************************************************************)
EXTENDS AppNetModule_proofs

USE DEF threadVars, listenerVars, ownerVars, netVars, clientVars, simVars,
        NextPacket, CloseServer

--------------------------------------------------------------------------------
(* The inductive invariant of the life cycle.                              *)

(* The flags and the state of the thread tell where the thread is.         *)
ThreadFollowsControl ==
    \A l \in Listeners :
        /\ m_thread[l] = "active" <=> pc[l] # "none"
        /\ m_running[l] <=> pc[l] \notin {"none", "begin"}

(* An object that is not there has no thread and no server socket.         *)
AbsentHasNothing ==
    \A l \in Listeners :
        \/ obj[l] = "unborn"
        \/ obj[l] = "deleted" /\ process = "up"
        => m_thread[l] = "none" /\ servSockDescr[l] = "0"

(* The pointer is to an object that is there; without a second start it is *)
(* to the only one.                                                        *)
PointerAlive ==
    /\ p_tcp_listener # nullptr => obj[p_tcp_listener] = "alive"
    /\ ~StartAgain => \A l \in Listeners : obj[l] = "alive" => p_tcp_listener = l

(* The timer runs for a listener only, and not while stop is under way.    *)
TimerHasListener ==
    timer => p_tcp_listener # nullptr /\ sim \notin {"join", "delete"}

Life == ThreadFollowsControl /\ AbsentHasNothing /\ PointerAlive /\ TimerHasListener

LEMMA LifeInit == Init => Life
  BY DEF Init, ListenerInit, ThreadInit, SimInit, Life, ThreadFollowsControl,
         AbsentHasNothing, PointerAlive, TimerHasListener

(* What a step between the beginning and the end of the thread may change. *)
LEMMA InnerStep ==
    ASSUME Typed, NEW l \in Listeners, ListenerStep(l), ~Begin(l), ~Return(l)
    PROVE  /\ UNCHANGED threadVars
           /\ pc[l] \notin {"none", "begin"}
           /\ \E s \in Steps \ {"none", "begin"} : pc' = [pc EXCEPT ![l] = s]
           /\ \/ UNCHANGED servSockDescr
              \/ servSockDescr' = [servSockDescr EXCEPT ![l] = "0"]
           /\ process' \in {process, "crashed"}
  <1> USE DEF Goto, Steps
  <1>1. CASE LoopTest(l) \/ Accept(l) \/ AcceptFails(l) \/ ClientTest(l)
    BY <1>1 DEF LoopTest, Accept, AcceptFails, ClientTest
  <1>2. CASE SelectReady(l) \/ SelectTimeout(l) \/ SelectFails(l)
    BY <1>2 DEF SelectReady, SelectTimeout, SelectFails
  <1>3. CASE ReceiveMessage(l) \/ ReceiveNothing(l) \/ ReceiveError(l)
    BY <1>3 DEF ReceiveMessage, ReceiveNothing, ReceiveError
  <1>4. CASE Deliver(l)
    BY <1>4 DEF Deliver
  <1>5. CASE Overrun(l)
    <2>1. pc' = [pc EXCEPT ![l] = "overrun"]
      BY <1>5 DEF Overrun, Typed, TypeOK, ListenerTypeOK
    <2> QED
      BY <1>5, <2>1 DEF Overrun
  <1>6. CASE CloseClient(l) \/ ZeroClient(l) \/ Leave(l)
    BY <1>6 DEF CloseClient, ZeroClient, Leave
  <1>7. CASE ReadTorn(l)
    <2>1. pc' = [pc EXCEPT ![l] = "receive"]
      BY <1>7 DEF ReadTorn, Typed, TypeOK, ListenerTypeOK
    <2> QED
      BY <1>7, <2>1 DEF ReadTorn
  <1> QED
    BY <1>1, <1>2, <1>3, <1>4, <1>5, <1>6, <1>7 DEF ListenerStep

LEMMA LifeListening ==
    ASSUME Typed, Life, NEW l \in Listeners, ListenerStep(l), UNCHANGED simVars
    PROVE  Life'
  <1> USE DEF Typed, TypeOK, ThreadTypeOK, ListenerTypeOK, SimTypeOK, Life
  <1>1. PointerAlive' /\ TimerHasListener'
    BY DEF PointerAlive, TimerHasListener
  <1>2. CASE Begin(l)
    <2>1. ThreadFollowsControl'
      BY <1>2 DEF Begin, Goto, RunInternalBegin, ThreadFollowsControl
    <2>2. AbsentHasNothing'
      BY <1>2 DEF Begin, RunInternalBegin, AbsentHasNothing
    <2> QED
      BY <1>1, <2>1, <2>2
  <1>3. CASE Return(l)
    <2>1. ThreadFollowsControl'
      BY <1>3 DEF Return, Goto, RunInternalEnd, ThreadFollowsControl
    <2>2. m_thread[l] = "active"
      BY <1>3 DEF Return, Goto, ThreadFollowsControl
    <2>3. AbsentHasNothing'
      BY <1>3, <2>2 DEF Return, RunInternalEnd, AbsentHasNothing
    <2> QED
      BY <1>1, <2>1, <2>3
  <1>4. CASE ~Begin(l) /\ ~Return(l)
    <2>1. /\ UNCHANGED threadVars
          /\ pc[l] \notin {"none", "begin"}
          /\ \/ UNCHANGED servSockDescr
             \/ servSockDescr' = [servSockDescr EXCEPT ![l] = "0"]
          /\ process' \in {process, "crashed"}
      BY <1>4, InnerStep
    <2>2. PICK s \in Steps \ {"none", "begin"} : pc' = [pc EXCEPT ![l] = s]
      BY <1>4, InnerStep
    <2>3. ThreadFollowsControl'
      BY <2>1, <2>2 DEF ThreadFollowsControl
    <2>4. AbsentHasNothing'
      BY <2>1 DEF AbsentHasNothing
    <2> QED
      BY <1>1, <2>3, <2>4
  <1> QED
    BY <1>2, <1>3, <1>4

LEMMA LifeSimulator ==
    ASSUME Typed, Life, SimStep
    PROVE  Life'
  <1> USE DEF Typed, TypeOK, ThreadTypeOK, ListenerTypeOK, SimTypeOK, SimSteps, Step,
              Life, ThreadFollowsControl, AbsentHasNothing, PointerAlive,
              TimerHasListener
  <1>1. ASSUME NEW l \in Listeners, StartListener(l)
        PROVE  Life'
    <2>1. /\ m_thread[l] = "none" /\ pc[l] = "none" /\ ~m_running[l]
          /\ sim = "idle" /\ l # nullptr
      BY <1>1, ListenersAssumption DEF StartListener, New
    <2>2. ThreadFollowsControl'
      BY <1>1, <2>1 DEF StartListener, ThreadStart
    <2>3. AbsentHasNothing'
      BY <1>1 DEF StartListener, New, Setup, ThreadStart
    <2>4. PointerAlive'
      BY <1>1, ListenersAssumption DEF StartListener, New
    <2>5. TimerHasListener'
      BY <1>1, <2>1 DEF StartListener, New
    <2> QED
      BY <2>2, <2>3, <2>4, <2>5
  <1>2. ASSUME NEW l \in Listeners, StartWithoutThread(l)
        PROVE  Life'
    <2>1. sim' = "idle" /\ l # nullptr
      BY <1>2, ListenersAssumption DEF StartWithoutThread, New
    <2>2. ThreadFollowsControl' /\ AbsentHasNothing'
      BY <1>2 DEF StartWithoutThread, New, Setup
    <2>3. PointerAlive'
      BY <1>2, ListenersAssumption DEF StartWithoutThread, New
    <2>4. TimerHasListener'
      BY <1>2, <2>1 DEF StartWithoutThread, New
    <2> QED
      BY <2>2, <2>3, <2>4
  <1>3. ASSUME NEW l \in Listeners, StartFails(l)
        PROVE  Life'
    <2>1. sim' = "idle" /\ l # nullptr
      BY <1>3, ListenersAssumption DEF StartFails, New
    <2>2. ThreadFollowsControl' /\ AbsentHasNothing'
      BY <1>3 DEF StartFails, New
    <2>3. PointerAlive'
      BY <1>3, ListenersAssumption DEF StartFails, New
    <2>4. TimerHasListener'
      BY <1>3, <2>1 DEF StartFails, New
    <2> QED
      BY <2>2, <2>3, <2>4
  <1>4. CASE Expire \/ ExpireEmpty
    BY <1>4 DEF Expire, ExpireEmpty, vars
  <1>5. CASE PopAndSendDown
    BY <1>5 DEF PopAndSendDown
  <1>6. CASE Recv
    BY <1>6 DEF Recv
  <1>7. ASSUME NEW part \in Parts,
               \/ Write(part) \/ WriteWaits(part) \/ WriteGoesOn(part)
               \/ WriteElsewhere(part) \/ WriteFails(part)
        PROVE  Life'
    <2>1. /\ UNCHANGED <<threadVars, pc, servSockDescr, process, obj,
                        p_tcp_listener, timer>>
          /\ sim' \in {"idle"} \cup Parts
      BY <1>7 DEF Write, WriteWaits, WriteGoesOn, WritePart, WriteElsewhere,
                  WriteFails, NextPart, Parts
    <2> QED
      BY <2>1 DEF Parts
  <1>8. CASE StopBegin
    <2>1. /\ timer' = FALSE
          /\ UNCHANGED <<m_thread, m_running, pc, obj, servSockDescr, process,
                         p_tcp_listener>>
      BY <1>8 DEF StopBegin, ThreadStop
    <2> QED
      BY <2>1
  <1>9. CASE StopJoin
    <2> DEFINE l == p_tcp_listener
    <2>1. /\ l \in Listeners /\ m_thread[l] # "active"
          /\ m_thread' = [m_thread EXCEPT ![l] = "none"]
          /\ UNCHANGED <<m_running, pc, obj, servSockDescr, process,
                         p_tcp_listener, timer>>
          /\ sim = "join"
      BY <1>9 DEF StopJoin, ThreadJoin, PointerInUse
    <2> QED
      BY <2>1
  <1>10. CASE StopDelete
    <2> DEFINE l == p_tcp_listener
    <2>1. /\ l \in Listeners /\ l # nullptr /\ sim = "delete"
          /\ UNCHANGED <<m_running, m_thread, pc, timer>>
          /\ obj' = [obj EXCEPT ![l] = "deleted"]
          /\ servSockDescr' = [servSockDescr EXCEPT ![l] = "0"]
          /\ p_tcp_listener' = nullptr
          /\ process' = IF Joinable(l) THEN "terminated" ELSE process
      BY <1>10, ListenersAssumption DEF StopDelete, PointerInUse
    <2>2. ThreadFollowsControl'
      BY <2>1
    <2>3. AbsentHasNothing'
      BY <2>1 DEF Joinable
    <2>4. PointerAlive' /\ TimerHasListener'
      BY <2>1
    <2> QED
      BY <2>2, <2>3, <2>4
  <1> QED
    BY <1>1, <1>2, <1>3, <1>4, <1>5, <1>6, <1>7, <1>8, <1>9, <1>10 DEF SimStep

LEMMA LifeNext == Typed /\ Life /\ [Next]_vars => Life'
  <1> SUFFICES ASSUME Typed, Life, [Next]_vars
               PROVE  Life'
    OBVIOUS
  <1>1. CASE SimStep
    BY <1>1, LifeSimulator
  <1>2. CASE Listening
    BY <1>2, LifeListening DEF Listening
  <1>3. CASE Clients
    BY <1>3 DEF Clients, ClientStep, Life, ThreadFollowsControl, AbsentHasNothing,
                PointerAlive, TimerHasListener
  <1>4. CASE UNCHANGED vars
    BY <1>4 DEF vars, Life, ThreadFollowsControl, AbsentHasNothing, PointerAlive,
                TimerHasListener
  <1> QED
    BY <1>1, <1>2, <1>3, <1>4 DEF Next

(* The life cycle of the objects holds in every interleaving.              *)
THEOREM LifeInvariant == Spec => [](Typed /\ Life)
  BY TypedInit, TypedNext, LifeInit, LifeNext, PTL DEF Spec

(* The timer's pop finds a listener and a message: no interleaving of the  *)
(* unlocked look at the queue with pushes, stops and starts invalidates it.*)
THEOREM PopsWhatIsThere == Spec => []PopFromNonEmpty
  <1>1. Typed /\ Life => PopFromNonEmpty
    BY ListenersAssumption
    DEF Typed, PointerInUse, Life, PointerAlive, PopFromNonEmpty
  <1> QED
    BY <1>1, LifeInvariant, PTL

--------------------------------------------------------------------------------
(* The inductive invariant of the clients' descriptors: the place of the   *)
(* thread tells the state of its connection, no two threads have the same, *)
(* and an open connection has its thread.                                  *)
UpSteps == {"serve", "select", "receive", "deliver", "overrun"}

ClientOfControl ==
    \A l \in Listeners :
        /\ pc[l] \in UpSteps => conn[clnSockDescr[l]] = "up"
        /\ pc[l] = "close" => conn[clnSockDescr[l]] \in {"up", "shut"}
        /\ pc[l] = "zero" => conn[clnSockDescr[l]] = "closed"
        /\ pc[l] \notin ServingSteps => clnSockDescr[l] \notin Conns

OwnClient ==
    \A k, l \in Listeners :
        k # l /\ clnSockDescr[k] \in Conns => clnSockDescr[k] # clnSockDescr[l]

OpenHasListener ==
    \A c \in Conns : conn[c] \in {"up", "shut"} =>
        \E l \in Listeners : clnSockDescr[l] = c

Descr == ClientOfControl /\ OwnClient /\ OpenHasListener

LEMMA DescrInit == Init => Descr
  BY ConnsAssumption
  DEF Init, ListenerInit, NetInit, Descr, ClientOfControl, UpSteps, ServingSteps,
      OwnClient, OpenHasListener

(* A descriptor in use is not in the backlog and not unused.               *)
LEMMA ServedIsAccepted ==
    ASSUME Typed, Descr, NEW l \in Listeners, clnSockDescr[l] \in Conns
    PROVE  conn[clnSockDescr[l]] \in {"up", "shut", "closed"}
  BY DEF Descr, ClientOfControl, UpSteps, ServingSteps

(* Steps that move a thread and touch neither descriptors nor connections. *)
LEMMA DescrMove ==
    ASSUME Typed, Descr, NEW l \in Listeners, NEW s \in Steps,
           pc' = [pc EXCEPT ![l] = s],
           UNCHANGED <<conn, clnSockDescr>>,
           \/ pc[l] \notin ServingSteps /\ s \notin ServingSteps
           \/ pc[l] \in UpSteps /\ s \in UpSteps \cup {"close"}
    PROVE  Descr'
  <1>1. ClientOfControl'
    BY DEF Typed, TypeOK, ListenerTypeOK, Descr, ClientOfControl, UpSteps, ServingSteps
  <1> QED
    BY <1>1 DEF Descr, OwnClient, OpenHasListener

(* Steps that leave the threads where they are and change only connections *)
(* that no thread serves.                                                  *)
LEMMA DescrOthers ==
    ASSUME Typed, Descr, UNCHANGED <<pc, clnSockDescr>>,
           \A c \in Conns : conn[c] \in {"up", "shut", "closed"} => conn'[c] = conn[c],
           \A c \in Conns : conn'[c] \in {"up", "shut"} => conn[c] \in {"up", "shut"}
    PROVE  Descr'
  <1>1. ClientOfControl'
    <2> SUFFICES ASSUME NEW l \in Listeners
                 PROVE  /\ pc[l] \in UpSteps => conn'[clnSockDescr[l]] = "up"
                        /\ pc[l] = "close" => conn'[clnSockDescr[l]] \in {"up", "shut"}
                        /\ pc[l] = "zero" => conn'[clnSockDescr[l]] = "closed"
                        /\ pc[l] \notin ServingSteps => clnSockDescr[l] \notin Conns
      BY DEF ClientOfControl
    <2>1. CASE clnSockDescr[l] \in Conns
      <3>1. conn'[clnSockDescr[l]] = conn[clnSockDescr[l]]
        BY <2>1, ServedIsAccepted
      <3> QED
        BY <3>1 DEF Descr, ClientOfControl
    <2>2. CASE clnSockDescr[l] \notin Conns
      <3>1. pc[l] \notin ServingSteps
        BY <2>2 DEF Typed, ServedDescriptor
      <3> QED
        BY <2>2, <3>1 DEF UpSteps, ServingSteps
    <2> QED
      BY <2>1, <2>2
  <1> QED
    BY <1>1 DEF Descr, OwnClient, OpenHasListener

LEMMA DescrListening ==
    ASSUME Typed, Descr, NEW l \in Listeners, ListenerStep(l)
    PROVE  Descr'
  <1> USE DEF Typed, TypeOK, ListenerTypeOK, NetTypeOK, Goto
  <1>1. CASE Begin(l) \/ LoopTest(l) \/ ClientTest(l)
    BY <1>1, DescrMove DEF Begin, LoopTest, ClientTest, Steps, UpSteps, ServingSteps
  <1>2. CASE SelectReady(l) \/ SelectTimeout(l) \/ SelectFails(l)
    BY <1>2, DescrMove DEF SelectReady, SelectTimeout, SelectFails, Steps, UpSteps,
                           ServingSteps
  <1>3. CASE ReceiveMessage(l) \/ ReceiveError(l)
    BY <1>3, DescrMove DEF ReceiveMessage, ReceiveError, Steps, UpSteps, ServingSteps
  <1>4. CASE Deliver(l) \/ Return(l)
    BY <1>4, DescrMove DEF Deliver, Return, Steps, UpSteps, ServingSteps
  <1>5. CASE Overrun(l) \/ ReadTorn(l)
    BY <1>5 DEF Overrun, ReadTorn, Descr, ClientOfControl, OwnClient, OpenHasListener
  <1>6. CASE Accept(l)
    <2>1. PICK c \in Conns :
            /\ conn[c] = "backlog"
            /\ conn' = [conn EXCEPT ![c] = "up"]
            /\ clnSockDescr' = [clnSockDescr EXCEPT ![l] = c]
      BY <1>6 DEF Accept
    <2>2. \A k \in Listeners : clnSockDescr[k] # c
      BY <2>1, ServedIsAccepted
    <2>3. pc' = [pc EXCEPT ![l] = "serve"] /\ clnSockDescr[l] \notin Conns
      BY <1>6 DEF Accept, Descr, ClientOfControl, ServingSteps
    <2>4. ClientOfControl'
      BY <2>1, <2>2, <2>3 DEF Descr, ClientOfControl, UpSteps, ServingSteps
    <2>5. OwnClient'
      BY <2>1, <2>2 DEF Descr, OwnClient
    <2>6. OpenHasListener'
      BY <2>1, <2>3 DEF Descr, OpenHasListener
    <2> QED
      BY <2>4, <2>5, <2>6 DEF Descr
  <1>7. CASE AcceptFails(l)
    <2>1. /\ pc' = [pc EXCEPT ![l] = "leave"] /\ pc[l] = "accept"
          /\ clnSockDescr' = [clnSockDescr EXCEPT ![l] = "-1"]
          /\ UNCHANGED conn /\ "-1" \notin Conns
      BY <1>7, ConnsAssumption DEF AcceptFails
    <2>2. clnSockDescr[l] \notin Conns
      BY <2>1 DEF Descr, ClientOfControl, ServingSteps
    <2>3. ClientOfControl'
      BY <2>1 DEF Descr, ClientOfControl, UpSteps, ServingSteps
    <2>4. OwnClient'
      BY <2>1 DEF Descr, OwnClient
    <2>5. OpenHasListener'
      BY <2>1, <2>2 DEF Descr, OpenHasListener
    <2> QED
      BY <2>3, <2>4, <2>5 DEF Descr
  <1>8. CASE ReceiveNothing(l) \/ CloseClient(l)
    <2> DEFINE c == clnSockDescr[l]
    <2>1. PICK s \in {"close", "zero"}, t \in {"shut", "closed"} :
            /\ pc' = [pc EXCEPT ![l] = s]
            /\ conn' = [conn EXCEPT ![c] = t]
            /\ s = "close" => t = "shut"
            /\ s = "zero" => t = "closed"
      BY <1>8 DEF ReceiveNothing, CloseClient
    <2>2. /\ pc[l] \in ServingSteps /\ c \in Conns
          /\ UNCHANGED clnSockDescr
      BY <1>8 DEF ReceiveNothing, CloseClient, ServingSteps, ServedDescriptor
    <2>3. conn[c] \in {"up", "shut"}
      BY <1>8 DEF ReceiveNothing, CloseClient, Descr, ClientOfControl, UpSteps
    <2>4. \A k \in Listeners \ {l} : clnSockDescr[k] # c
      BY <2>2 DEF Descr, OwnClient
    <2>5. ClientOfControl'
      BY <2>1, <2>2, <2>4 DEF Descr, ClientOfControl, UpSteps, ServingSteps
    <2>6. OwnClient'
      BY <2>2 DEF Descr, OwnClient
    <2>7. OpenHasListener'
      BY <2>1, <2>2, <2>3 DEF Descr, OpenHasListener
    <2> QED
      BY <2>5, <2>6, <2>7 DEF Descr
  <1>9. CASE ZeroClient(l)
    <2>1. /\ pc[l] = "zero" /\ pc' = [pc EXCEPT ![l] = "test"]
          /\ clnSockDescr' = [clnSockDescr EXCEPT ![l] = "0"]
          /\ UNCHANGED conn /\ "0" \notin Conns
      BY <1>9, ConnsAssumption DEF ZeroClient
    <2>2. conn[clnSockDescr[l]] = "closed"
      BY <2>1 DEF Descr, ClientOfControl
    <2>3. ClientOfControl'
      BY <2>1 DEF Descr, ClientOfControl, UpSteps, ServingSteps
    <2>4. OwnClient'
      BY <2>1 DEF Descr, OwnClient
    <2>5. OpenHasListener'
      BY <2>1, <2>2 DEF Descr, OpenHasListener
    <2> QED
      BY <2>3, <2>4, <2>5 DEF Descr
  <1>10. CASE Leave(l)
    <2>1. /\ pc[l] = "leave" /\ pc' = [pc EXCEPT ![l] = "return"]
          /\ UNCHANGED clnSockDescr
          /\ conn' = [c \in Conns |-> IF conn[c] = "backlog" THEN "closed" ELSE conn[c]]
      BY <1>10 DEF Leave, DropBacklog
    <2>2. \A k \in Listeners : clnSockDescr[k] \in Conns =>
            conn'[clnSockDescr[k]] = conn[clnSockDescr[k]]
      BY <2>1, ServedIsAccepted
    <2>3. \A k \in Listeners : pc'[k] \in ServingSteps =>
            /\ pc'[k] = pc[k] /\ clnSockDescr[k] \in Conns
            /\ conn'[clnSockDescr[k]] = conn[clnSockDescr[k]]
      BY <2>1, <2>2 DEF ServedDescriptor, ServingSteps
    <2>4. \A k \in Listeners : pc'[k] \notin ServingSteps => pc[k] \notin ServingSteps
      BY <2>1 DEF ServingSteps
    <2>5. ClientOfControl'
      BY <2>1, <2>3, <2>4 DEF Descr, ClientOfControl, UpSteps, ServingSteps
    <2>6. OwnClient' /\ OpenHasListener'
      BY <2>1 DEF Descr, OwnClient, OpenHasListener
    <2> QED
      BY <2>5, <2>6 DEF Descr
  <1> QED
    BY <1>1, <1>2, <1>3, <1>4, <1>5, <1>6, <1>7, <1>8, <1>9, <1>10 DEF ListenerStep

LEMMA DescrSimulator ==
    ASSUME Typed, Life, Descr, SimStep
    PROVE  Descr'
  <1> USE DEF Typed, TypeOK, ListenerTypeOK, NetTypeOK
  <1>1. ASSUME NEW l \in Listeners, StartListener(l)
        PROVE  Descr'
    <2>1. pc[l] = "none"
      BY <1>1 DEF StartListener, New, Life, ThreadFollowsControl, AbsentHasNothing
    <2> QED
      BY <1>1, <2>1, DescrMove DEF StartListener, Steps, ServingSteps
  <1>2. CASE StopDelete
    <2>1. CASE UNCHANGED netVars
      BY <1>2, <2>1, DescrOthers DEF StopDelete
    <2>2. CASE DropBacklog
      BY <1>2, <2>2, DescrOthers DEF StopDelete, DropBacklog
    <2> QED
      BY <1>2, <2>1, <2>2 DEF StopDelete
  <1>3. ASSUME UNCHANGED <<pc, clnSockDescr, conn>>
        PROVE  Descr'
    BY <1>3, DescrOthers
  <1>4. CASE \E l \in Listeners : StartWithoutThread(l) \/ StartFails(l)
    BY <1>3, <1>4 DEF StartWithoutThread, StartFails
  <1>5. CASE Expire \/ ExpireEmpty \/ PopAndSendDown
    BY <1>3, <1>5 DEF Expire, ExpireEmpty, PopAndSendDown, vars
  <1>6. CASE Recv \/ \E part \in Parts :
                        \/ Write(part) \/ WriteWaits(part) \/ WriteGoesOn(part)
                        \/ WriteElsewhere(part) \/ WriteFails(part)
    BY <1>3, <1>6 DEF Recv, Write, WriteWaits, WriteGoesOn, WritePart,
                      WriteElsewhere, WriteFails
  <1>7. CASE StopBegin \/ StopJoin
    BY <1>3, <1>7 DEF StopBegin, StopJoin
  <1> QED
    BY <1>1, <1>2, <1>4, <1>5, <1>6, <1>7 DEF SimStep

LEMMA DescrNext == Typed /\ Life /\ Descr /\ [Next]_vars => Descr'
  <1> SUFFICES ASSUME Typed, Life, Descr, [Next]_vars
               PROVE  Descr'
    OBVIOUS
  <1>1. CASE SimStep
    BY <1>1, DescrSimulator
  <1>2. CASE Listening
    BY <1>2, DescrListening DEF Listening
  <1>3. CASE Clients
    <2>1. PICK c \in Conns : ClientStep(c)
      BY <1>3 DEF Clients
    <2>2. UNCHANGED <<pc, clnSockDescr>>
      BY <2>1 DEF ClientStep
    <2>3. \/ UNCHANGED conn
          \/ conn[c] = "unused" /\ conn' = [conn EXCEPT ![c] = "backlog"]
      BY <2>1 DEF ClientStep, Connect, Send, SendBytes, SendRest, SendMisread, Close,
                     Refuse, Reset
    <2> QED
      BY <2>2, <2>3, DescrOthers DEF Typed, TypeOK, NetTypeOK
  <1>4. CASE UNCHANGED vars
    BY <1>4, DescrOthers DEF vars
  <1> QED
    BY <1>1, <1>2, <1>3, <1>4 DEF Next

(* The inductive invariant of the whole life cycle.                        *)
THEOREM DescrInvariant == Spec => [](Typed /\ Life /\ Descr)
  BY TypedInit, TypedNext, LifeInit, LifeNext, DescrInit, DescrNext, PTL DEF Spec

--------------------------------------------------------------------------------
(* What follows from it.                                                   *)

(* A deleted listener leaves nothing behind, and stop leaves no timer and, *)
(* if start and stop are called in turns, no listener.                     *)
THEOREM StopLeavesNothing == Spec => []StopIsComplete
  <1>1. ASSUME Typed, Life, Descr
        PROVE  StopIsComplete
    <2> SUFFICES ASSUME process = "up"
                 PROVE  /\ \A l \in Listeners : obj[l] = "deleted" =>
                            /\ m_thread[l] = "none" /\ ~m_running[l]
                            /\ servSockDescr[l] = "0" /\ clnSockDescr[l] \notin Conns
                        /\ sim = "idle" /\ p_tcp_listener = nullptr =>
                            /\ ~timer
                            /\ ~StartAgain => \A l \in Listeners : obj[l] # "alive"
      BY DEF StopIsComplete
    <2>1. ASSUME NEW l \in Listeners, obj[l] = "deleted"
          PROVE  /\ m_thread[l] = "none" /\ ~m_running[l]
                 /\ servSockDescr[l] = "0" /\ clnSockDescr[l] \notin Conns
      <3>1. m_thread[l] = "none" /\ servSockDescr[l] = "0"
        BY <1>1, <2>1 DEF Life, AbsentHasNothing
      <3>2. pc[l] = "none" /\ ~m_running[l]
        BY <1>1, <3>1 DEF Life, ThreadFollowsControl
      <3> QED
        BY <1>1, <3>1, <3>2 DEF Descr, ClientOfControl, ServingSteps
    <2>2. p_tcp_listener = nullptr => ~timer
      BY <1>1 DEF Life, TimerHasListener
    <2>3. p_tcp_listener = nullptr /\ ~StartAgain => \A l \in Listeners : obj[l] # "alive"
      BY <1>1, ListenersAssumption DEF Life, PointerAlive
    <2> QED
      BY <2>1, <2>2, <2>3
  <1> QED
    BY <1>1, DescrInvariant, PTL

(* Every open connection is served by exactly one thread, which runs, of   *)
(* a listener that exists: stops, restarts and failing starts leak none.   *)
THEOREM ConnectionsServed == Spec => []OpenConnectionServed
  <1>1. ASSUME Typed, Life, Descr
        PROVE  OpenConnectionServed
    <2> SUFFICES ASSUME process = "up", NEW c \in Conns, conn[c] \in {"up", "shut"}
                 PROVE  \E l \in Listeners :
                            /\ clnSockDescr[l] = c
                            /\ m_thread[l] = "active" /\ obj[l] = "alive"
                            /\ \A k \in Listeners \ {l} : clnSockDescr[k] # c
      BY DEF OpenConnectionServed
    <2>1. PICK l \in Listeners : clnSockDescr[l] = c
      BY <1>1 DEF Descr, OpenHasListener
    <2>2. pc[l] # "none"
      BY <1>1, <2>1 DEF Descr, ClientOfControl, ServingSteps
    <2>3. m_thread[l] = "active"
      BY <1>1, <2>2 DEF Life, ThreadFollowsControl
    <2>4. obj[l] = "alive"
      BY <1>1, <2>3 DEF Life, AbsentHasNothing, Typed, TypeOK, SimTypeOK
    <2>5. \A k \in Listeners \ {l} : clnSockDescr[k] # c
      BY <1>1, <2>1 DEF Descr, OwnClient
    <2> QED
      BY <2>1, <2>3, <2>4, <2>5
  <1> QED
    BY <1>1, DescrInvariant, PTL

--------------------------------------------------------------------------------
(* What a step may never do.                                               *)

(* A deleted listener's thread is over: of all steps only those of other   *)
(* listeners and of the simulator remain, which has no pointer to it.      *)
LEMMA DeletedUntouched ==
    ASSUME Typed, Life, [Next]_vars, NEW l \in Listeners, obj[l] = "deleted"
    PROVE  p_tcp_listener # l /\ UNCHANGED OfListener(l)
  <1> USE DEF Typed, TypeOK, ThreadTypeOK, ListenerTypeOK, SimTypeOK, OfListener
  <1>1. p_tcp_listener # l
    BY ListenersAssumption DEF Life, PointerAlive
  <1>2. CASE UNCHANGED vars
    BY <1>1, <1>2 DEF vars
  <1> SUFFICES ASSUME Next
               PROVE  UNCHANGED OfListener(l)
    BY <1>1, <1>2
  <1>3. process = "up" /\ m_thread[l] = "none" /\ pc[l] = "none"
    BY DEF Next, Life, AbsentHasNothing, ThreadFollowsControl
  <1>4. CASE SimStep
    <2>1. ASSUME NEW k \in Listeners,
                 StartListener(k) \/ StartWithoutThread(k) \/ StartFails(k)
          PROVE  UNCHANGED OfListener(l)
      <3>1. k # l
        BY <2>1 DEF StartListener, StartWithoutThread, StartFails, New
      <3> QED
        BY <2>1, <3>1 DEF StartListener, StartWithoutThread, StartFails, Setup,
                          ThreadStart
    <2>2. CASE Expire \/ ExpireEmpty
      BY <2>2 DEF Expire, ExpireEmpty, vars
    <2>3. CASE PopAndSendDown
      BY <1>1, <2>3 DEF PopAndSendDown, Step, PointerInUse
    <2>4. CASE Recv \/ \E part \in Parts :
                          \/ Write(part) \/ WriteWaits(part) \/ WriteGoesOn(part)
                          \/ WriteElsewhere(part) \/ WriteFails(part)
      BY <2>4 DEF Recv, Write, WriteWaits, WriteGoesOn, WritePart, WriteElsewhere,
                  WriteFails
    <2>5. CASE StopBegin
      BY <1>1, <2>5 DEF StopBegin, ThreadStop
    <2>6. CASE StopJoin
      BY <1>1, <2>6 DEF StopJoin, ThreadJoin
    <2>7. CASE StopDelete
      BY <1>1, <2>7 DEF StopDelete
    <2> QED
      BY <1>4, <2>1, <2>2, <2>3, <2>4, <2>5, <2>6, <2>7 DEF SimStep
  <1>5. CASE Listening
    <2>1. PICK k \in Listeners : ListenerStep(k)
      BY <1>5 DEF Listening
    <2>2. pc[k] # "none"
      BY <2>1 DEF ListenerStep, Begin, LoopTest, Accept, AcceptFails, ClientTest,
                  SelectReady, SelectTimeout, SelectFails, ReceiveMessage, ReadTorn,
                  ReceiveNothing, ReceiveError, Deliver, Overrun, CloseClient,
                  ZeroClient, Leave, Return, Goto
    <2>3. k # l
      BY <1>3, <2>2
    <2> USE DEF Goto
    <2>4. CASE Begin(k) \/ LoopTest(k) \/ Accept(k) \/ AcceptFails(k) \/ ClientTest(k)
      BY <2>3, <2>4 DEF Begin, RunInternalBegin, LoopTest, Accept, AcceptFails, ClientTest
    <2>5. CASE SelectReady(k) \/ SelectTimeout(k) \/ SelectFails(k)
      BY <2>3, <2>5 DEF SelectReady, SelectTimeout, SelectFails
    <2>6. CASE ReceiveMessage(k) \/ ReceiveNothing(k) \/ ReceiveError(k)
      BY <2>3, <2>6 DEF ReceiveMessage, ReceiveNothing, ReceiveError
    <2>7. CASE Deliver(k)
      BY <2>3, <2>7 DEF Deliver
    <2>8. CASE ReadTorn(k) \/ Overrun(k) \/ CloseClient(k) \/ ZeroClient(k)
      BY <2>3, <2>8 DEF ReadTorn, Overrun, CloseClient, ZeroClient
    <2>9. CASE Leave(k) \/ Return(k)
      BY <2>3, <2>9 DEF Leave, Return, RunInternalEnd
    <2> QED
      BY <2>1, <2>4, <2>5, <2>6, <2>7, <2>8, <2>9 DEF ListenerStep
  <1>6. CASE Clients
    BY <1>6 DEF Clients, ClientStep
  <1> QED
    BY <1>4, <1>5, <1>6 DEF Next

(* Nothing of a listener is used after it was deleted, in any interleaving *)
(* of stops, starts and the threads.                                       *)
THEOREM NothingUsedAfterDelete == Spec => NoUseAfterDelete
  <1>1. Typed /\ Life /\ [Next]_vars =>
            [\A l \in Listeners : obj[l] = "deleted" =>
                p_tcp_listener # l /\ UNCHANGED OfListener(l)]_vars
    BY DeletedUntouched
  <1> QED
    BY <1>1, LifeInvariant, PTL DEF Spec, NoUseAfterDelete

(* Only a thread that has begun is asked to stop: the request is to a      *)
(* running thread, and an object has one thread in its life.               *)
AskedWhileRunning ==
    \A l \in Listeners : m_stop[l] => obj[l] # "unborn" /\ pc[l] # "begin"

LEMMA AskedInit == Init => AskedWhileRunning
  BY DEF Init, ListenerInit, ThreadInit, AskedWhileRunning

(* The way to the end, place by place.                                     *)
LEMMA WayToEnd ==
    /\ StepsToEnd("none") < StepsToEnd("return")
    /\ StepsToEnd("return") < StepsToEnd("leave")
    /\ StepsToEnd("leave") < StepsToEnd("test")
    /\ StepsToEnd("leave") < StepsToEnd("accept")
    /\ StepsToEnd("test") < StepsToEnd("zero")
    /\ StepsToEnd("zero") < StepsToEnd("close")
    /\ StepsToEnd("close") < StepsToEnd("serve")
    /\ StepsToEnd("close") < StepsToEnd("receive")
    /\ StepsToEnd("serve") < StepsToEnd("deliver")
    /\ StepsToEnd("serve") < StepsToEnd("select")
    /\ StepsToEnd("serve") < StepsToEnd("accept")
    /\ StepsToEnd("deliver") < StepsToEnd("receive")
    /\ StepsToEnd("overrun") < StepsToEnd("receive")
    /\ StepsToEnd("receive") < StepsToEnd("select")
  BY DEF StepsToEnd

(* The step of one thread: it leaves the others where they are and, if it  *)
(* was asked to stop, goes on towards its end.                             *)
LEMMA ThreadGoesOn ==
    ASSUME Typed, AskedWhileRunning, NEW l \in Listeners, ListenerStep(l)
    PROVE  /\ UNCHANGED m_stop
           /\ \E s \in Steps \ {"begin"} :
                /\ pc' = [pc EXCEPT ![l] = s]
                /\ m_stop[l] /\ s # pc[l] => StepsToEnd(s) < StepsToEnd(pc[l])
  <1> USE WayToEnd DEF Typed, TypeOK, ListenerTypeOK, Goto, Steps
  <1>1. ASSUME UNCHANGED m_stop,
               NEW s \in Steps \ {"begin"}, Goto(l, pc[l], s),
               m_stop[l] /\ s # pc[l] => StepsToEnd(s) < StepsToEnd(pc[l])
        PROVE  /\ UNCHANGED m_stop
               /\ \E t \in Steps \ {"begin"} :
                    /\ pc' = [pc EXCEPT ![l] = t]
                    /\ m_stop[l] /\ t # pc[l] => StepsToEnd(t) < StepsToEnd(pc[l])
    BY <1>1
  <1>2. CASE Begin(l)
    <2>1. UNCHANGED m_stop /\ ~m_stop[l] /\ \E s \in {"test", "return"} : Goto(l, pc[l], s)
      BY <1>2 DEF Begin, RunInternalBegin, AskedWhileRunning
    <2> QED
      BY <1>1, <2>1
  <1>3. CASE LoopTest(l) \/ Accept(l) \/ AcceptFails(l)
    <2>1. UNCHANGED m_stop /\ \E s \in {"accept", "serve", "leave"} :
            /\ Goto(l, pc[l], s)
            /\ m_stop[l] => StepsToEnd(s) < StepsToEnd(pc[l])
      <3>1. CASE LoopTest(l)
        BY <3>1 DEF LoopTest, StopRequested
      <3>2. CASE Accept(l)
        <4>1. UNCHANGED m_stop /\ Goto(l, "accept", "serve") /\ pc[l] = "accept"
          BY <3>2 DEF Accept
        <4> QED
          BY <4>1
      <3>3. CASE AcceptFails(l)
        BY <3>3 DEF AcceptFails
      <3> QED
        BY <1>3, <3>1, <3>2, <3>3
    <2> QED
      BY <1>1, <2>1
  <1>4. CASE ClientTest(l)
    <2>1. UNCHANGED m_stop /\ \E s \in {"close", "select"} :
            /\ Goto(l, pc[l], s)
            /\ m_stop[l] => StepsToEnd(s) < StepsToEnd(pc[l])
      BY <1>4 DEF ClientTest, StopRequested
    <2> QED
      BY <1>1, <2>1
  <1>5. CASE SelectReady(l) \/ SelectTimeout(l) \/ SelectFails(l)
    BY <1>5 DEF SelectReady, SelectTimeout, SelectFails
  <1>6. CASE ReceiveMessage(l) \/ ReceiveNothing(l) \/ ReceiveError(l)
    BY <1>6 DEF ReceiveMessage, ReceiveNothing, ReceiveError
  <1>7. CASE Deliver(l)
    <2>1. UNCHANGED m_stop /\ Goto(l, "deliver", "serve") /\ pc[l] = "deliver"
      BY <1>7 DEF Deliver
    <2> QED
      BY <1>1, <2>1
  <1>8. CASE Overrun(l)
    <2>1. pc' = [pc EXCEPT ![l] = "overrun"] /\ pc[l] = "overrun" /\ UNCHANGED m_stop
      BY <1>8 DEF Overrun
    <2> QED
      BY <2>1
  <1>9. CASE CloseClient(l) \/ ZeroClient(l)
    BY <1>9 DEF CloseClient, ZeroClient
  <1>10. CASE Leave(l) \/ Return(l)
    BY <1>10 DEF Leave, Return, RunInternalEnd
  <1>11. CASE ReadTorn(l)
    <2>1. pc' = [pc EXCEPT ![l] = "receive"] /\ pc[l] = "receive" /\ UNCHANGED m_stop
      BY <1>11 DEF ReadTorn
    <2> QED
      BY <2>1
  <1> QED
    BY <1>2, <1>3, <1>4, <1>5, <1>6, <1>7, <1>8, <1>9, <1>10, <1>11 DEF ListenerStep

(* The simulator moves a thread only where it makes one, and asks only a   *)
(* running one to stop.                                                    *)
LEMMA SimulatorAsks ==
    ASSUME Typed, Life, AskedWhileRunning, SimStep
    PROVE  /\ AskedWhileRunning'
           /\ \A l \in Listeners : m_stop[l] => pc'[l] = pc[l]
  <1> USE DEF Typed, TypeOK, ThreadTypeOK, ListenerTypeOK, SimTypeOK, AskedWhileRunning
  <1>1. ASSUME NEW k \in Listeners,
               StartListener(k) \/ StartWithoutThread(k) \/ StartFails(k)
        PROVE  /\ AskedWhileRunning'
               /\ \A l \in Listeners : m_stop[l] => pc'[l] = pc[l]
    <2>1. /\ UNCHANGED m_stop /\ obj[k] = "unborn"
          /\ obj' = [obj EXCEPT ![k] = "alive"]
          /\ pc' = pc \/ pc' = [pc EXCEPT ![k] = "begin"]
      BY <1>1 DEF StartListener, StartWithoutThread, StartFails, New, ThreadStart
    <2> QED
      BY <2>1
  <1>2. ASSUME UNCHANGED <<m_stop, pc>>,
               \/ UNCHANGED obj
               \/ \E l \in Listeners : obj' = [obj EXCEPT ![l] = "deleted"]
        PROVE  /\ AskedWhileRunning'
               /\ \A l \in Listeners : m_stop[l] => pc'[l] = pc[l]
    BY <1>2
  <1>3. CASE Expire \/ ExpireEmpty \/ PopAndSendDown \/ Recv
    BY <1>2, <1>3 DEF Expire, ExpireEmpty, PopAndSendDown, Recv, vars
  <1>4. CASE \E part \in Parts :
                \/ Write(part) \/ WriteWaits(part) \/ WriteGoesOn(part)
                \/ WriteElsewhere(part) \/ WriteFails(part)
    BY <1>2, <1>4 DEF Write, WriteWaits, WriteGoesOn, WritePart, WriteElsewhere,
                      WriteFails
  <1>5. CASE StopBegin
    <2>1. CASE UNCHANGED threadVars
      BY <1>2, <1>5, <2>1 DEF StopBegin
    <2>2. CASE /\ p_tcp_listener # nullptr /\ Running(p_tcp_listener)
               /\ ThreadStop(p_tcp_listener)
      <3>1. /\ p_tcp_listener \in Listeners /\ UNCHANGED <<pc, obj>>
            /\ m_stop' = [m_stop EXCEPT ![p_tcp_listener] = TRUE]
        BY <1>5, <2>2 DEF StopBegin, ThreadStop
      <3>2. obj[p_tcp_listener] = "alive" /\ pc[p_tcp_listener] # "begin"
        BY <2>2, <3>1 DEF Running, Life, PointerAlive, ThreadFollowsControl
      <3> QED
        BY <3>1, <3>2
    <2> QED
      BY <1>5, <2>1, <2>2 DEF StopBegin
  <1>6. CASE StopJoin
    BY <1>2, <1>6 DEF StopJoin, ThreadJoin
  <1>7. CASE StopDelete
    BY <1>2, <1>7 DEF StopDelete, PointerInUse, Step
  <1> QED
    BY <1>1, <1>3, <1>4, <1>5, <1>6, <1>7 DEF SimStep

LEMMA AskedNext ==
    Typed /\ Life /\ AskedWhileRunning /\ [Next]_vars =>
        /\ AskedWhileRunning'
        /\ \A l \in Listeners : m_stop[l] /\ pc'[l] # pc[l] =>
                StepsToEnd(pc'[l]) < StepsToEnd(pc[l])
  <1> SUFFICES ASSUME Typed, Life, AskedWhileRunning, [Next]_vars
               PROVE  /\ AskedWhileRunning'
                      /\ \A l \in Listeners : m_stop[l] /\ pc'[l] # pc[l] =>
                            StepsToEnd(pc'[l]) < StepsToEnd(pc[l])
    OBVIOUS
  <1>1. CASE SimStep
    BY <1>1, SimulatorAsks
  <1>2. CASE Listening
    <2>1. PICK k \in Listeners : ListenerStep(k)
      BY <1>2 DEF Listening
    <2>2. PICK s \in Steps \ {"begin"} :
            /\ pc' = [pc EXCEPT ![k] = s]
            /\ m_stop[k] /\ s # pc[k] => StepsToEnd(s) < StepsToEnd(pc[k])
      BY <2>1, ThreadGoesOn
    <2>3. UNCHANGED <<m_stop, obj>> /\ pc \in [Listeners -> Steps]
      BY <1>2, <2>1, ThreadGoesOn DEF Listening, Typed, TypeOK, ListenerTypeOK
    <2>4. \A l \in Listeners : pc'[l] = IF l = k THEN s ELSE pc[l]
      BY <2>2, <2>3
    <2>5. AskedWhileRunning'
      BY <2>2, <2>3, <2>4 DEF AskedWhileRunning
    <2>6. \A l \in Listeners : m_stop[l] /\ pc'[l] # pc[l] =>
                StepsToEnd(pc'[l]) < StepsToEnd(pc[l])
      BY <2>2, <2>4
    <2> QED
      BY <2>5, <2>6
  <1>3. CASE Clients \/ UNCHANGED vars
    BY <1>3 DEF Clients, ClientStep, vars, AskedWhileRunning
  <1> QED
    BY <1>1, <1>2, <1>3 DEF Next

(* Every step of a thread that was asked to stop brings it nearer its end. *)
THEOREM StraightToTheEnd == Spec => StopGoesStraight
  <1>1. AskedWhileRunning /\ Typed /\ Life /\ [Next]_vars =>
            [\A l \in Listeners : m_stop[l] /\ pc'[l] # pc[l] =>
                StepsToEnd(pc'[l]) < StepsToEnd(pc[l])]_vars
    BY AskedNext
  <1>2. Spec => []AskedWhileRunning
    BY LifeInvariant, AskedInit, AskedNext, PTL DEF Spec
  <1> QED
    BY <1>1, <1>2, LifeInvariant, PTL DEF Spec, StopGoesStraight
================================================================================
