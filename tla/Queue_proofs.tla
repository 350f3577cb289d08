------------------------------ MODULE Queue_proofs ------------------------------
(***************************************************************************)
(* Proof that no message is lost or doubled between the push of the        *)
(* listener's thread and sendDown in the simulator's, in AppNetModule with *)
(* any number of listeners: the counter of pushes is the number of packets *)
(* sent down and of places taken in the queues.                            *)
(***************************************************************************)
EXTENDS LifeCycle_proofs, FiniteSetTheorems

USE DEF threadVars, listenerVars, ownerVars, netVars, clientVars, simVars,
        NextPacket, CloseServer

(* What Deliver pushes is one message.                                     *)
OneInBuffer == \A l \in Listeners : pc[l] = "deliver" => Len(buffer_msg[l]) = 1

Accounted == IsFiniteSet(Queued) /\ PushedMessagesAccounted

--------------------------------------------------------------------------------
(* The places in the queues                                                *)

Queues == [Listeners -> Seq(Message)]

Places(q) == UNION {{l} \X DOMAIN q[l] : l \in Listeners}

LEMMA PlacesOf ==
    ASSUME NEW q \in Queues
    PROVE  \A x : x \in Places(q) <=>
                \E l \in Listeners : \E i \in 1 .. Len(q[l]) : x = <<l, i>>
  <1>1. \A l \in Listeners : DOMAIN q[l] = 1 .. Len(q[l])
    BY LenProperties DEF Queues
  <1> QED
    BY <1>1 DEF Places

(* If one queue is longer by one, it takes one more place.                 *)
LEMMA OnePlaceMore ==
    ASSUME NEW q \in Queues, NEW r \in Queues, NEW l \in Listeners, NEW n \in Nat,
           Len(q[l]) = n, Len(r[l]) = n + 1,
           \A k \in Listeners \ {l} : r[k] = q[k]
    PROVE  /\ Places(r) = Places(q) \cup {<<l, n + 1>>}
           /\ <<l, n + 1>> \notin Places(q)
  <1>1. \A x : x \in Places(r) <=>
            \E k \in Listeners : \E i \in 1 .. Len(r[k]) : x = <<k, i>>
    BY PlacesOf
  <1>2. \A x : x \in Places(q) <=>
            \E k \in Listeners : \E i \in 1 .. Len(q[k]) : x = <<k, i>>
    BY PlacesOf
  <1>3. \A i : i \in 1 .. n + 1 <=> i \in 1 .. n \/ i = n + 1
    OBVIOUS
  <1>4. n + 1 \notin 1 .. n
    OBVIOUS
  <1>5. <<l, n + 1>> \notin Places(q)
    BY <1>2, <1>4
  <1>6. ASSUME NEW x
        PROVE  x \in Places(r) <=> x \in Places(q) \/ x = <<l, n + 1>>
    <2>1. ASSUME x \in Places(r)
          PROVE  x \in Places(q) \/ x = <<l, n + 1>>
      <3>1. PICK k \in Listeners : \E i \in 1 .. Len(r[k]) : x = <<k, i>>
        BY <1>1, <2>1
      <3>2. CASE k = l
        BY <3>1, <3>2, <1>2, <1>3
      <3>3. CASE k # l
        BY <3>1, <3>3, <1>2
      <3> QED
        BY <3>2, <3>3
    <2>2. ASSUME x \in Places(q)
          PROVE  x \in Places(r)
      <3>1. PICK k \in Listeners : \E i \in 1 .. Len(q[k]) : x = <<k, i>>
        BY <1>2, <2>2
      <3>2. CASE k = l
        BY <3>1, <3>2, <1>1, <1>3
      <3>3. CASE k # l
        BY <3>1, <3>3, <1>1
      <3> QED
        BY <3>2, <3>3
    <2>3. ASSUME x = <<l, n + 1>>
          PROVE  x \in Places(r)
      <3>1. n + 1 \in 1 .. Len(r[l])
        OBVIOUS
      <3> QED
        BY <1>1, <2>3, <3>1
    <2> QED
      BY <2>1, <2>2, <2>3
  <1> QED
    BY <1>5, <1>6

LEMMA QueuedPlaces ==
    /\ Typed => queuePckRead \in Queues
    /\ Queued = Places(queuePckRead) /\ Queued' = Places(queuePckRead')
  BY DEF Queued, Places, Queues, Typed, TypeOK, ListenerTypeOK

--------------------------------------------------------------------------------
(* The buffer is filled by ReceiveMessage and emptied by Deliver.          *)

LEMMA BufferNext == Typed /\ Life /\ OneInBuffer /\ [Next]_vars => OneInBuffer'
  <1> SUFFICES ASSUME Typed, Life, OneInBuffer, [Next]_vars
               PROVE  OneInBuffer'
    OBVIOUS
  <1> USE DEF Typed, TypeOK, ListenerTypeOK, OneInBuffer
  <1>1. ASSUME UNCHANGED <<buffer_msg, pc>>
        PROVE  OneInBuffer'
    BY <1>1
  <1>2. CASE SimStep
    <2>1. CASE \E l \in Listeners : StartListener(l)
      BY <2>1 DEF StartListener
    <2>2. CASE \E l \in Listeners : StartWithoutThread(l) \/ StartFails(l)
      BY <1>1, <2>2 DEF StartWithoutThread, StartFails
    <2>3. CASE Expire \/ ExpireEmpty \/ PopAndSendDown
      BY <1>1, <2>3 DEF Expire, ExpireEmpty, PopAndSendDown, vars
    <2>4. CASE Recv \/ \E part \in Parts :
                          \/ Write(part) \/ WriteWaits(part) \/ WriteGoesOn(part)
                          \/ WriteElsewhere(part) \/ WriteFails(part)
      BY <1>1, <2>4 DEF Recv, Write, WriteWaits, WriteGoesOn, WritePart,
                        WriteElsewhere, WriteFails
    <2>5. CASE StopBegin \/ StopJoin \/ StopDelete
      BY <1>1, <2>5 DEF StopBegin, StopJoin, StopDelete
    <2> QED
      BY <1>2, <2>1, <2>2, <2>3, <2>4, <2>5 DEF SimStep
  <1>3. CASE Listening
    <2>1. PICK l \in Listeners : ListenerStep(l)
      BY <1>3 DEF Listening
    <2> USE DEF Goto
    <2>2. CASE Begin(l) \/ LoopTest(l) \/ Accept(l) \/ AcceptFails(l) \/ ClientTest(l)
      BY <2>2 DEF Begin, LoopTest, Accept, AcceptFails, ClientTest
    <2>3. CASE SelectReady(l) \/ SelectTimeout(l) \/ SelectFails(l)
      BY <2>3 DEF SelectReady, SelectTimeout, SelectFails
    <2>4. CASE ReceiveMessage(l)
      <3>1. /\ Len(buffer_msg'[l]) = 1
            /\ \A k \in Listeners \ {l} : buffer_msg'[k] = buffer_msg[k] /\ pc'[k] = pc[k]
        BY <2>4 DEF ReceiveMessage
      <3> QED
        BY <3>1
    <2>5. CASE ReceiveNothing(l) \/ ReceiveError(l)
      BY <2>5 DEF ReceiveNothing, ReceiveError
    <2>6. CASE Deliver(l)
      BY <2>6 DEF Deliver
    <2>7. CASE Overrun(l) \/ ReadTorn(l)
      BY <2>7 DEF Overrun, ReadTorn
    <2>8. CASE CloseClient(l) \/ ZeroClient(l) \/ Leave(l) \/ Return(l)
      BY <2>8 DEF CloseClient, ZeroClient, Leave, Return
    <2> QED
      BY <2>1, <2>2, <2>3, <2>4, <2>5, <2>6, <2>7, <2>8 DEF ListenerStep
  <1>4. CASE Clients
    BY <1>1, <1>4 DEF Clients, ClientStep
  <1>5. CASE UNCHANGED vars
    BY <1>1, <1>5 DEF vars
  <1> QED
    BY <1>2, <1>3, <1>4, <1>5 DEF Next

--------------------------------------------------------------------------------
(* The counter                                                             *)

LEMMA AccountedInit == Init => Accounted /\ OneInBuffer
  <1> SUFFICES ASSUME Init
               PROVE  Accounted /\ OneInBuffer
    OBVIOUS
  <1>1. /\ queuePckRead = [l \in Listeners |-> <<>>] /\ pkts_push_queue = 0
        /\ sentDown = <<>> /\ \A l \in Listeners : pc[l] = "none"
    BY DEF Init, ListenerInit, SimInit
  <1>2. Queued = {}
    BY <1>1 DEF Queued
  <1>3. IsFiniteSet(Queued) /\ Cardinality(Queued) = 0
    BY <1>2, FS_EmptySet
  <1>4. Len(sentDown) = 0
    BY <1>1
  <1> QED
    BY <1>1, <1>3, <1>4 DEF Accounted, PushedMessagesAccounted, OneInBuffer

LEMMA AccountedPush ==
    ASSUME Typed, Typed', OneInBuffer, Accounted, NEW l \in Listeners, Deliver(l),
           UNCHANGED sentDown
    PROVE  Accounted'
  <1>1. queuePckRead \in Queues /\ queuePckRead' \in Queues
    BY QueuedPlaces DEF Typed, TypeOK, ListenerTypeOK, Queues
  <1>2. /\ pkts_push_queue' = pkts_push_queue + 1
        /\ queuePckRead'[l] = queuePckRead[l] \o buffer_msg[l]
        /\ \A k \in Listeners \ {l} : queuePckRead'[k] = queuePckRead[k]
    BY <1>1 DEF Deliver, Queues
  <1>3. queuePckRead[l] \in Seq(Message) /\ buffer_msg[l] \in Seq(Message)
    BY DEF Typed, TypeOK, ListenerTypeOK
  <1>4. Len(buffer_msg[l]) = 1
    BY DEF Deliver, Goto, OneInBuffer
  <1>5. Len(queuePckRead[l]) \in Nat /\ Len(queuePckRead'[l]) = Len(queuePckRead[l]) + 1
    <2>1. Len(queuePckRead[l]) \in Nat
      BY <1>3, LenProperties
    <2>2. Len(queuePckRead[l] \o buffer_msg[l]) = Len(queuePckRead[l]) + Len(buffer_msg[l])
      BY <1>3, ConcatProperties
    <2> QED
      BY <1>2, <1>4, <2>1, <2>2
  <1>6. PICK x : Queued' = Queued \cup {x} /\ x \notin Queued
    <2>1. LET x == <<l, Len(queuePckRead[l]) + 1>> IN
          Places(queuePckRead') = Places(queuePckRead) \cup {x} /\ x \notin Places(queuePckRead)
      BY <1>1, <1>2, <1>5, OnePlaceMore
    <2> QED
      BY <2>1, QueuedPlaces
  <1>7. IsFiniteSet(Queued') /\ Cardinality(Queued') = Cardinality(Queued) + 1
    BY <1>6, FS_AddElement DEF Accounted
  <1>8. Cardinality(Queued) \in Nat /\ Len(sentDown) \in Nat
    BY FS_CardinalityType, LenProperties DEF Accounted, Typed, TypeOK, SimTypeOK
  <1> QED
    BY <1>2, <1>7, <1>8 DEF Accounted, PushedMessagesAccounted

LEMMA AccountedSendDown ==
    ASSUME Typed, Typed', Accounted, PopAndSendDown, UNCHANGED pkts_push_queue
    PROVE  Accounted'
  <1>1. queuePckRead \in Queues /\ queuePckRead' \in Queues
    BY QueuedPlaces DEF Typed, TypeOK, ListenerTypeOK, Queues
  <1>2. PICK l \in Listeners : l = p_tcp_listener /\ queuePckRead[l] # <<>>
    BY DEF PopAndSendDown, Step, Typed, PointerInUse
  <1>3. /\ queuePckRead'[l] = Tail(queuePckRead[l])
        /\ \A k \in Listeners \ {l} : queuePckRead[k] = queuePckRead'[k]
    BY <1>1, <1>2 DEF PopAndSendDown, Queues
  <1>4. queuePckRead[l] \in Seq(Message)
    BY <1>1 DEF Queues
  <1>5. Len(queuePckRead'[l]) \in Nat /\ Len(queuePckRead[l]) = Len(queuePckRead'[l]) + 1
    BY <1>2, <1>3, <1>4, HeadTailProperties, LenProperties
  <1>6. PICK x : Queued = Queued' \cup {x} /\ x \notin Queued'
    <2>1. LET x == <<l, Len(queuePckRead'[l]) + 1>> IN
          Places(queuePckRead) = Places(queuePckRead') \cup {x} /\ x \notin Places(queuePckRead')
      BY <1>1, <1>3, <1>5, OnePlaceMore
    <2> QED
      BY <2>1, QueuedPlaces
  <1>7. Queued' = Queued \ {x} /\ x \in Queued
    BY <1>6
  <1>8. IsFiniteSet(Queued') /\ Cardinality(Queued') = Cardinality(Queued) - 1
    BY <1>7, FS_RemoveElement DEF Accounted
  <1>9. Len(sentDown') = Len(sentDown) + 1 /\ Len(sentDown) \in Nat
    BY AppendProperties, LenProperties
    DEF PopAndSendDown, Typed, TypeOK, SimTypeOK
  <1>10. Cardinality(Queued) \in Nat
    BY FS_CardinalityType DEF Accounted
  <1> QED
    BY <1>8, <1>9, <1>10 DEF Accounted, PushedMessagesAccounted

LEMMA AccountedNext ==
    Typed /\ Typed' /\ OneInBuffer /\ Accounted /\ [Next]_vars => Accounted'
  <1> SUFFICES ASSUME Typed, Typed', OneInBuffer, Accounted, [Next]_vars
               PROVE  Accounted'
    OBVIOUS
  <1>1. ASSUME UNCHANGED <<queuePckRead, pkts_push_queue, sentDown>>
        PROVE  Accounted'
    BY <1>1 DEF Accounted, PushedMessagesAccounted, Queued
  <1>2. CASE PopAndSendDown
    BY <1>2, AccountedSendDown DEF PopAndSendDown
  <1>3. CASE SimStep /\ ~PopAndSendDown
    BY <1>1, <1>3
    DEF SimStep, StartListener, StartWithoutThread, StartFails, Expire, ExpireEmpty,
        Recv, Write, WriteWaits, WriteGoesOn, WritePart, WriteElsewhere, WriteFails,
        StopBegin, StopJoin, StopDelete, vars
  <1>4. CASE Listening
    <2>1. PICK l \in Listeners : ListenerStep(l)
      BY <1>4 DEF Listening
    <2>2. UNCHANGED sentDown
      BY <1>4 DEF Listening
    <2>3. CASE Deliver(l)
      BY <2>2, <2>3, AccountedPush
    <2>4. CASE ~Deliver(l)
      BY <1>1, <2>1, <2>2, <2>4
      DEF ListenerStep, Begin, LoopTest, Accept, AcceptFails, ClientTest,
          SelectReady, SelectTimeout, SelectFails, ReceiveMessage, ReadTorn,
          ReceiveNothing, ReceiveError, Overrun, CloseClient, ZeroClient, Leave, Return
    <2> QED
      BY <2>3, <2>4
  <1>5. CASE Clients
    BY <1>1, <1>5 DEF Clients, ClientStep
  <1>6. CASE UNCHANGED vars
    BY <1>1, <1>6 DEF vars
  <1> QED
    BY <1>2, <1>3, <1>4, <1>5, <1>6 DEF Next

(* What incrPktsPushQueue counted was sent down or waits in a queue, for   *)
(* any number of listeners, restarts and deleted listeners.                *)
THEOREM PushedAccounted == Spec => []PushedMessagesAccounted
  <1>1. Accounted => PushedMessagesAccounted
    BY DEF Accounted
  <1> QED
    BY <1>1, TypedNext, BufferNext, AccountedInit, AccountedNext, LifeInvariant, PTL
    DEF Spec

--------------------------------------------------------------------------------
(* The timer                                                               *)

(* The thread reads messages only with a server socket that was set up.    *)
QuietUnlessSetUp ==
    \A l \in Listeners : ~m_SocketSetUp[l] =>
        pc[l] \in {"none", "begin", "return"} /\ queuePckRead[l] = <<>>

UnbornNotSetUp == \A l \in Listeners : obj[l] = "unborn" => ~m_SocketSetUp[l]

(* start schedules the timer if Setup succeeds; only stop cancels it.      *)
TimerWhenSetUp ==
    p_tcp_listener # nullptr /\ m_SocketSetUp[p_tcp_listener] =>
        timer \/ sim \in {"join", "delete"}

Scheduled == QuietUnlessSetUp /\ UnbornNotSetUp /\ TimerWhenSetUp

LEMMA ScheduledInit == Init => Scheduled
  BY DEF Init, ListenerInit, SimInit, Scheduled, QuietUnlessSetUp, UnbornNotSetUp,
         TimerWhenSetUp

LEMMA ScheduledListening ==
    ASSUME Typed, Scheduled, NEW l \in Listeners, ListenerStep(l), UNCHANGED simVars
    PROVE  Scheduled'
  <1> USE DEF Typed, TypeOK, ListenerTypeOK, Goto
  <1>1. UNCHANGED m_SocketSetUp
    BY DEF ListenerStep, Begin, LoopTest, Accept, AcceptFails, ClientTest, SelectReady,
           SelectTimeout, SelectFails, ReceiveMessage, ReadTorn, ReceiveNothing,
           ReceiveError, Deliver, Overrun, CloseClient, ZeroClient, Leave, Return
  <1>2. UnbornNotSetUp' /\ TimerWhenSetUp'
    BY <1>1 DEF Scheduled, UnbornNotSetUp, TimerWhenSetUp
  <1>3. ASSUME ~m_SocketSetUp[l]
        PROVE  pc'[l] \in {"none", "return"} /\ UNCHANGED queuePckRead
    <2>1. pc[l] \in {"none", "begin", "return"}
      BY <1>3 DEF Scheduled, QuietUnlessSetUp
    <2>2. Begin(l) \/ Return(l)
      BY <2>1 DEF ListenerStep, LoopTest, Accept, AcceptFails, ClientTest, SelectReady,
                  SelectTimeout, SelectFails, ReceiveMessage, ReadTorn, ReceiveNothing,
                  ReceiveError, Deliver, Overrun, CloseClient, ZeroClient, Leave
    <2> QED
      BY <1>3, <2>2 DEF Begin, Return
  <1>4. \A k \in Listeners \ {l} : pc'[k] = pc[k] /\ queuePckRead'[k] = queuePckRead[k]
    BY DEF ListenerStep, Begin, LoopTest, Accept, AcceptFails, ClientTest, SelectReady,
           SelectTimeout, SelectFails, ReceiveMessage, ReadTorn, ReceiveNothing,
           ReceiveError, Deliver, Overrun, CloseClient, ZeroClient, Leave, Return
  <1>5. QuietUnlessSetUp'
    BY <1>1, <1>3, <1>4 DEF Scheduled, QuietUnlessSetUp
  <1> QED
    BY <1>2, <1>5 DEF Scheduled

LEMMA ScheduledSimulator ==
    ASSUME Typed, Life, Scheduled, SimStep
    PROVE  Scheduled'
  <1> USE DEF Typed, TypeOK, ListenerTypeOK, SimTypeOK, Step,
              Scheduled, QuietUnlessSetUp, UnbornNotSetUp, TimerWhenSetUp
  <1>1. ASSUME NEW l \in Listeners, StartListener(l) \/ StartWithoutThread(l)
        PROVE  Scheduled'
    <2>1. /\ p_tcp_listener' = l /\ timer' /\ UNCHANGED queuePckRead
          /\ m_SocketSetUp' = [m_SocketSetUp EXCEPT ![l] = TRUE]
          /\ obj' = [obj EXCEPT ![l] = "alive"]
          /\ pc' = pc \/ pc' = [pc EXCEPT ![l] = "begin"]
      BY <1>1 DEF StartListener, StartWithoutThread, New, Setup
    <2> QED
      BY <2>1
  <1>2. ASSUME NEW l \in Listeners, StartFails(l)
        PROVE  Scheduled'
    <2>1. /\ p_tcp_listener' = l /\ UNCHANGED <<pc, queuePckRead, m_SocketSetUp>>
          /\ obj[l] = "unborn" /\ obj' = [obj EXCEPT ![l] = "alive"]
      BY <1>2 DEF StartFails, New
    <2> QED
      BY <2>1
  <1>3. CASE PopAndSendDown
    <2>1. PICK l \in Listeners : l = p_tcp_listener /\ queuePckRead[l] # <<>>
      BY <1>3 DEF PopAndSendDown, PointerInUse
    <2>2. /\ queuePckRead' = [queuePckRead EXCEPT ![l] = Tail(@)] /\ sim = "pop"
          /\ UNCHANGED <<pc, m_SocketSetUp, p_tcp_listener, obj, timer>>
      BY <1>3, <2>1 DEF PopAndSendDown
    <2> QED
      BY <2>1, <2>2
  <1>4. ASSUME UNCHANGED <<pc, m_SocketSetUp, queuePckRead, p_tcp_listener, obj, timer>>,
               sim \notin {"join", "delete"}
        PROVE  Scheduled'
    BY <1>4
  <1>5. CASE Expire \/ ExpireEmpty \/ Recv
    BY <1>4, <1>5 DEF Expire, ExpireEmpty, Recv, vars
  <1>6. CASE \E part \in Parts :
                \/ Write(part) \/ WriteWaits(part) \/ WriteGoesOn(part)
                \/ WriteElsewhere(part) \/ WriteFails(part)
    BY <1>4, <1>6 DEF Write, WriteWaits, WriteGoesOn, WritePart, WriteElsewhere,
                      WriteFails, Parts
  <1>7. CASE StopBegin
    <2>1. /\ UNCHANGED <<pc, m_SocketSetUp, queuePckRead, p_tcp_listener, obj>>
          /\ p_tcp_listener = nullptr \/ sim' \in {"join", "delete"}
      BY <1>7 DEF StopBegin
    <2> QED
      BY <2>1
  <1>8. CASE StopJoin
    BY <1>8 DEF StopJoin
  <1>9. CASE StopDelete
    <2>1. p_tcp_listener \in Listeners
      BY <1>9 DEF StopDelete, PointerInUse
    <2>2. /\ UNCHANGED <<pc, m_SocketSetUp, queuePckRead>> /\ p_tcp_listener' = nullptr
          /\ obj' = [obj EXCEPT ![p_tcp_listener] = "deleted"]
      BY <1>9 DEF StopDelete
    <2> QED
      BY <2>1, <2>2
  <1> QED
    BY <1>1, <1>2, <1>3, <1>5, <1>6, <1>7, <1>8, <1>9 DEF SimStep

LEMMA ScheduledNext == Typed /\ Life /\ Scheduled /\ [Next]_vars => Scheduled'
  <1> SUFFICES ASSUME Typed, Life, Scheduled, [Next]_vars
               PROVE  Scheduled'
    OBVIOUS
  <1>1. CASE SimStep
    BY <1>1, ScheduledSimulator
  <1>2. CASE Listening
    BY <1>2, ScheduledListening DEF Listening
  <1>3. CASE Clients \/ UNCHANGED vars
    BY <1>3 DEF Clients, ClientStep, vars, Scheduled, QuietUnlessSetUp, UnbornNotSetUp,
                TimerWhenSetUp
  <1> QED
    BY <1>1, <1>2, <1>3 DEF Next

(* A message in the queue of the listener in use finds the timer running,  *)
(* unless stop is under way: no order of starts, failing starts and stops  *)
(* leaves a queue that nothing empties.                                    *)
THEOREM QueuedScheduled == Spec => []QueuedHasTimer
  <1>1. Typed /\ Scheduled => QueuedHasTimer
    BY DEF Typed, TypeOK, SimTypeOK, Scheduled, QuietUnlessSetUp, TimerWhenSetUp,
           QueuedHasTimer
  <1> QED
    BY <1>1, ScheduledInit, ScheduledNext, LifeInvariant, PTL DEF Spec
================================================================================
