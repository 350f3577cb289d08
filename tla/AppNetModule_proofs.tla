--------------------------- MODULE AppNetModule_proofs ---------------------------
(***************************************************************************)
(* Proofs about AppNetModule for any number of listeners and connections,  *)
(* every set of faults and every bound.                                    *)
(***************************************************************************)
EXTENDS AppNetModule, SequenceTheorems, TLAPS

(* A remainder is in the range of the sequence number field.               *)
LEMMA Remainder ==
    ASSUME NEW a \in Nat, NEW b \in Nat \ {0}
    PROVE  a % b \in 0 .. b - 1
  OBVIOUS

USE DEF threadVars, listenerVars, ownerVars, netVars, clientVars, simVars,
        NextPacket, CloseServer

--------------------------------------------------------------------------------
(* Types.  What the handlers read through clnSockDescr, p_tcp_listener and *)
(* the front of the queue has its type only where the control is in a      *)
(* place at which they are valid, so the three facts go together.          *)
ServingSteps == {"serve", "select", "receive", "deliver", "overrun", "close", "zero"}

ServedDescriptor ==
    \A l \in Listeners : pc[l] \in ServingSteps => clnSockDescr[l] \in Conns

PointerInUse ==
    /\ sim # "idle" => p_tcp_listener \in Listeners
    /\ sim = "pop" => queuePckRead[p_tcp_listener] # <<>>

Typed == TypeOK /\ ServedDescriptor /\ PointerInUse

LEMMA TypedInit == Init => Typed
  <1> SUFFICES ASSUME Init
               PROVE  Typed
    OBVIOUS
  <1>1. ThreadTypeOK
    BY DEF Init, ListenerInit, ThreadInit, ThreadTypeOK
  <1>2. ListenerTypeOK
    BY DEF Init, ListenerInit, ListenerTypeOK, Descriptors, Steps
  <1>3. NetTypeOK
    BY DEF Init, NetInit, NetTypeOK
  <1>4. SimTypeOK
    <2>1. /\ sim \in SimSteps /\ p_tcp_listener \in Listeners \cup {nullptr}
          /\ timer \in BOOLEAN /\ txsn \in Nat /\ uidcnt \in Nat /\ received \in Nat
          /\ blockedOn \in Conns \cup {nullptr}
      BY DEF Init, SimInit, SimSteps
    <2>2. obj \in [Listeners -> {"unborn", "alive", "deleted"}]
      BY DEF Init, SimInit
    <2>3. sentDown \in Seq(SentPacket)
      BY DEF Init, SimInit
    <2> QED
      BY <2>1, <2>2, <2>3 DEF SimTypeOK
  <1>5. ServedDescriptor /\ PointerInUse
    BY DEF Init, ListenerInit, SimInit, ServedDescriptor, ServingSteps, PointerInUse
  <1> QED
    BY <1>1, <1>2, <1>3, <1>4, <1>5 DEF Typed, TypeOK

(* The steps of a listener's thread keep the types.                        *)
LEMMA TypeListening ==
    ASSUME Typed, NEW l \in Listeners, ListenerStep(l), UNCHANGED simVars
    PROVE  TypeOK'
  <1> USE DEF Typed, TypeOK, ThreadTypeOK, ListenerTypeOK, NetTypeOK, SimTypeOK, Goto, Steps
  <1>1. CASE Begin(l)
    BY <1>1 DEF Begin, RunInternalBegin
  <1>2. CASE LoopTest(l)
    BY <1>2 DEF LoopTest
  <1>3. CASE Accept(l)
    BY <1>3 DEF Accept, Descriptors
  <1>4. CASE AcceptFails(l)
    BY <1>4 DEF AcceptFails, Descriptors
  <1>5. CASE ClientTest(l)
    BY <1>5 DEF ClientTest
  <1>6. CASE SelectReady(l) \/ SelectFails(l)
    <2>1. PICK left \in 0 .. m_ReadTimeout[l] :
            m_ReadTimeout' = [m_ReadTimeout EXCEPT ![l] = left]
      BY <1>6 DEF SelectReady, SelectFails
    <2>2. left \in {0, 1}
      <3>1. m_ReadTimeout[l] \in {0, 1}
        OBVIOUS
      <3>2. CASE m_ReadTimeout[l] = 0
        BY <2>1, <3>2
      <3>3. CASE m_ReadTimeout[l] = 1
        BY <2>1, <3>3
      <3> QED
        BY <3>1, <3>2, <3>3
    <2>3. m_ReadTimeout' \in [Listeners -> {0, 1}]
      BY <2>1, <2>2
    <2>4. CASE SelectReady(l)
      BY <2>3, <2>4 DEF SelectReady
    <2>5. CASE SelectFails(l)
      BY <2>3, <2>5 DEF SelectFails
    <2> QED
      BY <1>6, <2>4, <2>5
  <1>7. CASE SelectTimeout(l)
    BY <1>7 DEF SelectTimeout
  <1>8. CASE ReceiveMessage(l)
    <2> DEFINE c == clnSockDescr[l]
    <2>1. c \in Conns
      BY <1>8 DEF ReceiveMessage, ServedDescriptor, ServingSteps
    <2>2. inbound[c] \in Seq(Item) /\ inbound[c] # <<>>
      BY <1>8, <2>1 DEF ReceiveMessage, Front
    <2>3. Head(inbound[c]) \in Item /\ Tail(inbound[c]) \in Seq(Item)
      BY <2>2
    <2>4. inbound' \in [Conns -> Seq(Item)]
      BY <1>8, <2>1, <2>3 DEF ReceiveMessage
    <2>5. [conn |-> c, seq |-> Head(inbound[c]).seq, whole |-> Front(c) = "frame"]
            \in Message
      BY <2>1, <2>3 DEF Item, Message
    <2>6. buffer_msg' \in [Listeners -> Seq(Message)]
      BY <1>8, <2>5 DEF ReceiveMessage
    <2> QED
      BY <1>8, <2>4, <2>6 DEF ReceiveMessage
  <1>9. CASE ReceiveNothing(l)
    <2>1. clnSockDescr[l] \in Conns
      BY <1>9 DEF ReceiveNothing, ServedDescriptor, ServingSteps
    <2> QED
      BY <1>9, <2>1 DEF ReceiveNothing
  <1>10. CASE ReceiveError(l)
    BY <1>10 DEF ReceiveError
  <1>11. CASE Deliver(l)
    BY <1>11 DEF Deliver
  <1>12. CASE Overrun(l)
    BY <1>12 DEF Overrun
  <1>13. CASE CloseClient(l)
    <2>1. clnSockDescr[l] \in Conns
      BY <1>13 DEF CloseClient, ServedDescriptor, ServingSteps
    <2> QED
      BY <1>13, <2>1 DEF CloseClient
  <1>14. CASE ZeroClient(l)
    BY <1>14 DEF ZeroClient, Descriptors
  <1>15. CASE Leave(l)
    BY <1>15 DEF Leave, DropBacklog
  <1>16. CASE Return(l)
    BY <1>16 DEF Return, RunInternalEnd
  <1>17. CASE ReadTorn(l)
    <2> DEFINE c == clnSockDescr[l]
    <2>1. c \in Conns
      BY <1>17 DEF ReadTorn, ServedDescriptor, ServingSteps
    <2>2. inbound[c] \in Seq(Item) /\ inbound[c] # <<>>
      BY <1>17, <2>1 DEF ReadTorn, Front
    <2>3. 1 \in 1 .. Len(inbound[c])
      BY <2>2
    <2>4. inbound[c][1] \in Item
      BY <2>2, <2>3, ElementOfSeq
    <2>5. [inbound[c][1] EXCEPT !.kind = "head"] \in Item
      BY <2>4 DEF Item, Kinds
    <2>6. [inbound[c] EXCEPT ![1].kind = "head"] \in Seq(Item)
      BY <2>2, <2>3, <2>5, ExceptSeq
    <2>7. inbound' \in [Conns -> Seq(Item)]
      BY <1>17, <2>1, <2>6 DEF ReadTorn
    <2>8. adrift' \in [Conns -> BOOLEAN]
      BY <1>17 DEF ReadTorn
    <2> QED
      BY <1>17, <2>7, <2>8 DEF ReadTorn
  <1> QED
    BY <1>1, <1>2, <1>3, <1>4, <1>5, <1>6, <1>7, <1>8, <1>9, <1>10, <1>11,
       <1>12, <1>13, <1>14, <1>15, <1>16, <1>17 DEF ListenerStep

LEMMA PointersListening ==
    ASSUME Typed, NEW l \in Listeners, ListenerStep(l), UNCHANGED simVars
    PROVE  ServedDescriptor' /\ PointerInUse'
  <1> USE DEF Typed, TypeOK, ListenerTypeOK, NetTypeOK, ServedDescriptor,
              PointerInUse, Goto, ServingSteps
  <1>1. ASSUME UNCHANGED queuePckRead
        PROVE  PointerInUse'
    BY <1>1
  <1>3. CASE Begin(l)
    BY <1>1, <1>3 DEF Begin
  <1>4. CASE LoopTest(l)
    BY <1>1, <1>4 DEF LoopTest
  <1>5. CASE Accept(l)
    BY <1>1, <1>5 DEF Accept
  <1>6. CASE AcceptFails(l)
    BY <1>1, <1>6 DEF AcceptFails
  <1>7. CASE ClientTest(l)
    BY <1>1, <1>7 DEF ClientTest
  <1>8. CASE SelectReady(l)
    BY <1>1, <1>8 DEF SelectReady
  <1>9. CASE SelectTimeout(l)
    BY <1>1, <1>9 DEF SelectTimeout
  <1>10. CASE ReceiveMessage(l)
    BY <1>1, <1>10 DEF ReceiveMessage
  <1>11. CASE ReceiveNothing(l)
    BY <1>1, <1>11 DEF ReceiveNothing
  <1>12. CASE ReceiveError(l)
    BY <1>1, <1>12 DEF ReceiveError
  <1>13. CASE Deliver(l)
    <2>1. ServedDescriptor'
      BY <1>13 DEF Deliver
    <2>2. ASSUME sim' = "pop"
          PROVE  queuePckRead'[p_tcp_listener'] # <<>>
      <3>1. /\ p_tcp_listener \in Listeners /\ p_tcp_listener' = p_tcp_listener
            /\ queuePckRead[p_tcp_listener] \in Seq(Message)
            /\ queuePckRead[p_tcp_listener] # <<>>
            /\ buffer_msg[l] \in Seq(Message)
        BY <2>2
      <3>2. queuePckRead[p_tcp_listener] \o buffer_msg[l] # <<>>
        BY <3>1
      <3> QED
        BY <1>13, <3>1, <3>2 DEF Deliver
    <2> QED
      BY <2>1, <2>2
  <1>14. CASE Overrun(l)
    BY <1>1, <1>14 DEF Overrun
  <1>15. CASE CloseClient(l)
    BY <1>1, <1>15 DEF CloseClient
  <1>16. CASE ZeroClient(l)
    BY <1>1, <1>16 DEF ZeroClient
  <1>17. CASE Leave(l)
    BY <1>1, <1>17 DEF Leave
  <1>18. CASE Return(l)
    BY <1>1, <1>18 DEF Return
  <1>19. CASE SelectFails(l)
    BY <1>1, <1>19 DEF SelectFails
  <1>20. CASE ReadTorn(l)
    BY <1>1, <1>20 DEF ReadTorn
  <1> QED
    BY <1>3, <1>4, <1>5, <1>6, <1>7, <1>8, <1>9, <1>10, <1>11, <1>12, <1>13,
       <1>14, <1>15, <1>16, <1>17, <1>18, <1>19, <1>20 DEF ListenerStep

(* The steps of the clients.                                               *)
LEMMA TypedClients ==
    ASSUME Typed, NEW c \in Conns, ClientStep(c), UNCHANGED simVars
    PROVE  Typed'
  <1>1. UNCHANGED <<threadVars, listenerVars, ownerVars, simVars>>
    BY DEF ClientStep
  <1>2. /\ ThreadTypeOK' /\ ListenerTypeOK' /\ SimTypeOK'
        /\ ServedDescriptor' /\ PointerInUse'
    BY <1>1 DEF Typed, TypeOK, ThreadTypeOK, ListenerTypeOK, SimTypeOK,
                ServedDescriptor, PointerInUse
  <1>3. NetTypeOK'
    <2> USE DEF Typed, TypeOK, NetTypeOK
    <2>1. CASE Connect(c)
      BY <2>1 DEF Connect
    <2>2. ASSUME NEW kind \in Kinds, SendBytes(c, kind), adrift' \in [Conns -> BOOLEAN]
          PROVE  NetTypeOK'
      <3>1. [kind |-> kind, seq |-> sentItems[c] + 1] \in Item
        BY DEF Item
      <3>2. inbound' \in [Conns -> Seq(Item)]
        BY <2>2, <3>1 DEF SendBytes
      <3>3. sentItems' \in [Conns -> Nat] /\ owes' \in [Conns -> BOOLEAN]
        BY <2>2 DEF SendBytes
      <3> QED
        BY <2>2, <3>2, <3>3 DEF SendBytes
    <2>3. CASE SendRest(c)
      <3> DEFINE n == Len(inbound[c])
      <3>1. [kind |-> "bad", seq |-> sentItems[c]] \in Item
        BY DEF Item, Kinds
      <3>2. ASSUME n > 0, NEW kind \in {"frame", "bad"}
            PROVE  [inbound[c] EXCEPT ![n].kind = kind] \in Seq(Item)
        <4>1. inbound[c] \in Seq(Item) /\ n \in 1 .. Len(inbound[c])
          BY <3>2
        <4>2. inbound[c][n] \in Item
          BY <4>1, ElementOfSeq
        <4>3. [inbound[c][n] EXCEPT !.kind = kind] \in Item
          BY <4>2 DEF Item, Kinds
        <4> QED
          BY <4>1, <4>3, ExceptSeq
      <3>3. CASE n > 0
        <4>1. PICK kind \in {"frame", "bad"} :
                inbound' = [inbound EXCEPT ![c][n].kind = kind]
          BY <2>3, <3>3 DEF SendRest
        <4> DEFINE q == [inbound[c] EXCEPT ![n].kind = kind]
        <4>2. q \in Seq(Item)
          BY <3>2, <3>3
        <4>3. inbound' = [inbound EXCEPT ![c] = q]
          BY <4>1
        <4> HIDE DEF q
        <4>4. inbound' \in [Conns -> Seq(Item)]
          BY <4>2, <4>3
        <4> QED
          BY <2>3, <4>4 DEF SendRest
      <3>4. CASE n = 0
        <4>1. inbound' \in [Conns -> Seq(Item)]
          <5>1. inbound' = [inbound EXCEPT ![c] =
                                <<[kind |-> "bad", seq |-> sentItems[c]]>>]
            BY <2>3, <3>4 DEF SendRest
          <5> QED
            BY <3>1, <5>1
        <4> QED
          BY <2>3, <4>1 DEF SendRest
      <3>5. n \in Nat
        OBVIOUS
      <3> QED
        BY <3>3, <3>4, <3>5
    <2>7. ASSUME NEW kind \in Kinds, Send(c, kind)
          PROVE  NetTypeOK'
      BY <2>2, <2>7 DEF Send
    <2>8. CASE SendMisread(c)
      <3>1. "frame" \in Kinds
        BY DEF Kinds
      <3> QED
        BY <2>2, <2>8, <3>1 DEF SendMisread
    <2>4. CASE Close(c)
      BY <2>4 DEF Close
    <2>5. CASE Refuse(c)
      BY <2>5 DEF Refuse
    <2>6. CASE Reset(c)
      BY <2>6 DEF Reset
    <2> QED
      BY <2>1, <2>3, <2>4, <2>5, <2>6, <2>7, <2>8 DEF ClientStep
  <1> QED
    BY <1>2, <1>3 DEF Typed, TypeOK

(* The steps of the simulator's thread.                                    *)
LEMMA TypedSimulator ==
    ASSUME Typed, SimStep
    PROVE  Typed'
  <1> USE DEF Typed, TypeOK, ThreadTypeOK, ListenerTypeOK, NetTypeOK, SimTypeOK,
              SimSteps, Step
  <1>1. ASSUME NEW l \in Listeners, StartListener(l)
        PROVE  Typed'
    <2>1. ServedDescriptor' /\ PointerInUse'
      BY <1>1 DEF StartListener, New, ServedDescriptor, PointerInUse, ServingSteps
    <2> QED
      BY <1>1, <2>1 DEF StartListener, New, Setup, ThreadStart, Steps
  <1>2. ASSUME NEW l \in Listeners, StartWithoutThread(l)
        PROVE  Typed'
    <2>1. ServedDescriptor' /\ PointerInUse'
      BY <1>2 DEF StartWithoutThread, New, ServedDescriptor, PointerInUse
    <2> QED
      BY <1>2, <2>1 DEF StartWithoutThread, New, Setup
  <1>3. ASSUME NEW l \in Listeners, StartFails(l)
        PROVE  Typed'
    <2>1. ServedDescriptor' /\ PointerInUse'
      BY <1>3 DEF StartFails, New, ServedDescriptor, PointerInUse
    <2> QED
      BY <1>3, <2>1 DEF StartFails, New
  <1>4. CASE Expire
    BY <1>4 DEF Expire, ServedDescriptor, PointerInUse
  <1>5. CASE ExpireEmpty
    BY <1>5 DEF ExpireEmpty, vars, ServedDescriptor, PointerInUse
  <1>6. CASE PopAndSendDown
    <2> DEFINE l == p_tcp_listener
    <2>1. /\ l \in Listeners /\ queuePckRead[l] \in Seq(Message)
          /\ queuePckRead[l] # <<>>
      BY <1>6 DEF PopAndSendDown, PointerInUse
    <2>2. Head(queuePckRead[l]) \in Message /\ Tail(queuePckRead[l]) \in Seq(Message)
      BY <2>1
    <2>3. queuePckRead' \in [Listeners -> Seq(Message)]
      BY <1>6, <2>1, <2>2 DEF PopAndSendDown
    <2>4. (txsn + 1) % SNSpace \in 0 .. SNSpace - 1
      BY BoundsAssumption, Remainder
    <2>5. [uid |-> uidcnt + 1, sn |-> (txsn + 1) % SNSpace,
           msg |-> Head(queuePckRead[l])] \in SentPacket
      BY <2>2, <2>4 DEF SentPacket
    <2>6. sentDown' \in Seq(SentPacket)
      BY <1>6, <2>5 DEF PopAndSendDown
    <2>7. ServedDescriptor' /\ PointerInUse'
      BY <1>6 DEF PopAndSendDown, ServedDescriptor, PointerInUse
    <2>8. /\ UNCHANGED <<threadVars, pc, m_SocketSetUp, servSockDescr, clnSockDescr,
                        m_ReadTimeout, buffer_msg, ownerVars, netVars,
                        p_tcp_listener, obj, timer, received, blockedOn>>
          /\ sim' = "idle" /\ txsn' \in Nat /\ uidcnt' \in Nat
      BY <1>6 DEF PopAndSendDown
    <2>9. ThreadTypeOK' /\ ListenerTypeOK' /\ NetTypeOK'
      BY <2>3, <2>8
    <2> QED
      BY <2>6, <2>7, <2>8, <2>9
  <1>7. CASE Recv
    BY <1>7 DEF Recv, ServedDescriptor, PointerInUse, Parts
  <1>8. ASSUME NEW part \in Parts,
               \/ Write(part) \/ WriteWaits(part) \/ WriteGoesOn(part)
               \/ WriteElsewhere(part) \/ WriteFails(part)
        PROVE  Typed'
    <2>1. /\ UNCHANGED <<threadVars, listenerVars, ownerVars, conn, clientVars,
                        inbound, p_tcp_listener, obj, timer, txsn, uidcnt,
                        sentDown, received>>
          /\ sim = part /\ sim' \in {"idle"} \cup Parts
          /\ blockedOn' \in Conns \cup {nullptr}
      BY <1>8 DEF Write, WriteWaits, WriteGoesOn, WritePart, Writable,
                  WriteElsewhere, WriteFails, NextPart, Parts
    <2>2. ServedDescriptor' /\ PointerInUse'
      BY <2>1 DEF ServedDescriptor, PointerInUse, Parts
    <2>3. outbound' \in [Conns -> Seq({"magic", "size", "payload"})]
      <3>1. CASE Write(part)
        <4>1. clnSockDescr[p_tcp_listener] \in Conns
          BY <3>1 DEF Write, WritePart, Writable
        <4> QED
          BY <3>1, <4>1 DEF Write, WritePart, Parts
      <3>2. CASE WriteGoesOn(part)
        <4>1. blockedOn \in Conns
          BY <3>2 DEF WriteGoesOn
        <4> QED
          BY <3>2, <4>1 DEF WriteGoesOn, WritePart, Parts
      <3>3. CASE WriteWaits(part) \/ WriteElsewhere(part) \/ WriteFails(part)
        BY <3>3 DEF WriteWaits, WriteElsewhere, WriteFails
      <3> QED
        BY <1>8, <3>1, <3>2, <3>3
    <2> QED
      BY <2>1, <2>2, <2>3
  <1>9. CASE StopBegin
    <2>1. ServedDescriptor' /\ PointerInUse'
      BY <1>9 DEF StopBegin, ThreadStop, ServedDescriptor, PointerInUse
    <2> QED
      BY <1>9, <2>1 DEF StopBegin, ThreadStop
  <1>10. CASE StopJoin
    <2>1. ServedDescriptor' /\ PointerInUse'
      BY <1>10 DEF StopJoin, ThreadJoin, ServedDescriptor, PointerInUse
    <2> QED
      BY <1>10, <2>1 DEF StopJoin, ThreadJoin
  <1>11. CASE StopDelete
    <2>1. ServedDescriptor' /\ PointerInUse'
      BY <1>11 DEF StopDelete, ServedDescriptor, PointerInUse
    <2>2. NetTypeOK'
      <3>1. CASE UNCHANGED netVars
        BY <3>1
      <3>2. CASE DropBacklog
        BY <3>2 DEF DropBacklog
      <3> QED
        BY <1>11, <3>1, <3>2 DEF StopDelete
    <2>3. /\ process' \in {"up", "terminated", "crashed"}
          /\ servSockDescr' \in [Listeners -> {"0", "open", "listening"}]
          /\ obj' \in [Listeners -> {"unborn", "alive", "deleted"}]
      <3>1. process' \in {"up", "terminated", "crashed"}
        BY <1>11 DEF StopDelete
      <3>2. servSockDescr' \in [Listeners -> {"0", "open", "listening"}]
        BY <1>11 DEF StopDelete
      <3>3. obj' \in [Listeners -> {"unborn", "alive", "deleted"}]
        BY <1>11 DEF StopDelete
      <3> QED
        BY <3>1, <3>2, <3>3
    <2>4. UNCHANGED <<threadVars, pc, m_SocketSetUp, clnSockDescr, m_ReadTimeout,
                      buffer_msg, queuePckRead, pkts_push_queue, timer, txsn,
                      uidcnt, sentDown, received, blockedOn>>
      BY <1>11 DEF StopDelete
    <2>5. p_tcp_listener' = nullptr /\ sim' = "idle"
      BY <1>11 DEF StopDelete
    <2> QED
      BY <2>1, <2>2, <2>3, <2>4, <2>5
  <1> QED
    BY <1>1, <1>2, <1>3, <1>4, <1>5, <1>6, <1>7, <1>8, <1>9, <1>10, <1>11 DEF SimStep

LEMMA TypedNext == Typed /\ [Next]_vars => Typed'
  <1> SUFFICES ASSUME Typed, [Next]_vars
               PROVE  Typed'
    OBVIOUS
  <1>1. CASE SimStep
    BY <1>1, TypedSimulator
  <1>2. CASE Listening
    BY <1>2, TypeListening, PointersListening DEF Listening, Typed
  <1>3. CASE Clients
    BY <1>3, TypedClients DEF Clients
  <1>4. CASE UNCHANGED vars
    BY <1>4 DEF vars, Typed, TypeOK, ThreadTypeOK, ListenerTypeOK, NetTypeOK,
                SimTypeOK, ServedDescriptor, PointerInUse
  <1> QED
    BY <1>1, <1>2, <1>3, <1>4 DEF Next

(* Every variable keeps its type in every interleaving of the threads and  *)
(* the clients, under every fault.                                         *)
THEOREM TypeCorrect == Spec => []TypeOK
  <1>1. Typed => TypeOK
    BY DEF Typed
  <1> QED
    BY <1>1, TypedInit, TypedNext, PTL DEF Spec

--------------------------------------------------------------------------------
(* Counting what is sent down.                                             *)

LEMMA CountedInit == Init => SentPacketsCounted
  BY DEF Init, SimInit, SentPacketsCounted

LEMMA CountedNext == Typed /\ SentPacketsCounted /\ [Next]_vars => SentPacketsCounted'
  <1> SUFFICES ASSUME Typed, SentPacketsCounted, [Next]_vars
               PROVE  SentPacketsCounted'
    OBVIOUS
  <1>1. ASSUME UNCHANGED <<txsn, uidcnt, sentDown>>
        PROVE  SentPacketsCounted'
    BY <1>1 DEF SentPacketsCounted
  <1>2. CASE PopAndSendDown
    <2>1. /\ sentDown \in Seq(SentPacket) /\ PointerInUse
          /\ queuePckRead \in [Listeners -> Seq(Message)]
          /\ txsn \in Nat /\ uidcnt \in Nat
      BY DEF Typed, TypeOK, ListenerTypeOK, SimTypeOK
    <2> DEFINE e == [uid |-> uidcnt + 1, sn |-> (txsn + 1) % SNSpace,
                     msg |-> Head(queuePckRead[p_tcp_listener])]
    <2>2. e \in SentPacket
      <3>1. Head(queuePckRead[p_tcp_listener]) \in Message
        BY <1>2, <2>1 DEF PopAndSendDown, Step, PointerInUse
      <3>2. (txsn + 1) % SNSpace \in 0 .. SNSpace - 1
        BY <2>1, BoundsAssumption, Remainder
      <3> QED
        BY <2>1, <3>1, <3>2 DEF SentPacket
    <2>3. sentDown' = Append(sentDown, e) /\ txsn' = txsn + 1 /\ uidcnt' = uidcnt + 1
      BY <1>2 DEF PopAndSendDown
    <2>4. e.uid = uidcnt + 1 /\ e.sn = (txsn + 1) % SNSpace
      OBVIOUS
    <2> HIDE DEF e
    <2>5. /\ Len(sentDown') = Len(sentDown) + 1
          /\ \A i \in 1 .. Len(sentDown) : sentDown'[i] = sentDown[i]
          /\ sentDown'[Len(sentDown) + 1] = e
      BY <2>1, <2>2, <2>3, AppendProperties
    <2>6. Len(sentDown) \in Nat
      BY <2>1, LenProperties
    <2>7. /\ txsn - 1 = Len(sentDown) /\ uidcnt = Len(sentDown)
          /\ \A i \in 1 .. Len(sentDown) :
                sentDown[i].uid = i /\ sentDown[i].sn = (i + 1) % SNSpace
      BY DEF SentPacketsCounted
    <2>8. ASSUME NEW i \in 1 .. Len(sentDown')
          PROVE  sentDown'[i].uid = i /\ sentDown'[i].sn = (i + 1) % SNSpace
      <3>1. CASE i \in 1 .. Len(sentDown)
        BY <2>5, <2>7, <3>1
      <3>2. CASE i = Len(sentDown) + 1
        <4>1. txsn + 1 = i + 1
          BY <2>1, <2>6, <2>7, <3>2
        <4> QED
          BY <2>4, <2>5, <2>7, <3>2, <4>1
      <3> QED
        BY <2>5, <2>6, <3>1, <3>2
    <2>9. txsn' - 1 = Len(sentDown') /\ uidcnt' = Len(sentDown')
      BY <2>1, <2>3, <2>5, <2>6, <2>7
    <2> QED
      BY <2>8, <2>9 DEF SentPacketsCounted
  <1>3. CASE SimStep /\ ~PopAndSendDown
    BY <1>1, <1>3
    DEF SimStep, StartListener, StartWithoutThread, StartFails, Expire, ExpireEmpty,
        Recv, Write, WriteWaits, WriteGoesOn, WritePart, WriteElsewhere, WriteFails,
        StopBegin, StopJoin, StopDelete, vars
  <1>4. CASE Listening \/ Clients
    BY <1>1, <1>4 DEF Listening, Clients
  <1>5. CASE UNCHANGED vars
    BY <1>1, <1>5 DEF vars
  <1> QED
    BY <1>2, <1>3, <1>4, <1>5 DEF Next

(* The counters tell what was sent down and its numbers follow each other, *)
(* whatever the interleaving and the restarts.                             *)
THEOREM SentCounted == Spec => []SentPacketsCounted
  BY TypedInit, TypedNext, CountedInit, CountedNext, PTL DEF Spec
================================================================================
