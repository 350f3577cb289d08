------------------------------ MODULE Relay_proofs ------------------------------
(***************************************************************************)
(* Proof that AppNetModule implements MessageRelay, for any number of      *)
(* clients, listeners, restarts and messages.  The argument follows one    *)
(* client: its messages in the socket, in the buffer, in the queue and     *)
(* sent down carry consecutive numbers, and those that wait lie with the   *)
(* one listener that accepted the client.                                  *)
(***************************************************************************)
EXTENDS LifeCycle_proofs, FiniteSetTheorems

USE DEF threadVars, listenerVars, ownerVars, netVars, clientVars, simVars,
        NextPacket, CloseServer

(* What a listener has received and the timer has not sent down.           *)
Waiting(l) == queuePckRead[l] \o buffer_msg[l]

(* How many messages of a client were sent down, and how many of them the  *)
(* listener has read from the socket.                                      *)
Done(c) == Cardinality({i \in 1 .. Len(sentDown) : sentDown[i].msg.conn = c})
ReadSoFar(c) == sentItems[c] - Len(inbound[c])

(* The buffer is used between ReceivePacket and the push only.             *)
BufferInUse == \A l \in Listeners : buffer_msg[l] # <<>> => pc[l] = "deliver"

(* What waits was read by the only listener that ever accepted the client. *)
Owned ==
    \A l \in Listeners : \A i \in 1 .. Len(Waiting(l)) :
        /\ conn[Waiting(l)[i].conn] \notin {"unused", "backlog"}
        /\ \A k \in Listeners : clnSockDescr[k] = Waiting(l)[i].conn => k = l
        /\ \A k \in Listeners : \A j \in 1 .. Len(Waiting(k)) :
            Waiting(k)[j].conn = Waiting(l)[i].conn => k = l

(* What waits continues what was sent down, in order and without a gap.    *)
Numbered ==
    \A c \in Conns : \A l \in Listeners : \A i \in 1 .. Len(Waiting(l)) :
        Waiting(l)[i].conn = c =>
            /\ Waiting(l)[i].seq > Done(c)
            /\ Waiting(l)[i].seq <= sentItems[c]
            /\ \/ Waiting(l)[i].seq = Done(c) + 1
               \/ \E j \in 1 .. i - 1 :
                    Waiting(l)[j].conn = c /\ Waiting(l)[j].seq + 1 = Waiting(l)[i].seq
            /\ \A j \in 1 .. i - 1 :
                Waiting(l)[j].conn = c => Waiting(l)[j].seq < Waiting(l)[i].seq

(* What is in the socket continues up to the last message begun, and a     *)
(* client that owes the rest of a message has not spoilt it.               *)
InboundNumbered ==
    \A c \in Conns :
        /\ Len(inbound[c]) <= sentItems[c]
        /\ \A i \in 1 .. Len(inbound[c]) : inbound[c][i].seq = ReadSoFar(c) + i
        /\ owes[c] => /\ sentItems[c] > 0
                      /\ inbound[c] # <<>> =>
                            inbound[c][Len(inbound[c])].kind # "bad"

(* What the socket holds continues what was read before it, unless the     *)
(* connection is over or will be because of its next bytes.                *)
Linked ==
    \A c \in Conns : conn[c] \notin {"shut", "closed"} /\ Front(c) # "bad" =>
        /\ Done(c) <= ReadSoFar(c)
        /\ \/ Done(c) = ReadSoFar(c)
           \/ \E l \in Listeners : \E i \in 1 .. Len(Waiting(l)) :
                Waiting(l)[i].conn = c /\ Waiting(l)[i].seq = ReadSoFar(c)
        /\ \A l \in Listeners : \A i \in 1 .. Len(Waiting(l)) :
            Waiting(l)[i].conn = c => Waiting(l)[i].seq <= ReadSoFar(c)

Relays == Owned /\ Numbered /\ InboundNumbered /\ Linked

--------------------------------------------------------------------------------
(* Lemmas on the sequences                                                 *)

LEMMA WaitingType ==
    ASSUME Typed, NEW l \in Listeners
    PROVE  /\ queuePckRead[l] \in Seq(Message) /\ buffer_msg[l] \in Seq(Message)
           /\ Waiting(l) \in Seq(Message) /\ Len(Waiting(l)) \in Nat
           /\ \A i \in 1 .. Len(Waiting(l)) :
                /\ Waiting(l)[i] \in Message
                /\ Waiting(l)[i].conn \in Conns /\ Waiting(l)[i].seq \in Nat
  <1>1. queuePckRead[l] \in Seq(Message) /\ buffer_msg[l] \in Seq(Message)
    BY DEF Typed, TypeOK, ListenerTypeOK
  <1>2. Waiting(l) \in Seq(Message)
    BY <1>1, ConcatProperties DEF Waiting
  <1>3. Len(Waiting(l)) \in Nat
    BY <1>2, LenProperties
  <1>4. ASSUME NEW i \in 1 .. Len(Waiting(l))
        PROVE  /\ Waiting(l)[i] \in Message
               /\ Waiting(l)[i].conn \in Conns /\ Waiting(l)[i].seq \in Nat
    <2>1. Waiting(l)[i] \in Message
      BY <1>2, ElementOfSeq
    <2> QED
      BY <2>1 DEF Message
  <1> QED
    BY <1>1, <1>2, <1>3, <1>4

LEMMA InboundType ==
    ASSUME Typed, NEW c \in Conns
    PROVE  /\ inbound[c] \in Seq(Item) /\ Len(inbound[c]) \in Nat
           /\ sentItems[c] \in Nat /\ ReadSoFar(c) \in Int
           /\ \A i \in 1 .. Len(inbound[c]) : inbound[c][i] \in Item
  <1>1. inbound[c] \in Seq(Item) /\ sentItems[c] \in Nat
    BY DEF Typed, TypeOK, NetTypeOK
  <1>2. Len(inbound[c]) \in Nat
    BY <1>1, LenProperties
  <1>3. \A i \in 1 .. Len(inbound[c]) : inbound[c][i] \in Item
    BY <1>1, ElementOfSeq
  <1> QED
    BY <1>1, <1>2, <1>3 DEF ReadSoFar

LEMMA SomeOfMany ==
    ASSUME NEW n \in Nat, NEW T \in SUBSET (1 .. n)
    PROVE  IsFiniteSet(T) /\ Cardinality(T) \in Nat
  <1>1. IsFiniteSet(1 .. n)
    BY FS_Interval
  <1>2. IsFiniteSet(T)
    BY <1>1, FS_Subset
  <1> QED
    BY <1>2, FS_CardinalityType

LEMMA DoneNatural ==
    ASSUME Typed, NEW c \in Conns
    PROVE  Done(c) \in Nat
  <1>1. Len(sentDown) \in Nat
    BY LenProperties DEF Typed, TypeOK, SimTypeOK
  <1> QED
    BY <1>1, SomeOfMany DEF Done

(* A packet sent down counts for its client.                               *)
LEMMA DoneAppend ==
    ASSUME sentDown \in Seq(SentPacket), NEW p \in SentPacket,
           sentDown' = Append(sentDown, p), NEW c \in Conns
    PROVE  Done(c)' = IF p.msg.conn = c THEN Done(c) + 1 ELSE Done(c)
  <1> DEFINE n == Len(sentDown)
             T == {i \in 1 .. n : sentDown[i].msg.conn = c}
             U == {i \in 1 .. n + 1 : sentDown'[i].msg.conn = c}
  <1>1. /\ n \in Nat /\ Len(sentDown') = n + 1
        /\ \A i \in 1 .. n : sentDown'[i] = sentDown[i]
        /\ sentDown'[n + 1] = p
    BY AppendProperties, LenProperties
  <1>2. Done(c) = Cardinality(T) /\ Done(c)' = Cardinality(U)
    BY <1>1 DEF Done
  <1>3. IsFiniteSet(T) /\ n + 1 \notin T
    <2>1. T \in SUBSET (1 .. n) /\ n + 1 \notin 1 .. n
      BY <1>1
    <2> HIDE DEF T, n
    <2> QED
      BY <1>1, <2>1, SomeOfMany
  <1>4. CASE p.msg.conn = c
    <2>1. U = T \cup {n + 1}
      BY <1>1, <1>4
    <2> HIDE DEF T, U, n
    <2>2. Cardinality(T \cup {n + 1}) = Cardinality(T) + 1
      BY <1>3, FS_AddElement
    <2> QED
      BY <1>2, <1>4, <2>1, <2>2
  <1>5. CASE p.msg.conn # c
    <2>1. U = T
      BY <1>1, <1>5
    <2> QED
      BY <1>2, <1>5, <2>1
  <1> QED
    BY <1>4, <1>5

--------------------------------------------------------------------------------
(* The buffer is filled by ReceiveMessage and emptied by Deliver.          *)

LEMMA BufferNext == Typed /\ Life /\ BufferInUse /\ [Next]_vars => BufferInUse'
  <1> SUFFICES ASSUME Typed, Life, BufferInUse, [Next]_vars
               PROVE  BufferInUse'
    OBVIOUS
  <1> USE DEF Typed, TypeOK, ListenerTypeOK, BufferInUse
  <1>1. ASSUME UNCHANGED <<buffer_msg, pc>>
        PROVE  BufferInUse'
    BY <1>1
  <1>2. CASE SimStep
    <2>1. ASSUME NEW l \in Listeners, StartListener(l)
          PROVE  BufferInUse'
      <3>1. pc[l] = "none"
        BY <2>1 DEF StartListener, New, Life, ThreadFollowsControl, AbsentHasNothing
      <3> QED
        BY <2>1, <3>1 DEF StartListener
    <2>2. CASE \E l \in Listeners : StartWithoutThread(l) \/ StartFails(l)
      BY <1>1, <2>2 DEF StartWithoutThread, StartFails
    <2>3. CASE Expire \/ ExpireEmpty \/ PopAndSendDown
      BY <1>1, <2>3 DEF Expire, ExpireEmpty, PopAndSendDown, vars
    <2>4. CASE Recv \/ \E part \in Parts :
                          \/ Write(part) \/ WriteWaits(part) \/ WriteGoesOn(part)
                          \/ WriteElsewhere(part) \/ WriteFails(part)
      BY <1>1, <2>4 DEF Recv, Write, WriteWaits, WriteGoesOn, WritePart,
                        WriteElsewhere, WriteFails
    <2>5. CASE StopBegin \/ StopJoin \/ StopDelete
      BY <1>1, <2>5 DEF StopBegin, StopJoin, StopDelete
    <2> QED
      BY <1>2, <2>1, <2>2, <2>3, <2>4, <2>5 DEF SimStep
  <1>3. CASE Listening
    <2>1. PICK l \in Listeners : ListenerStep(l)
      BY <1>3 DEF Listening
    <2> USE DEF Goto
    <2>2. CASE Begin(l) \/ LoopTest(l) \/ Accept(l) \/ AcceptFails(l) \/ ClientTest(l)
      BY <2>2 DEF Begin, LoopTest, Accept, AcceptFails, ClientTest
    <2>3. CASE SelectReady(l) \/ SelectTimeout(l) \/ SelectFails(l)
      BY <2>3 DEF SelectReady, SelectTimeout, SelectFails
    <2>4. CASE ReceiveMessage(l)
      BY <2>4 DEF ReceiveMessage
    <2>5. CASE ReceiveNothing(l) \/ ReceiveError(l)
      BY <2>5 DEF ReceiveNothing, ReceiveError
    <2>6. CASE Deliver(l)
      BY <2>6 DEF Deliver
    <2>7. CASE Overrun(l) \/ ReadTorn(l)
      BY <2>7 DEF Overrun, ReadTorn
    <2>8. CASE CloseClient(l) \/ ZeroClient(l) \/ Leave(l) \/ Return(l)
      BY <2>8 DEF CloseClient, ZeroClient, Leave, Return
    <2> QED
      BY <2>1, <2>2, <2>3, <2>4, <2>5, <2>6, <2>7, <2>8 DEF ListenerStep
  <1>4. CASE Clients
    BY <1>1, <1>4 DEF Clients, ClientStep
  <1>5. CASE UNCHANGED vars
    BY <1>1, <1>5 DEF vars
  <1> QED
    BY <1>2, <1>3, <1>4, <1>5 DEF Next

--------------------------------------------------------------------------------
(* Steps that neither read nor send a message.                             *)

LEMMA RelaysInit == Init => BufferInUse /\ Relays
  <1> SUFFICES ASSUME Init
               PROVE  BufferInUse /\ Relays
    OBVIOUS
  <1>1. \A l \in Listeners : buffer_msg[l] = <<>> /\ queuePckRead[l] = <<>>
    BY DEF Init, ListenerInit
  <1>2. <<>> \in Seq(Message) /\ Len(<<>>) = 0
    BY EmptySeq
  <1>3. \A l \in Listeners : Len(Waiting(l)) = 0
    <2>1. (<<>> \o <<>>) = <<>>
      BY <1>2, ConcatEmptySeq
    <2> QED
      BY <1>1, <1>2, <2>1, Zenon DEF Waiting
  <1>4. \A c \in Conns : /\ inbound[c] = <<>> /\ Len(inbound[c]) = 0
                         /\ sentItems[c] = 0 /\ ~owes[c]
    BY DEF Init, NetInit
  <1>5. \A c \in Conns : Done(c) = 0
    <2>1. Len(sentDown) = 0
      BY DEF Init, SimInit
    <2>2. \A c \in Conns : {i \in 1 .. Len(sentDown) : sentDown[i].msg.conn = c} = {}
      BY <2>1
    <2> QED
      BY <2>2, FS_EmptySet DEF Done
  <1>6. Owned /\ Numbered
    BY <1>3 DEF Owned, Numbered
  <1>7. InboundNumbered
    BY <1>4 DEF InboundNumbered
  <1>8. Linked
    BY <1>3, <1>4, <1>5 DEF Linked, ReadSoFar
  <1>9. BufferInUse
    BY <1>1 DEF BufferInUse
  <1> QED
    BY <1>6, <1>7, <1>8, <1>9 DEF Relays

(* No message is sent, read or relayed: no connection comes back, a socket *)
(* is emptied only when it is given up, and a listener gets a new client   *)
(* from the backlog only.                                                  *)
Quiet ==
    /\ UNCHANGED <<queuePckRead, buffer_msg, sentDown, sentItems, owes, adrift>>
    /\ \A c \in Conns : \/ inbound'[c] = inbound[c]
                        \/ inbound'[c] = <<>> /\ conn'[c] \in {"shut", "closed"}
    /\ \A c \in Conns : conn'[c] \in {"unused", "backlog"} =>
                            conn[c] \in {"unused", "backlog"}
    /\ \A c \in Conns : conn[c] \in {"shut", "closed"} =>
                            conn'[c] \in {"shut", "closed"}
    /\ \A k \in Listeners : \A c \in Conns : clnSockDescr'[k] = c =>
            clnSockDescr[k] = c \/ conn[c] = "backlog"

LEMMA RelaysQuiet ==
    ASSUME Typed, Relays, Quiet
    PROVE  Relays'
  <1> USE DEF Quiet
  <1>1. \A l \in Listeners : Waiting(l)' = Waiting(l)
    BY DEF Waiting
  <1>2. \A c \in Conns : Done(c)' = Done(c)
    BY DEF Done
  <1>3. \A l \in Listeners : \A i \in 1 .. Len(Waiting(l)) : Waiting(l)[i].conn \in Conns
    BY WaitingType
  <1>4. Owned'
    <2> SUFFICES ASSUME NEW l \in Listeners, NEW i \in 1 .. Len(Waiting(l))
                 PROVE  /\ conn'[Waiting(l)[i].conn] \notin {"unused", "backlog"}
                        /\ \A k \in Listeners :
                            clnSockDescr'[k] = Waiting(l)[i].conn => k = l
                        /\ \A k \in Listeners : \A j \in 1 .. Len(Waiting(k)) :
                            Waiting(k)[j].conn = Waiting(l)[i].conn => k = l
      BY <1>1 DEF Owned
    <2> DEFINE c == Waiting(l)[i].conn
    <2>1. /\ conn[c] \notin {"unused", "backlog"}
          /\ \A k \in Listeners : clnSockDescr[k] = c => k = l
          /\ \A k \in Listeners : \A j \in 1 .. Len(Waiting(k)) :
                Waiting(k)[j].conn = c => k = l
      BY DEF Relays, Owned
    <2>2. c \in Conns
      BY <1>3
    <2> QED
      BY <2>1, <2>2
  <1>5. Numbered'
    BY <1>1, <1>2, <1>3 DEF Relays, Numbered
  <1>6. InboundNumbered'
    <2> SUFFICES ASSUME NEW c \in Conns
                 PROVE  /\ Len(inbound'[c]) <= sentItems[c]
                        /\ \A i \in 1 .. Len(inbound'[c]) :
                            inbound'[c][i].seq = ReadSoFar(c)' + i
                        /\ owes[c] => /\ sentItems[c] > 0
                                      /\ inbound'[c] # <<>> =>
                                            inbound'[c][Len(inbound'[c])].kind # "bad"
      BY DEF InboundNumbered
    <2>1. CASE inbound'[c] = inbound[c]
      BY <2>1 DEF Relays, InboundNumbered, ReadSoFar
    <2>2. CASE inbound'[c] = <<>>
      <3>1. Len(inbound'[c]) = 0 /\ sentItems[c] \in Nat
        BY <2>2, InboundType
      <3> QED
        BY <2>2, <3>1 DEF Relays, InboundNumbered
    <2> QED
      BY <2>1, <2>2
  <1>7. Linked'
    <2> SUFFICES ASSUME NEW c \in Conns, conn'[c] \notin {"shut", "closed"},
                        Front(c)' # "bad"
                 PROVE  /\ Done(c) <= ReadSoFar(c)'
                        /\ \/ Done(c) = ReadSoFar(c)'
                           \/ \E l \in Listeners : \E i \in 1 .. Len(Waiting(l)) :
                                /\ Waiting(l)[i].conn = c
                                /\ Waiting(l)[i].seq = ReadSoFar(c)'
                        /\ \A l \in Listeners : \A i \in 1 .. Len(Waiting(l)) :
                            Waiting(l)[i].conn = c => Waiting(l)[i].seq <= ReadSoFar(c)'
      BY <1>1, <1>2 DEF Linked
    <2>1. inbound'[c] = inbound[c] /\ conn[c] \notin {"shut", "closed"}
      OBVIOUS
    <2>2. Front(c)' = Front(c) /\ ReadSoFar(c)' = ReadSoFar(c)
      BY <2>1 DEF Front, ReadSoFar
    <2> QED
      BY <2>1, <2>2 DEF Relays, Linked
  <1> QED
    BY <1>4, <1>5, <1>6, <1>7 DEF Relays

LEMMA ListeningQuiet ==
    ASSUME Typed, Descr, NEW l \in Listeners, ListenerStep(l),
           ~ReceiveMessage(l), ~ReadTorn(l), ~Deliver(l), UNCHANGED simVars
    PROVE  Quiet
  <1> USE DEF Typed, TypeOK, ListenerTypeOK, NetTypeOK, Goto
  <1>1. UNCHANGED <<queuePckRead, buffer_msg, sentDown, sentItems, owes, adrift>>
    BY DEF ListenerStep, Begin, LoopTest, Accept, AcceptFails, ClientTest, SelectReady,
           SelectTimeout, SelectFails, ReceiveNothing, ReceiveError, Overrun, CloseClient,
           ZeroClient, Leave, DropBacklog, Return
  <1>2. ASSUME UNCHANGED <<inbound, conn>>,
               \A k \in Listeners : \A c \in Conns : clnSockDescr'[k] = c =>
                    clnSockDescr[k] = c
        PROVE  Quiet
    BY <1>1, <1>2 DEF Quiet
  <1>3. CASE \/ Begin(l) \/ LoopTest(l) \/ ClientTest(l)
             \/ SelectReady(l) \/ SelectTimeout(l) \/ SelectFails(l)
             \/ ReceiveError(l) \/ Overrun(l) \/ Return(l)
    BY <1>2, <1>3 DEF Begin, LoopTest, ClientTest, SelectReady, SelectTimeout,
                      SelectFails, ReceiveError, Overrun, Return
  <1>4. CASE Accept(l)
    <2>1. PICK c \in Conns :
            /\ conn[c] = "backlog"
            /\ conn' = [conn EXCEPT ![c] = "up"]
            /\ clnSockDescr' = [clnSockDescr EXCEPT ![l] = c]
            /\ UNCHANGED inbound
      BY <1>4 DEF Accept
    <2>2. /\ \A d \in Conns : conn'[d] \in {"unused", "backlog"} =>
                                conn[d] \in {"unused", "backlog"}
          /\ \A d \in Conns : conn[d] \in {"shut", "closed"} =>
                                conn'[d] \in {"shut", "closed"}
      BY <2>1
    <2>3. \A k \in Listeners : \A d \in Conns : clnSockDescr'[k] = d =>
                clnSockDescr[k] = d \/ conn[d] = "backlog"
      BY <2>1
    <2> QED
      BY <1>1, <2>1, <2>2, <2>3 DEF Quiet
  <1>5. CASE AcceptFails(l) \/ ZeroClient(l)
    <2>1. /\ UNCHANGED <<inbound, conn>>
          /\ \E d \in {"0", "-1"} : clnSockDescr' = [clnSockDescr EXCEPT ![l] = d]
      BY <1>5 DEF AcceptFails, ZeroClient
    <2> QED
      BY <1>2, <2>1, ConnsAssumption
  <1>6. ASSUME NEW d \in {"shut", "closed"}, NEW c \in Conns, conn[c] \in {"up", "shut"},
               conn[c] = "shut" => d = "closed",
               conn' = [conn EXCEPT ![c] = d],
               inbound' = [inbound EXCEPT ![c] = <<>>],
               UNCHANGED clnSockDescr
        PROVE  Quiet
    BY <1>1, <1>6 DEF Quiet
  <1>7. CASE ReceiveNothing(l)
    <2>1. pc[l] = "receive"
      BY <1>7 DEF ReceiveNothing
    <2>2. clnSockDescr[l] \in Conns /\ conn[clnSockDescr[l]] = "up"
      BY <2>1 DEF ServedDescriptor, ServingSteps, Descr, ClientOfControl, UpSteps
    <2> QED
      BY <1>6, <1>7, <2>2 DEF ReceiveNothing
  <1>8. CASE CloseClient(l)
    <2>1. pc[l] = "close"
      BY <1>8 DEF CloseClient
    <2>2. clnSockDescr[l] \in Conns /\ conn[clnSockDescr[l]] \in {"up", "shut"}
      BY <2>1 DEF ServedDescriptor, ServingSteps, Descr, ClientOfControl
    <2> QED
      BY <1>6, <1>8, <2>2 DEF CloseClient
  <1>9. CASE Leave(l)
    BY <1>1, <1>9 DEF Quiet, Leave, DropBacklog
  <1> QED
    BY <1>3, <1>4, <1>5, <1>7, <1>8, <1>9 DEF ListenerStep

LEMMA SimulatorQuiet ==
    ASSUME Typed, SimStep, ~PopAndSendDown
    PROVE  Quiet
  <1>1. ASSUME UNCHANGED <<queuePckRead, buffer_msg, sentDown, sentItems, owes,
                           adrift, inbound, conn, clnSockDescr>>
        PROVE  Quiet
    BY <1>1 DEF Quiet
  <1>2. CASE \E l \in Listeners :
                StartListener(l) \/ StartWithoutThread(l) \/ StartFails(l)
    BY <1>1, <1>2 DEF StartListener, StartWithoutThread, StartFails
  <1>3. CASE Expire \/ ExpireEmpty \/ Recv
    BY <1>1, <1>3 DEF Expire, ExpireEmpty, Recv, vars
  <1>4. CASE \E part \in Parts :
                \/ Write(part) \/ WriteWaits(part) \/ WriteGoesOn(part)
                \/ WriteElsewhere(part) \/ WriteFails(part)
    BY <1>1, <1>4 DEF Write, WriteWaits, WriteGoesOn, WritePart, WriteElsewhere,
                      WriteFails
  <1>5. CASE StopBegin \/ StopJoin
    BY <1>1, <1>5 DEF StopBegin, StopJoin
  <1>6. CASE StopDelete
    <2>1. UNCHANGED <<queuePckRead, buffer_msg, sentDown, clnSockDescr>>
      BY <1>6 DEF StopDelete
    <2>2. CASE UNCHANGED netVars
      BY <1>1, <2>1, <2>2
    <2>3. CASE DropBacklog
      BY <2>1, <2>3 DEF Quiet, DropBacklog
    <2> QED
      BY <1>6, <2>2, <2>3 DEF StopDelete
  <1> QED
    BY <1>2, <1>3, <1>4, <1>5, <1>6 DEF SimStep

--------------------------------------------------------------------------------
(* The clients.  A client writes at the end of its socket.                 *)

(* What a client's writing must keep: its earlier bytes, and the place     *)
(* from which the listener goes on unless the next bytes are no message.   *)
LEMMA RelaysWritten ==
    ASSUME Typed, Relays, NEW c \in Conns,
           UNCHANGED <<queuePckRead, buffer_msg, sentDown, conn, clnSockDescr>>,
           \A d \in Conns \ {c} : /\ inbound'[d] = inbound[d]
                                  /\ sentItems'[d] = sentItems[d]
                                  /\ owes'[d] = owes[d],
           sentItems'[c] \in Nat, sentItems'[c] >= sentItems[c],
           Len(inbound'[c]) <= sentItems'[c],
           \A i \in 1 .. Len(inbound'[c]) : inbound'[c][i].seq = ReadSoFar(c)' + i,
           owes'[c] => /\ sentItems'[c] > 0
                       /\ inbound'[c] # <<>> =>
                            inbound'[c][Len(inbound'[c])].kind # "bad",
           Front(c)' # "bad" => Front(c) # "bad" /\ ReadSoFar(c)' = ReadSoFar(c)
    PROVE  Relays'
  <1>1. \A l \in Listeners : Waiting(l)' = Waiting(l)
    BY DEF Waiting
  <1>2. \A d \in Conns : Done(d)' = Done(d)
    BY DEF Done
  <1>3. \A d \in Conns \ {c} : ReadSoFar(d)' = ReadSoFar(d) /\ Front(d)' = Front(d)
    BY DEF ReadSoFar, Front
  <1>4. Owned'
    BY <1>1 DEF Relays, Owned
  <1>5. Numbered'
    <2>1. ASSUME NEW d \in Conns, NEW l \in Listeners, NEW i \in 1 .. Len(Waiting(l)),
                 Waiting(l)[i].conn = d
          PROVE  Waiting(l)[i].seq <= sentItems'[d]
      <3>1. Waiting(l)[i].seq \in Nat /\ Waiting(l)[i].seq <= sentItems[d]
        BY <2>1, WaitingType DEF Relays, Numbered
      <3>2. sentItems[d] \in Nat
        BY InboundType
      <3>3. sentItems'[d] \in Nat /\ sentItems'[d] >= sentItems[d]
        BY <3>2
      <3> QED
        BY <3>1, <3>2, <3>3
    <2> QED
      BY <1>1, <1>2, <2>1 DEF Relays, Numbered
  <1>6. InboundNumbered'
    <2> SUFFICES ASSUME NEW d \in Conns
                 PROVE  /\ Len(inbound'[d]) <= sentItems'[d]
                        /\ \A i \in 1 .. Len(inbound'[d]) :
                            inbound'[d][i].seq = ReadSoFar(d)' + i
                        /\ owes'[d] => /\ sentItems'[d] > 0
                                       /\ inbound'[d] # <<>> =>
                                            inbound'[d][Len(inbound'[d])].kind # "bad"
      BY DEF InboundNumbered
    <2>1. CASE d = c
      BY <2>1
    <2>2. CASE d # c
      BY <1>3, <2>2 DEF Relays, InboundNumbered
    <2> QED
      BY <2>1, <2>2
  <1>7. Linked'
    <2> SUFFICES ASSUME NEW d \in Conns, conn[d] \notin {"shut", "closed"},
                        Front(d)' # "bad"
                 PROVE  /\ Done(d) <= ReadSoFar(d)'
                        /\ \/ Done(d) = ReadSoFar(d)'
                           \/ \E l \in Listeners : \E i \in 1 .. Len(Waiting(l)) :
                                /\ Waiting(l)[i].conn = d
                                /\ Waiting(l)[i].seq = ReadSoFar(d)'
                        /\ \A l \in Listeners : \A i \in 1 .. Len(Waiting(l)) :
                            Waiting(l)[i].conn = d => Waiting(l)[i].seq <= ReadSoFar(d)'
      BY <1>1, <1>2 DEF Linked
    <2>1. Front(d) # "bad" /\ ReadSoFar(d)' = ReadSoFar(d)
      BY <1>3
    <2> QED
      BY <2>1 DEF Relays, Linked
  <1> QED
    BY <1>4, <1>5, <1>6, <1>7 DEF Relays

LEMMA RelaysSend ==
    ASSUME Typed, Relays, NEW c \in Conns, NEW kind \in Kinds,
           SendBytes(c, kind), UNCHANGED <<listenerVars, simVars>>
    PROVE  Relays'
  <1> DEFINE n == Len(inbound[c])
             item == [kind |-> kind, seq |-> sentItems[c] + 1]
  <1>1. /\ inbound[c] \in Seq(Item) /\ n \in Nat /\ sentItems[c] \in Nat
        /\ n <= sentItems[c]
        /\ \A i \in 1 .. n : inbound[c][i].seq = ReadSoFar(c) + i
    BY InboundType DEF Relays, InboundNumbered
  <1>2. item \in Item /\ item.seq = sentItems[c] + 1 /\ item.kind = kind
    BY <1>1 DEF Item
  <1>3. /\ inbound' = [inbound EXCEPT ![c] = Append(@, item)]
        /\ sentItems' = [sentItems EXCEPT ![c] = @ + 1]
        /\ owes' = [owes EXCEPT ![c] = kind \in {"head", "torn", "short"}]
        /\ UNCHANGED <<conn, peer, outbound>>
    BY DEF SendBytes
  <1>4. /\ inbound'[c] = Append(inbound[c], item)
        /\ sentItems'[c] = sentItems[c] + 1
        /\ owes'[c] = (kind \in {"head", "torn", "short"})
        /\ \A d \in Conns \ {c} : /\ inbound'[d] = inbound[d]
                                  /\ sentItems'[d] = sentItems[d]
                                  /\ owes'[d] = owes[d]
    BY <1>3 DEF Typed, TypeOK, NetTypeOK
  <1> HIDE DEF item
  <1>5. /\ Len(inbound'[c]) = n + 1 /\ inbound'[c] # <<>>
        /\ \A i \in 1 .. n : inbound'[c][i] = inbound[c][i]
        /\ inbound'[c][n + 1] = item
    BY <1>1, <1>2, <1>4, AppendProperties
  <1>6. ReadSoFar(c)' = ReadSoFar(c)
    BY <1>1, <1>4, <1>5 DEF ReadSoFar
  <1>7. Len(inbound'[c]) <= sentItems'[c] /\ sentItems'[c] \in Nat
        /\ sentItems'[c] >= sentItems[c] /\ sentItems'[c] > 0
    BY <1>1, <1>4, <1>5
  <1>8. \A i \in 1 .. Len(inbound'[c]) : inbound'[c][i].seq = ReadSoFar(c)' + i
    <2>1. item.seq = ReadSoFar(c) + (n + 1)
      BY <1>1, <1>2 DEF ReadSoFar
    <2>2. \A i \in 1 .. n + 1 : i \in 1 .. n \/ i = n + 1
      BY <1>1
    <2> QED
      BY <1>1, <1>5, <1>6, <2>1, <2>2
  <1>9. owes'[c] => inbound'[c][Len(inbound'[c])].kind # "bad"
    BY <1>2, <1>4, <1>5
  <1>10. Front(c)' # "bad" => Front(c) # "bad"
    <2>1. CASE inbound[c] = <<>>
      BY <2>1 DEF Front
    <2>2. CASE inbound[c] # <<>>
      <3>1. 1 \in 1 .. n
        BY <1>1, <2>2, EmptySeq
      <3>2. inbound'[c][1] = inbound[c][1]
        BY <1>5, <3>1
      <3> QED
        BY <1>5, <2>2, <3>2 DEF Front
    <2> QED
      BY <2>1, <2>2
  <1> QED
    BY <1>3, <1>4, <1>6, <1>7, <1>8, <1>9, <1>10, RelaysWritten

(* What the rest of a message does to the bytes of its client.             *)
LEMMA RestSent ==
    ASSUME Typed, NEW c \in Conns, SendRest(c)
    PROVE  /\ Len(inbound[c]) > 0 =>
                \E kind \in {"frame", "bad"} :
                    inbound'[c] = [inbound[c] EXCEPT ![Len(inbound[c])].kind = kind]
           /\ Len(inbound[c]) = 0 =>
                inbound'[c] = <<[kind |-> "bad", seq |-> sentItems[c]]>>
           /\ \A d \in Conns \ {c} : inbound'[d] = inbound[d] /\ owes'[d] = owes[d]
  <1> DEFINE n == Len(inbound[c])
  <1>1. inbound \in [Conns -> Seq(Item)] /\ owes \in [Conns -> BOOLEAN] /\ n \in Nat
    BY InboundType DEF Typed, TypeOK, NetTypeOK
  <1>2. \A d \in Conns \ {c} : owes'[d] = owes[d]
    BY <1>1 DEF SendRest
  <1>3. CASE n > 0
    <2>1. PICK kind \in {"frame", "bad"} : inbound' = [inbound EXCEPT ![c][n].kind = kind]
      BY <1>3 DEF SendRest
    <2> DEFINE q == [inbound[c] EXCEPT ![n].kind = kind]
    <2>2. inbound' = [inbound EXCEPT ![c] = q]
      BY <2>1
    <2> HIDE DEF q
    <2>3. inbound'[c] = q /\ \A d \in Conns \ {c} : inbound'[d] = inbound[d]
      BY <1>1, <2>2
    <2>4. \E k \in {"frame", "bad"} : inbound'[c] = [inbound[c] EXCEPT ![n].kind = k]
      BY <2>3 DEF q
    <2>5. ~(n = 0)
      BY <1>1, <1>3
    <2> QED
      BY <1>2, <2>3, <2>4, <2>5, Zenon
  <1>4. CASE n = 0
    <2>1. inbound' = [inbound EXCEPT ![c] = <<[kind |-> "bad", seq |-> sentItems[c]]>>]
      BY <1>4 DEF SendRest
    <2> QED
      BY <1>1, <1>2, <1>4, <2>1
  <1> QED
    BY <1>1, <1>3, <1>4

LEMMA RelaysSendRest ==
    ASSUME Typed, Relays, NEW c \in Conns, SendRest(c),
           UNCHANGED <<listenerVars, simVars>>
    PROVE  Relays'
  <1> DEFINE n == Len(inbound[c])
  <1>1. /\ inbound[c] \in Seq(Item) /\ n \in Nat /\ sentItems[c] \in Nat
        /\ n <= sentItems[c]
        /\ \A i \in 1 .. n : inbound[c][i].seq = ReadSoFar(c) + i
    BY InboundType DEF Relays, InboundNumbered
  <1>2. sentItems[c] > 0 /\ (n > 0 => inbound[c][n].kind # "bad")
    <2>1. owes[c]
      BY DEF SendRest
    <2>2. n > 0 => inbound[c] # <<>>
      BY <1>1
    <2> QED
      BY <2>1, <2>2 DEF Relays, InboundNumbered
  <1>3. /\ UNCHANGED <<conn, peer, outbound, sentItems>>
        /\ ~owes'[c]
        /\ \A d \in Conns \ {c} : inbound'[d] = inbound[d] /\ owes'[d] = owes[d]
    BY DEF SendRest, Typed, TypeOK, NetTypeOK
  <1>6. /\ n > 0 => \E kind \in {"frame", "bad"} :
                        inbound'[c] = [inbound[c] EXCEPT ![n].kind = kind]
        /\ n = 0 => inbound'[c] = <<[kind |-> "bad", seq |-> sentItems[c]]>>
    BY RestSent
  <1>4. CASE n > 0
    <2>1. n \in 1 .. n /\ 1 \in 1 .. n
      BY <1>1, <1>4
    <2>2. PICK kind \in {"frame", "bad"} :
            inbound'[c] = [inbound[c] EXCEPT ![n] = [inbound[c][n] EXCEPT !.kind = kind]]
      BY <1>4, <1>6
    <2>3. inbound[c][n] \in Item
      BY <1>1, <2>1, ElementOfSeq
    <2> DEFINE item == [inbound[c][n] EXCEPT !.kind = kind]
    <2>4. item \in Item /\ item.seq = inbound[c][n].seq
      BY <2>3 DEF Item, Kinds
    <2> HIDE DEF item
    <2>5. inbound'[c] = [inbound[c] EXCEPT ![n] = item]
      BY <2>2 DEF item
    <2>6. /\ Len(inbound'[c]) = n /\ inbound'[c][n] = item
          /\ \A i \in 1 .. n : i # n => inbound'[c][i] = inbound[c][i]
      BY <1>1, <2>1, <2>4, <2>5, ExceptSeq
    <2>7. ReadSoFar(c)' = ReadSoFar(c)
      BY <1>3, <2>6 DEF ReadSoFar
    <2>8. \A i \in 1 .. Len(inbound'[c]) : inbound'[c][i].seq = ReadSoFar(c)' + i
      BY <1>1, <2>4, <2>6, <2>7
    <2>9. Front(c)' # "bad" => Front(c) # "bad"
      <3>1. inbound[c] # <<>> /\ inbound'[c] # <<>> /\ 1 \in 1 .. Len(inbound[c])
        <4>1. Len(<<>>) = 0
          OBVIOUS
        <4> QED
          BY <1>4, <2>1, <2>6, <4>1
      <3>2. CASE n = 1
        BY <1>2, <1>4, <3>1, <3>2 DEF Front
      <3>3. CASE n # 1
        <4>1. inbound'[c][1] = inbound[c][1]
          BY <2>1, <2>6, <3>3
        <4> QED
          BY <3>1, <4>1 DEF Front
      <3> QED
        BY <3>2, <3>3
    <2>10. /\ Len(inbound'[c]) <= sentItems'[c]
           /\ sentItems'[c] \in Nat /\ sentItems'[c] >= sentItems[c]
      BY <1>1, <1>3, <2>6
    <2>11. \A d \in Conns \ {c} : /\ inbound'[d] = inbound[d]
                                  /\ sentItems'[d] = sentItems[d]
                                  /\ owes'[d] = owes[d]
      BY <1>3
    <2>12. UNCHANGED <<queuePckRead, buffer_msg, sentDown, conn, clnSockDescr>>
      BY <1>3
    <2> QED
      BY <1>3, <2>7, <2>8, <2>9, <2>10, <2>11, <2>12, RelaysWritten
  <1>5. CASE n = 0
    <2> DEFINE item == [kind |-> "bad", seq |-> sentItems[c]]
    <2>1. inbound'[c] = <<item>> /\ item.kind = "bad" /\ item.seq = sentItems[c]
      BY <1>5, <1>6
    <2> HIDE DEF item
    <2>2. Len(inbound'[c]) = 1 /\ inbound'[c][1] = item /\ inbound'[c] # <<>>
      BY <2>1
    <2>3. Front(c)' = "bad"
      BY <2>1, <2>2 DEF Front
    <2>4. \A i \in 1 .. Len(inbound'[c]) : inbound'[c][i].seq = ReadSoFar(c)' + i
      BY <1>1, <1>3, <2>1, <2>2 DEF ReadSoFar
    <2>5. Len(inbound'[c]) <= sentItems'[c] /\ sentItems'[c] >= sentItems[c]
      BY <1>1, <1>2, <1>3, <2>2
    <2> QED
      BY <1>1, <1>3, <2>3, <2>4, <2>5, RelaysWritten
  <1> QED
    BY <1>1, <1>4, <1>5

(* A read that returns part of a field leaves the message in front, and it *)
(* is not refused yet.                                                     *)
LEMMA TornRead ==
    ASSUME Typed, NEW l \in Listeners, ReadTorn(l), NEW c \in Conns,
           c = clnSockDescr[l]
    PROVE  /\ inbound[c] # <<>> /\ inbound[c][1].kind = "torn" /\ Front(c) = "torn"
           /\ Len(inbound[c]) \in Nat /\ Len(inbound[c]) > 0
           /\ Len(inbound'[c]) = Len(inbound[c])
           /\ inbound'[c][1].kind = "head" /\ inbound'[c][1].seq = inbound[c][1].seq
           /\ \A i \in 1 .. Len(inbound[c]) : i # 1 => inbound'[c][i] = inbound[c][i]
           /\ \A d \in Conns \ {c} : inbound'[d] = inbound[d] /\ adrift'[d] = adrift[d]
           /\ adrift'[c]
           /\ UNCHANGED <<queuePckRead, buffer_msg, conn, clnSockDescr, sentItems, owes>>
  <1> DEFINE n == Len(inbound[c])
             item == [inbound[c][1] EXCEPT !.kind = "head"]
  <1>1. inbound[c] \in Seq(Item) /\ n \in Nat
    BY InboundType
  <1>2. inbound[c] # <<>> /\ Head(inbound[c]).kind = "torn" /\ Front(c) = "torn"
    BY DEF ReadTorn, Front
  <1>3. 1 \in 1 .. n /\ n > 0
    BY <1>1, <1>2, EmptySeq
  <1>4. inbound[c][1] \in Item /\ Head(inbound[c]) = inbound[c][1]
    BY <1>1, <1>2, <1>3, ElementOfSeq, HeadTailProperties
  <1>5. item \in Item /\ item.seq = inbound[c][1].seq /\ item.kind = "head"
    BY <1>4 DEF Item, Kinds
  <1>6. inbound' = [inbound EXCEPT ![c] = [inbound[c] EXCEPT ![1] = item]]
    BY DEF ReadTorn
  <1> HIDE DEF item
  <1>7. /\ inbound'[c] = [inbound[c] EXCEPT ![1] = item]
        /\ \A d \in Conns \ {c} : inbound'[d] = inbound[d]
    BY <1>6 DEF Typed, TypeOK, NetTypeOK
  <1>8. /\ Len(inbound'[c]) = n /\ inbound'[c][1] = item
        /\ \A i \in 1 .. n : i # 1 => inbound'[c][i] = inbound[c][i]
    BY <1>1, <1>3, <1>5, <1>7, ExceptSeq
  <1>9. adrift'[c] /\ \A d \in Conns \ {c} : adrift'[d] = adrift[d]
    BY DEF ReadTorn, Typed, TypeOK, NetTypeOK
  <1>10. UNCHANGED <<queuePckRead, buffer_msg, conn, clnSockDescr, sentItems, owes>>
    BY DEF ReadTorn
  <1> QED
    BY <1>1, <1>2, <1>3, <1>4, <1>5, <1>7, <1>8, <1>9, <1>10

LEMMA TornDescriptor ==
    ASSUME Typed, NEW l \in Listeners, ReadTorn(l)
    PROVE  clnSockDescr[l] \in Conns
  BY DEF ReadTorn, Typed, ServedDescriptor, ServingSteps

LEMMA RelaysReadTorn ==
    ASSUME Typed, Relays, NEW l \in Listeners, ReadTorn(l), UNCHANGED simVars,
           NEW c \in Conns, c = clnSockDescr[l]
    PROVE  Relays'
  <1> DEFINE n == Len(inbound[c])
  <1>1. /\ inbound[c] # <<>> /\ inbound[c][1].kind = "torn" /\ Front(c) = "torn"
        /\ n \in Nat /\ n > 0 /\ Len(inbound'[c]) = n
        /\ inbound'[c][1].kind = "head" /\ inbound'[c][1].seq = inbound[c][1].seq
        /\ \A i \in 1 .. n : i # 1 => inbound'[c][i] = inbound[c][i]
        /\ \A d \in Conns \ {c} : inbound'[d] = inbound[d]
        /\ UNCHANGED <<queuePckRead, buffer_msg, conn, clnSockDescr, sentItems, owes>>
    BY TornRead
  <1>2. /\ sentItems[c] \in Nat /\ n <= sentItems[c]
        /\ \A i \in 1 .. n : inbound[c][i].seq = ReadSoFar(c) + i
        /\ owes[c] => /\ sentItems[c] > 0
                      /\ inbound[c] # <<>> => inbound[c][n].kind # "bad"
    BY InboundType DEF Relays, InboundNumbered
  <1>3. ReadSoFar(c)' = ReadSoFar(c)
    <2>1. Len(inbound'[c]) = Len(inbound[c]) /\ sentItems'[c] = sentItems[c]
      BY <1>1
    <2> QED
      BY <2>1 DEF ReadSoFar
  <1>4. \A i \in 1 .. Len(inbound'[c]) : inbound'[c][i].seq = ReadSoFar(c)' + i
    BY <1>1, <1>2, <1>3
  <1>5. n \in 1 .. n /\ (n = 1 \/ n # 1)
    BY <1>1
  <1>6. inbound'[c][n].kind = "head" \/ inbound'[c][n] = inbound[c][n]
    BY <1>1, <1>5
  <1>7. owes'[c] => /\ sentItems'[c] > 0
                    /\ inbound'[c] # <<>> =>
                            inbound'[c][Len(inbound'[c])].kind # "bad"
    BY <1>1, <1>2, <1>6
  <1>8. Front(c) # "bad"
    BY <1>1
  <1>9. UNCHANGED sentDown
    OBVIOUS
  <1>10. sentItems'[c] \in Nat /\ sentItems'[c] >= sentItems[c]
         /\ Len(inbound'[c]) <= sentItems'[c]
    BY <1>1, <1>2
  <1>11. \A d \in Conns \ {c} : /\ inbound'[d] = inbound[d]
                                 /\ sentItems'[d] = sentItems[d]
                                 /\ owes'[d] = owes[d]
    BY <1>1
  <1> QED
    BY <1>1, <1>3, <1>4, <1>7, <1>8, <1>9, <1>10, <1>11, RelaysWritten

LEMMA ClientsQuiet ==
    ASSUME Typed, NEW c \in Conns, Connect(c) \/ Close(c) \/ Refuse(c) \/ Reset(c),
           UNCHANGED <<listenerVars, simVars>>
    PROVE  Quiet
  <1>1. CASE Connect(c)
    <2>1. /\ conn[c] = "unused" /\ conn' = [conn EXCEPT ![c] = "backlog"]
          /\ UNCHANGED <<inbound, sentItems, owes, adrift>>
      BY <1>1 DEF Connect
    <2>2. /\ \A d \in Conns : conn'[d] \in {"unused", "backlog"} =>
                                conn[d] \in {"unused", "backlog"}
          /\ \A d \in Conns : conn[d] \in {"shut", "closed"} =>
                                conn'[d] \in {"shut", "closed"}
      BY <2>1 DEF Typed, TypeOK, NetTypeOK
    <2> QED
      BY <2>1, <2>2 DEF Quiet
  <1>2. CASE Close(c) \/ Refuse(c) \/ Reset(c)
    BY <1>2 DEF Close, Refuse, Reset, Quiet
  <1> QED
    BY <1>1, <1>2

LEMMA RelaysClients ==
    ASSUME Typed, Relays, Clients
    PROVE  Relays'
  <1>1. PICK c \in Conns : ClientStep(c)
    BY DEF Clients
  <1>2. UNCHANGED <<listenerVars, simVars>>
    BY <1>1 DEF Clients, ClientStep
  <1>3. CASE \E kind \in Kinds : Send(c, kind)
    BY <1>2, <1>3, RelaysSend DEF Send
  <1>6. CASE SendMisread(c)
    <2>1. "frame" \in Kinds
      BY DEF Kinds
    <2> QED
      BY <1>2, <1>6, <2>1, RelaysSend DEF SendMisread
  <1>4. CASE SendRest(c)
    BY <1>2, <1>4, RelaysSendRest
  <1>5. CASE Connect(c) \/ Close(c) \/ Refuse(c) \/ Reset(c)
    BY <1>2, <1>5, ClientsQuiet, RelaysQuiet
  <1> QED
    BY <1>1, <1>3, <1>4, <1>5, <1>6 DEF ClientStep

--------------------------------------------------------------------------------
(* The listener reads a message: what waits grows by the next one.         *)

LEMMA ReceivedMessage ==
    ASSUME Typed, Descr, BufferInUse, Relays, NEW l \in Listeners, ReceiveMessage(l),
           UNCHANGED simVars, NEW c \in Conns, c = clnSockDescr[l]
    PROVE  /\ conn[c] = "up" /\ Front(c) # "bad" /\ inbound[c] # <<>>
           /\ Head(inbound[c]).seq = ReadSoFar(c) + 1
           /\ Len(inbound[c]) \in Nat /\ Len(inbound[c]) > 0
           /\ inbound'[c] = Tail(inbound[c]) /\ Len(inbound'[c]) = Len(inbound[c]) - 1
           /\ \A i \in 1 .. Len(inbound'[c]) : inbound'[c][i] = inbound[c][i + 1]
           /\ ReadSoFar(c)' = ReadSoFar(c) + 1
           /\ \A d \in Conns \ {c} : inbound'[d] = inbound[d]
           /\ \E m \in Message :
                /\ m.conn = c /\ m.seq = ReadSoFar(c) + 1
                /\ m.whole \/ inbound[c][1].kind = "short"
                /\ Waiting(l)' = Append(Waiting(l), m)
           /\ \A k \in Listeners \ {l} : Waiting(k)' = Waiting(k)
           /\ UNCHANGED <<conn, clnSockDescr, sentDown, sentItems, owes, adrift>>
  <1> USE DEF Typed, TypeOK, ListenerTypeOK, NetTypeOK
  <1>1. pc[l] = "receive" /\ Front(c) \in {"frame", "short"}
    BY DEF ReceiveMessage, Goto
  <1>2. conn[c] = "up"
    BY <1>1 DEF Descr, ClientOfControl, UpSteps
  <1>3. inbound[c] # <<>> /\ Front(c) # "bad"
    BY <1>1 DEF Front
  <1>4. inbound[c] \in Seq(Item) /\ Len(inbound[c]) \in Nat /\ sentItems[c] \in Nat
    BY InboundType
  <1>5. /\ inbound'[c] = Tail(inbound[c])
        /\ \A d \in Conns \ {c} : inbound'[d] = inbound[d]
        /\ UNCHANGED <<conn, clnSockDescr, sentDown, sentItems, owes, adrift,
                       queuePckRead>>
    <2>1. /\ inbound' = [inbound EXCEPT ![c] = Tail(@)]
          /\ UNCHANGED <<conn, clnSockDescr, sentItems, owes, adrift, queuePckRead>>
      BY DEF ReceiveMessage
    <2>2. UNCHANGED sentDown
      OBVIOUS
    <2> QED
      BY <2>1, <2>2
  <1>6. /\ Len(inbound[c]) > 0 /\ Len(inbound'[c]) = Len(inbound[c]) - 1
        /\ \A i \in 1 .. Len(inbound'[c]) : inbound'[c][i] = inbound[c][i + 1]
    BY <1>3, <1>4, <1>5, HeadTailProperties, EmptySeq
  <1>7. Head(inbound[c]) = inbound[c][1] /\ Head(inbound[c]) \in Item
    BY <1>3, <1>4, HeadTailProperties
  <1>8. Head(inbound[c]).seq = ReadSoFar(c) + 1 /\ ReadSoFar(c) + 1 \in Nat
    <2>1. 1 \in 1 .. Len(inbound[c])
      BY <1>4, <1>6
    <2>2. Head(inbound[c]).seq = ReadSoFar(c) + 1
      BY <1>7, <2>1 DEF Relays, InboundNumbered
    <2> QED
      BY <1>7, <2>2 DEF Item
  <1>9. ReadSoFar(c)' = ReadSoFar(c) + 1
    BY <1>4, <1>5, <1>6 DEF ReadSoFar
  <1> DEFINE m == [conn |-> c, seq |-> Head(inbound[c]).seq, whole |-> Front(c) = "frame"]
  <1>10. m \in Message /\ m.conn = c /\ m.seq = ReadSoFar(c) + 1
    BY <1>8 DEF Message
  <1>16. m.whole \/ inbound[c][1].kind = "short"
    BY <1>1, <1>3, <1>7 DEF Front
  <1>11. buffer_msg[l] = <<>>
    BY <1>1 DEF BufferInUse
  <1>12. /\ buffer_msg'[l] = <<m>>
         /\ \A k \in Listeners \ {l} : buffer_msg'[k] = buffer_msg[k]
    BY DEF ReceiveMessage
  <1> HIDE DEF m
  <1>13. Waiting(l) = queuePckRead[l] /\ queuePckRead[l] \in Seq(Message)
    BY <1>11, WaitingType, ConcatEmptySeq DEF Waiting
  <1>14. Waiting(l)' = Append(Waiting(l), m)
    <2>1. Waiting(l)' = queuePckRead[l] \o <<m>>
      BY <1>5, <1>12 DEF Waiting
    <2> QED
      BY <1>10, <1>13, <2>1, AppendIsConcat
  <1>15. \A k \in Listeners \ {l} : Waiting(k)' = Waiting(k)
    BY <1>5, <1>12 DEF Waiting
  <1> QED
    BY <1>2, <1>3, <1>4, <1>5, <1>6, <1>8, <1>9, <1>10, <1>14, <1>15, <1>16

LEMMA RelaysReceive ==
    ASSUME Typed, Descr, BufferInUse, Relays, NEW l \in Listeners, ReceiveMessage(l),
           UNCHANGED simVars, NEW c \in Conns, c = clnSockDescr[l]
    PROVE  Relays'
  <1> DEFINE g == ReadSoFar(c)
             n == Len(Waiting(l))
  <1>1. c \in Conns
    OBVIOUS
  <1>2. /\ conn[c] = "up" /\ Front(c) # "bad" /\ inbound[c] # <<>>
        /\ Len(inbound[c]) \in Nat /\ Len(inbound[c]) > 0
        /\ inbound'[c] = Tail(inbound[c]) /\ Len(inbound'[c]) = Len(inbound[c]) - 1
        /\ \A i \in 1 .. Len(inbound'[c]) : inbound'[c][i] = inbound[c][i + 1]
        /\ ReadSoFar(c)' = g + 1
        /\ \A d \in Conns \ {c} : inbound'[d] = inbound[d]
        /\ \A k \in Listeners \ {l} : Waiting(k)' = Waiting(k)
        /\ UNCHANGED <<conn, clnSockDescr, sentDown, sentItems, owes>>
    BY <1>1, ReceivedMessage
  <1>3. PICK m \in Message : /\ m.conn = c /\ m.seq = g + 1
                             /\ Waiting(l)' = Append(Waiting(l), m)
    BY <1>1, ReceivedMessage
  <1>4. /\ n \in Nat /\ Len(Waiting(l)') = n + 1
        /\ \A i \in 1 .. n : Waiting(l)'[i] = Waiting(l)[i]
        /\ Waiting(l)'[n + 1] = m
    BY <1>3, WaitingType, AppendProperties
  <1>5. \A d \in Conns : Done(d)' = Done(d)
    BY <1>2 DEF Done
  <1>6. /\ Done(c) <= g /\ g \in Int /\ Done(c) \in Nat
        /\ \/ Done(c) = g
           \/ \E k \in Listeners : \E i \in 1 .. Len(Waiting(k)) :
                Waiting(k)[i].conn = c /\ Waiting(k)[i].seq = g
        /\ \A k \in Listeners : \A i \in 1 .. Len(Waiting(k)) :
            Waiting(k)[i].conn = c => Waiting(k)[i].seq <= g
    BY <1>1, <1>2, DoneNatural, InboundType DEF Relays, Linked
  (* The client's messages wait with this listener.                        *)
  <1>7. \A k \in Listeners : \A i \in 1 .. Len(Waiting(k)) :
            Waiting(k)[i].conn = c => k = l
    BY <1>1 DEF Relays, Owned
  (* A waiting message is an earlier one or the new one.                   *)
  <1>8. ASSUME NEW k \in Listeners, NEW i \in 1 .. Len(Waiting(k)')
        PROVE  \/ i \in 1 .. Len(Waiting(k)) /\ Waiting(k)'[i] = Waiting(k)[i]
               \/ k = l /\ i = n + 1 /\ Waiting(k)'[i] = m
    <2>1. CASE k = l
      BY <1>4, <2>1
    <2>2. CASE k # l
      BY <1>2, <2>2
    <2> QED
      BY <2>1, <2>2
  <1>9. ASSUME NEW k \in Listeners, NEW i \in 1 .. Len(Waiting(k))
        PROVE  i \in 1 .. Len(Waiting(k)') /\ Waiting(k)'[i] = Waiting(k)[i]
    <2>1. CASE k = l
      BY <1>4, <2>1
    <2>2. CASE k # l
      BY <1>2, <2>2
    <2> QED
      BY <2>1, <2>2
  <1>10. Owned'
    <2> SUFFICES ASSUME NEW k \in Listeners, NEW i \in 1 .. Len(Waiting(k)')
                 PROVE  /\ conn[Waiting(k)'[i].conn] \notin {"unused", "backlog"}
                        /\ \A h \in Listeners :
                            clnSockDescr[h] = Waiting(k)'[i].conn => h = k
                        /\ \A h \in Listeners : \A j \in 1 .. Len(Waiting(h)') :
                            Waiting(h)'[j].conn = Waiting(k)'[i].conn => h = k
      BY <1>2 DEF Owned
    <2>1. CASE i \in 1 .. Len(Waiting(k)) /\ Waiting(k)'[i] = Waiting(k)[i]
      <3>1. /\ conn[Waiting(k)[i].conn] \notin {"unused", "backlog"}
            /\ \A h \in Listeners : clnSockDescr[h] = Waiting(k)[i].conn => h = k
            /\ \A h \in Listeners : \A j \in 1 .. Len(Waiting(h)) :
                Waiting(h)[j].conn = Waiting(k)[i].conn => h = k
        BY <2>1 DEF Relays, Owned
      <3>2. ASSUME NEW h \in Listeners, NEW j \in 1 .. Len(Waiting(h)'),
                   Waiting(h)'[j].conn = Waiting(k)[i].conn
            PROVE  h = k
        BY <1>3, <1>7, <1>8, <2>1, <3>1, <3>2
      <3> QED
        BY <2>1, <3>1, <3>2
    <2>2. CASE k = l /\ i = n + 1 /\ Waiting(k)'[i] = m
      <3>1. \A h \in Listeners : clnSockDescr[h] = c => h = l
        BY <1>1 DEF Descr, OwnClient
      <3>2. \A h \in Listeners : \A j \in 1 .. Len(Waiting(h)') :
                Waiting(h)'[j].conn = c => h = l
        BY <1>7, <1>8
      <3> QED
        BY <1>2, <1>3, <2>2, <3>1, <3>2
    <2> QED
      BY <1>8, <2>1, <2>2
  <1>11. Numbered'
    <2> SUFFICES ASSUME NEW d \in Conns,
                        NEW k \in Listeners, NEW i \in 1 .. Len(Waiting(k)'),
                        Waiting(k)'[i].conn = d
                 PROVE  /\ Waiting(k)'[i].seq > Done(d)
                        /\ Waiting(k)'[i].seq <= sentItems[d]
                        /\ \/ Waiting(k)'[i].seq = Done(d) + 1
                           \/ \E j \in 1 .. i - 1 :
                                /\ Waiting(k)'[j].conn = d
                                /\ Waiting(k)'[j].seq + 1 = Waiting(k)'[i].seq
                        /\ \A j \in 1 .. i - 1 :
                            Waiting(k)'[j].conn = d =>
                                Waiting(k)'[j].seq < Waiting(k)'[i].seq
      BY <1>2, <1>5 DEF Numbered
    <2>1. CASE i \in 1 .. Len(Waiting(k)) /\ Waiting(k)'[i] = Waiting(k)[i]
      <3>1. \A j \in 1 .. i - 1 : /\ j \in 1 .. Len(Waiting(k))
                                  /\ Waiting(k)'[j] = Waiting(k)[j]
        <4>1. \A j \in 1 .. i - 1 : j \in 1 .. Len(Waiting(k))
          BY <2>1, WaitingType
        <4> QED
          BY <1>9, <4>1
      <3> QED
        BY <2>1, <3>1 DEF Relays, Numbered
    <2>2. CASE k = l /\ i = n + 1 /\ Waiting(k)'[i] = m
      <3>1. \A j \in 1 .. i - 1 : j \in 1 .. n /\ Waiting(l)'[j] = Waiting(l)[j]
        BY <1>4, <2>2
      <3>2. m.seq > Done(c)
        BY <1>1, <1>3, <1>6
      <3>3. m.seq <= sentItems[c]
        BY <1>1, <1>2, <1>3, InboundType DEF ReadSoFar
      <3>4. \/ m.seq = Done(c) + 1
            \/ \E j \in 1 .. i - 1 :
                Waiting(l)'[j].conn = c /\ Waiting(l)'[j].seq + 1 = m.seq
        <4>1. CASE Done(c) = g
          BY <1>3, <4>1
        <4>2. ASSUME NEW k1 \in Listeners, NEW j \in 1 .. Len(Waiting(k1)),
                     Waiting(k1)[j].conn = c /\ Waiting(k1)[j].seq = g
              PROVE  \E j1 \in 1 .. i - 1 :
                        Waiting(l)'[j1].conn = c /\ Waiting(l)'[j1].seq + 1 = m.seq
          <5>1. k1 = l
            BY <1>7, <4>2
          <5>2. j \in 1 .. i - 1
            BY <1>4, <2>2, <5>1
          <5> QED
            BY <1>3, <3>1, <4>2, <5>1, <5>2
        <4> QED
          BY <1>6, <4>1, <4>2
      <3>5. \A j \in 1 .. i - 1 : Waiting(l)'[j].conn = c => Waiting(l)'[j].seq < m.seq
        <4> SUFFICES ASSUME NEW j \in 1 .. n, Waiting(l)[j].conn = c
                     PROVE  Waiting(l)[j].seq < m.seq
          BY <3>1
        <4>1. Waiting(l)[j].seq <= g /\ Waiting(l)[j].seq \in Nat
          BY <1>6, WaitingType
        <4> QED
          BY <1>3, <1>6, <4>1
      <3> QED
        BY <1>3, <2>2, <3>2, <3>3, <3>4, <3>5
    <2> QED
      BY <1>8, <2>1, <2>2
  <1>12. InboundNumbered'
    <2> SUFFICES ASSUME NEW d \in Conns
                 PROVE  /\ Len(inbound'[d]) <= sentItems[d]
                        /\ \A i \in 1 .. Len(inbound'[d]) :
                            inbound'[d][i].seq = ReadSoFar(d)' + i
                        /\ owes[d] => /\ sentItems[d] > 0
                                      /\ inbound'[d] # <<>> =>
                                            inbound'[d][Len(inbound'[d])].kind # "bad"
      BY <1>2 DEF InboundNumbered
    <2>1. CASE d # c
      BY <1>2, <2>1 DEF Relays, InboundNumbered, ReadSoFar
    <2>2. CASE d = c
      <3> DEFINE h == Len(inbound[c])
      <3>0. h \in Nat /\ h > 0 /\ Len(inbound'[c]) = h - 1
        BY <1>2
      <3>1. /\ h <= sentItems[c] /\ sentItems[c] \in Nat
            /\ \A i \in 1 .. h : inbound[c][i].seq = g + i
            /\ owes[c] => sentItems[c] > 0 /\ inbound[c][h].kind # "bad"
        BY <1>1, <1>2, InboundType DEF Relays, InboundNumbered
      <3>2. \A i \in 1 .. h - 1 : i + 1 \in 1 .. h /\ inbound'[c][i] = inbound[c][i + 1]
        BY <1>2
      <3> HIDE DEF h
      <3>3. \A i \in 1 .. Len(inbound'[c]) : inbound'[c][i].seq = ReadSoFar(c)' + i
        <4> SUFFICES ASSUME NEW i \in 1 .. h - 1
                     PROVE  inbound'[c][i].seq = ReadSoFar(c)' + i
          BY <3>0
        <4>1. inbound'[c][i].seq = g + (i + 1)
          BY <3>1, <3>2
        <4>2. ReadSoFar(c)' = g + 1 /\ g \in Int /\ i \in Int
          BY <1>2, <1>6
        <4> HIDE DEF g
        <4> QED
          BY <4>1, <4>2
      <3>4. inbound'[c] # <<>> => inbound'[c][Len(inbound'[c])] = inbound[c][h]
        <4>1. inbound'[c] # <<>> => Len(inbound'[c]) # 0
          <5>1. inbound'[c] \in Seq(Item)
            BY <1>1, <1>2, InboundType, HeadTailProperties
          <5> QED
            BY <5>1, EmptySeq
        <4>2. h - 1 # 0 => h - 1 \in 1 .. h - 1 /\ (h - 1) + 1 = h
          BY <3>0
        <4> QED
          BY <3>0, <3>2, <4>1, <4>2
      <3>5. h - 1 <= sentItems[c]
        BY <3>0, <3>1
      <3>6. owes[c] => /\ sentItems[c] > 0
                       /\ inbound'[c] # <<>> =>
                            inbound'[c][Len(inbound'[c])].kind # "bad"
        BY <3>1, <3>4
      <3>7. Len(inbound'[c]) <= sentItems[c]
        BY <3>0, <3>5
      <3> QED
        BY <2>2, <3>3, <3>6, <3>7
    <2> QED
      BY <2>1, <2>2
  <1>13. Linked'
    <2> SUFFICES ASSUME NEW d \in Conns, conn[d] \notin {"shut", "closed"},
                        Front(d)' # "bad"
                 PROVE  /\ Done(d) <= ReadSoFar(d)'
                        /\ \/ Done(d) = ReadSoFar(d)'
                           \/ \E k \in Listeners : \E i \in 1 .. Len(Waiting(k)') :
                                /\ Waiting(k)'[i].conn = d
                                /\ Waiting(k)'[i].seq = ReadSoFar(d)'
                        /\ \A k \in Listeners : \A i \in 1 .. Len(Waiting(k)') :
                            Waiting(k)'[i].conn = d => Waiting(k)'[i].seq <= ReadSoFar(d)'
      BY <1>2, <1>5 DEF Linked
    <2>1. CASE d # c
      <3>1. Front(d) # "bad" /\ ReadSoFar(d)' = ReadSoFar(d)
        BY <1>2, <2>1 DEF Front, ReadSoFar
      <3>2. /\ Done(d) <= ReadSoFar(d)
            /\ \/ Done(d) = ReadSoFar(d)
               \/ \E k \in Listeners : \E i \in 1 .. Len(Waiting(k)) :
                    Waiting(k)[i].conn = d /\ Waiting(k)[i].seq = ReadSoFar(d)
            /\ \A k \in Listeners : \A i \in 1 .. Len(Waiting(k)) :
                Waiting(k)[i].conn = d => Waiting(k)[i].seq <= ReadSoFar(d)
        BY <3>1 DEF Relays, Linked
      <3>3. \/ Done(d) = ReadSoFar(d)
            \/ \E k \in Listeners : \E i \in 1 .. Len(Waiting(k)') :
                Waiting(k)'[i].conn = d /\ Waiting(k)'[i].seq = ReadSoFar(d)
        BY <1>9, <3>2
      <3>4. \A k \in Listeners : \A i \in 1 .. Len(Waiting(k)') :
                Waiting(k)'[i].conn = d => Waiting(k)'[i].seq <= ReadSoFar(d)
        BY <1>3, <1>8, <2>1, <3>2
      <3> QED
        BY <3>1, <3>2, <3>3, <3>4
    <2>2. CASE d = c
      <3>1. Done(c) <= g + 1
        BY <1>6
      <3>2. n + 1 \in 1 .. Len(Waiting(l)')
        BY <1>4
      <3>3. \A k \in Listeners : \A i \in 1 .. Len(Waiting(k)') :
                Waiting(k)'[i].conn = c => Waiting(k)'[i].seq <= g + 1
        <4> SUFFICES ASSUME NEW k \in Listeners, NEW i \in 1 .. Len(Waiting(k)'),
                            Waiting(k)'[i].conn = c
                     PROVE  Waiting(k)'[i].seq <= g + 1
          OBVIOUS
        <4>1. CASE i \in 1 .. Len(Waiting(k)) /\ Waiting(k)'[i] = Waiting(k)[i]
          <5>1. Waiting(k)[i].seq <= g /\ Waiting(k)[i].seq \in Nat
            BY <1>6, <4>1, WaitingType
          <5> QED
            BY <1>6, <4>1, <5>1
        <4>2. CASE Waiting(k)'[i] = m
          BY <1>3, <1>6, <4>2
        <4> QED
          BY <1>8, <4>1, <4>2
      <3> QED
        BY <1>2, <1>3, <1>4, <2>2, <3>1, <3>2, <3>3
    <2> QED
      BY <2>1, <2>2
  <1> QED
    BY <1>10, <1>11, <1>12, <1>13 DEF Relays

(* Pushing the message from the buffer to the queue changes nothing.       *)
LEMMA RelaysDeliver ==
    ASSUME Typed, Relays, NEW l \in Listeners, Deliver(l), UNCHANGED simVars
    PROVE  Relays'
  <1>1. /\ UNCHANGED <<sentDown, sentItems, owes, inbound, conn, clnSockDescr>>
        /\ \A k \in Listeners \ {l} : /\ queuePckRead'[k] = queuePckRead[k]
                                      /\ buffer_msg'[k] = buffer_msg[k]
        /\ queuePckRead'[l] = queuePckRead[l] \o buffer_msg[l]
        /\ buffer_msg'[l] = <<>>
    BY DEF Deliver, Typed, TypeOK, ListenerTypeOK
  <1>2. Waiting(l)' = Waiting(l)
    <2>1. Waiting(l)' = Waiting(l) \o <<>>
      BY <1>1 DEF Waiting
    <2>2. Waiting(l) \in Seq(Message)
      BY WaitingType
    <2> QED
      BY <2>1, <2>2, ConcatEmptySeq
  <1>3. \A k \in Listeners : Waiting(k)' = Waiting(k)
    BY <1>1, <1>2 DEF Waiting
  <1>4. \A c \in Conns : /\ Done(c)' = Done(c) /\ ReadSoFar(c)' = ReadSoFar(c)
                         /\ Front(c)' = Front(c)
    BY <1>1 DEF Done, ReadSoFar, Front
  <1>5. Owned'
    BY <1>1, <1>3 DEF Relays, Owned
  <1>6. Numbered'
    BY <1>1, <1>3, <1>4 DEF Relays, Numbered
  <1>7. InboundNumbered'
    BY <1>1, <1>4 DEF Relays, InboundNumbered
  <1>8. Linked'
    BY <1>1, <1>3, <1>4 DEF Relays, Linked
  <1> QED
    BY <1>5, <1>6, <1>7, <1>8 DEF Relays

--------------------------------------------------------------------------------
(* The timer sends the first waiting message down.                         *)

LEMMA SentMessage ==
    ASSUME Typed, Relays, PopAndSendDown, NEW l \in Listeners, l = p_tcp_listener
    PROVE  /\ Len(Waiting(l)) \in Nat /\ Len(Waiting(l)) > 0
           /\ Waiting(l)[1] \in Message
           /\ Len(Waiting(l)') = Len(Waiting(l)) - 1
           /\ \A i \in 1 .. Len(Waiting(l)') : Waiting(l)'[i] = Waiting(l)[i + 1]
           /\ \A k \in Listeners \ {l} : Waiting(k)' = Waiting(k)
           /\ \E p \in SentPacket : /\ p.msg = Waiting(l)[1]
                                    /\ sentDown' = Append(sentDown, p)
           /\ UNCHANGED <<conn, clnSockDescr, inbound, sentItems, owes, adrift>>
  <1> DEFINE q == queuePckRead[l]
             b == buffer_msg[l]
  <1>1. q \in Seq(Message) /\ b \in Seq(Message) /\ Len(Waiting(l)) \in Nat
    BY WaitingType
  <1>2. sim = "pop"
    BY DEF PopAndSendDown, Step
  <1>3. q # <<>>
    BY <1>2 DEF Typed, PointerInUse
  <1>4. /\ queuePckRead' = [queuePckRead EXCEPT ![l] = Tail(@)]
        /\ sentDown' = Append(sentDown, [uid |-> uidcnt + 1, sn |-> (txsn + 1) % SNSpace,
                                         msg |-> Head(q)])
        /\ UNCHANGED <<conn, clnSockDescr, inbound, sentItems, owes, adrift,
                       buffer_msg>>
    BY DEF PopAndSendDown
  <1>5. queuePckRead'[l] = Tail(q) /\ buffer_msg'[l] = b
        /\ \A k \in Listeners \ {l} : queuePckRead'[k] = queuePckRead[k]
    BY <1>4 DEF Typed, TypeOK, ListenerTypeOK
  <1>6. Waiting(l) = q \o b /\ Waiting(l)' = Tail(q) \o b
    BY <1>5 DEF Waiting
  <1> HIDE DEF q, b
  <1>7. /\ Head(q) \in Message /\ Tail(q) \in Seq(Message)
        /\ Len(Tail(q)) = Len(q) - 1 /\ Len(q) \in Nat /\ Len(q) > 0 /\ Len(b) \in Nat
        /\ \A i \in 1 .. Len(Tail(q)) : Tail(q)[i] = q[i + 1]
        /\ Head(q) = q[1]
    BY <1>1, <1>3, HeadTailProperties, LenProperties, EmptySeq
  <1>8. /\ Len(q \o b) = Len(q) + Len(b)
        /\ \A i \in 1 .. Len(q) + Len(b) :
            (q \o b)[i] = IF i <= Len(q) THEN q[i] ELSE b[i - Len(q)]
    BY <1>1, ConcatProperties
  <1>9. /\ Len(Tail(q) \o b) = Len(Tail(q)) + Len(b)
        /\ \A i \in 1 .. Len(Tail(q)) + Len(b) :
            (Tail(q) \o b)[i] = IF i <= Len(Tail(q)) THEN Tail(q)[i]
                                ELSE b[i - Len(Tail(q))]
    BY <1>1, <1>7, ConcatProperties
  <1>10. Len(Tail(q) \o b) = Len(q \o b) - 1 /\ Len(q \o b) > 0
    BY <1>7, <1>8, <1>9
  <1>11. (q \o b)[1] = Head(q)
    BY <1>7, <1>8
  <1>12. ASSUME NEW i \in 1 .. Len(Tail(q) \o b)
         PROVE  (Tail(q) \o b)[i] = (q \o b)[i + 1]
    <2>1. i + 1 \in 1 .. Len(q) + Len(b) /\ i \in 1 .. Len(Tail(q)) + Len(b)
      BY <1>7, <1>9
    <2>2. CASE i <= Len(Tail(q))
      BY <1>7, <1>8, <1>9, <2>1, <2>2
    <2>3. CASE ~(i <= Len(Tail(q)))
      <3>1. ~(i + 1 <= Len(q)) /\ i - Len(Tail(q)) = (i + 1) - Len(q)
        BY <1>7, <2>1, <2>3
      <3> QED
        BY <1>8, <1>9, <2>1, <2>3, <3>1
    <2> QED
      BY <2>2, <2>3
  <1>13. \E p \in SentPacket : p.msg = Head(q) /\ sentDown' = Append(sentDown, p)
    <2> DEFINE p == [uid |-> uidcnt + 1, sn |-> (txsn + 1) % SNSpace, msg |-> Head(q)]
    <2>1. uidcnt + 1 \in Nat /\ txsn + 1 \in Nat
      BY DEF Typed, TypeOK, SimTypeOK
    <2>2. (txsn + 1) % SNSpace \in 0 .. SNSpace - 1
      BY <2>1, Remainder, BoundsAssumption
    <2>3. p \in SentPacket /\ p.msg = Head(q)
      BY <1>7, <2>1, <2>2 DEF SentPacket
    <2> HIDE DEF p
    <2>4. sentDown' = Append(sentDown, p)
      BY <1>4 DEF p
    <2> QED
      BY <2>3, <2>4
  <1>14. \A k \in Listeners \ {l} : Waiting(k)' = Waiting(k)
    BY <1>4, <1>5 DEF Waiting
  <1> QED
    BY <1>1, <1>4, <1>6, <1>7, <1>10, <1>11, <1>12, <1>13, <1>14

(* The first message that waits is the next of its client: the step is one *)
(* that MessageRelay allows.                                               *)
LEMMA HeadIsNext ==
    ASSUME Typed, Relays, NEW l \in Listeners, Len(Waiting(l)) > 0
    PROVE  LET m == Waiting(l)[1] IN
           /\ m.conn \in Conns /\ m.seq \in Nat
           /\ m.seq = Done(m.conn) + 1 /\ m.seq <= sentItems[m.conn]
           /\ Done(m.conn) \in Nat
  <1>1. 1 \in 1 .. Len(Waiting(l))
    BY WaitingType
  <1>2. Waiting(l)[1].conn \in Conns /\ Waiting(l)[1].seq \in Nat
    BY <1>1, WaitingType
  <1>3. ASSUME NEW c \in Conns, Waiting(l)[1].conn = c
        PROVE  Waiting(l)[1].seq = Done(c) + 1 /\ Waiting(l)[1].seq <= sentItems[c]
    BY <1>1, <1>3 DEF Relays, Numbered
  <1> QED
    BY <1>2, <1>3, DoneNatural

LEMMA RelaysSendDown ==
    ASSUME Typed, Relays, PopAndSendDown, NEW l \in Listeners, l = p_tcp_listener,
           NEW c \in Conns, c = Waiting(l)[1].conn
    PROVE  Relays'
  <1> DEFINE n == Len(Waiting(l))
             s == Waiting(l)[1].seq
  <1>1. /\ n \in Nat /\ n > 0
        /\ Len(Waiting(l)') = n - 1
        /\ \A i \in 1 .. n - 1 : Waiting(l)'[i] = Waiting(l)[i + 1]
        /\ \A k \in Listeners \ {l} : Waiting(k)' = Waiting(k)
        /\ UNCHANGED <<conn, clnSockDescr, inbound, sentItems, owes>>
    BY SentMessage
  <1>2. s \in Nat /\ s = Done(c) + 1 /\ Done(c) \in Nat
    BY <1>1, HeadIsNext
  <1>3. \A d \in Conns : Done(d)' = IF d = c THEN Done(d) + 1 ELSE Done(d)
    <2>1. PICK p \in SentPacket : p.msg = Waiting(l)[1] /\ sentDown' = Append(sentDown, p)
      BY SentMessage
    <2>2. sentDown \in Seq(SentPacket)
      BY DEF Typed, TypeOK, SimTypeOK
    <2> QED
      BY <2>1, <2>2, DoneAppend
  <1>4. \A d \in Conns : ReadSoFar(d)' = ReadSoFar(d) /\ Front(d)' = Front(d)
    BY <1>1 DEF ReadSoFar, Front
  (* The client's messages wait with this listener.                        *)
  <1>5. 1 \in 1 .. n
    BY <1>1
  <1>6. \A k \in Listeners : \A i \in 1 .. Len(Waiting(k)) :
            Waiting(k)[i].conn = c => k = l
    BY <1>5 DEF Relays, Owned
  (* What waits afterwards waited before, one place later in this queue.   *)
  <1>7. ASSUME NEW k \in Listeners, NEW i \in 1 .. Len(Waiting(k)')
        PROVE  \/ /\ k # l /\ i \in 1 .. Len(Waiting(k)) /\ Waiting(k)' = Waiting(k)
               \/ /\ k = l /\ i \in 1 .. n - 1 /\ i + 1 \in 1 .. n
                  /\ Waiting(k)'[i] = Waiting(k)[i + 1]
    <2>1. CASE k # l
      BY <1>1, <2>1
    <2>2. CASE k = l
      <3>1. i \in 1 .. n - 1
        BY <1>1, <2>2
      <3>2. i + 1 \in 1 .. n
        BY <1>1, <3>1
      <3> QED
        BY <1>1, <2>2, <3>1, <3>2
    <2> QED
      BY <2>1, <2>2
  <1>8. ASSUME NEW k \in Listeners, NEW i \in 1 .. Len(Waiting(k)')
        PROVE  \E j \in 1 .. Len(Waiting(k)) : Waiting(k)'[i] = Waiting(k)[j]
    BY <1>7
  <1>9. Owned'
    <2> SUFFICES ASSUME NEW k \in Listeners, NEW i \in 1 .. Len(Waiting(k)')
                 PROVE  /\ conn[Waiting(k)'[i].conn] \notin {"unused", "backlog"}
                        /\ \A h \in Listeners :
                            clnSockDescr[h] = Waiting(k)'[i].conn => h = k
                        /\ \A h \in Listeners : \A j \in 1 .. Len(Waiting(h)') :
                            Waiting(h)'[j].conn = Waiting(k)'[i].conn => h = k
      BY <1>1 DEF Owned
    <2>1. PICK i1 \in 1 .. Len(Waiting(k)) : Waiting(k)'[i] = Waiting(k)[i1]
      BY <1>8
    <2>2. /\ conn[Waiting(k)[i1].conn] \notin {"unused", "backlog"}
          /\ \A h \in Listeners : clnSockDescr[h] = Waiting(k)[i1].conn => h = k
          /\ \A h \in Listeners : \A j \in 1 .. Len(Waiting(h)) :
                Waiting(h)[j].conn = Waiting(k)[i1].conn => h = k
      BY DEF Relays, Owned
    <2> QED
      BY <1>8, <2>1, <2>2
  <1>10. Numbered'
    <2> SUFFICES ASSUME NEW d \in Conns,
                        NEW k \in Listeners, NEW i \in 1 .. Len(Waiting(k)'),
                        Waiting(k)'[i].conn = d
                 PROVE  /\ Waiting(k)'[i].seq > Done(d)'
                        /\ Waiting(k)'[i].seq <= sentItems[d]
                        /\ \/ Waiting(k)'[i].seq = Done(d)' + 1
                           \/ \E j \in 1 .. i - 1 :
                                /\ Waiting(k)'[j].conn = d
                                /\ Waiting(k)'[j].seq + 1 = Waiting(k)'[i].seq
                        /\ \A j \in 1 .. i - 1 :
                            Waiting(k)'[j].conn = d =>
                                Waiting(k)'[j].seq < Waiting(k)'[i].seq
      BY <1>1 DEF Numbered
    <2>1. CASE k # l
      <3>1. i \in 1 .. Len(Waiting(k)) /\ Waiting(k)' = Waiting(k) /\ d # c
        BY <1>6, <1>7, <2>1
      <3>2. Done(d)' = Done(d)
        BY <1>3, <3>1
      <3> QED
        BY <3>1, <3>2 DEF Relays, Numbered
    <2>2. CASE k = l
      <3> DEFINE w == Waiting(l)[i + 1]
      <3>1. i \in 1 .. n - 1 /\ i + 1 \in 1 .. n /\ Waiting(k)'[i] = w /\ w.conn = d
        BY <1>7, <2>2
      <3>2. /\ w.seq > Done(d) /\ w.seq <= sentItems[d]
            /\ \/ w.seq = Done(d) + 1
               \/ \E j \in 1 .. (i + 1) - 1 :
                    Waiting(l)[j].conn = d /\ Waiting(l)[j].seq + 1 = w.seq
            /\ \A j \in 1 .. (i + 1) - 1 : Waiting(l)[j].conn = d => Waiting(l)[j].seq < w.seq
        BY <3>1 DEF Relays, Numbered
      <3>3. w.seq \in Nat /\ Done(d) \in Nat /\ (i + 1) - 1 = i /\ 1 \in 1 .. i
        BY <3>1, WaitingType, DoneNatural
      <3>4. \A j \in 1 .. i - 1 : /\ j \in 1 .. n - 1 /\ j + 1 \in 1 .. i
                                  /\ Waiting(k)'[j] = Waiting(l)[j + 1]
        <4>1. \A j \in 1 .. i - 1 : j \in 1 .. n - 1 /\ j + 1 \in 1 .. i
          BY <1>1, <3>1
        <4> QED
          BY <1>1, <2>2, <4>1
      <3>5. \A j \in 1 .. i : j = 1 \/ (j - 1 \in 1 .. i - 1 /\ (j - 1) + 1 = j)
        BY <3>1
      <3> HIDE DEF w, s
      <3>6. w.seq > Done(d)'
        <4>1. CASE d = c
          <5>1. s < w.seq
            BY <3>2, <3>3, <4>1 DEF s
          <5> QED
            BY <1>2, <1>3, <4>1, <5>1
        <4>2. CASE d # c
          BY <1>3, <3>2, <4>2
        <4> QED
          BY <4>1, <4>2
      <3>7. \/ w.seq = Done(d)' + 1
            \/ \E j \in 1 .. i - 1 :
                Waiting(k)'[j].conn = d /\ Waiting(k)'[j].seq + 1 = w.seq
        <4>1. ASSUME NEW j \in 1 .. i,
                     Waiting(l)[j].conn = d, Waiting(l)[j].seq + 1 = w.seq
              PROVE  \/ w.seq = Done(d)' + 1
                     \/ \E h \in 1 .. i - 1 :
                         Waiting(k)'[h].conn = d /\ Waiting(k)'[h].seq + 1 = w.seq
          <5>1. CASE j = 1
            <6>1. d = c /\ s + 1 = w.seq
              BY <4>1, <5>1 DEF s
            <6> QED
              BY <1>2, <1>3, <6>1
          <5>2. CASE j # 1
            <6>1. j - 1 \in 1 .. i - 1 /\ (j - 1) + 1 = j
              BY <3>5, <5>2
            <6>2. Waiting(k)'[j - 1] = Waiting(l)[j]
              BY <3>4, <6>1
            <6> QED
              BY <4>1, <6>1, <6>2
          <5> QED
            BY <5>1, <5>2
        <4>2. CASE w.seq = Done(d) + 1
          <5>1. d # c
            <6>1. d = c => s < w.seq
              BY <3>2, <3>3 DEF s
            <6> QED
              BY <1>2, <3>3, <4>2, <6>1
          <5> QED
            BY <1>3, <4>2, <5>1
        <4> QED
          BY <3>2, <3>3, <4>1, <4>2
      <3>8. \A j \in 1 .. i - 1 : Waiting(k)'[j].conn = d => Waiting(k)'[j].seq < w.seq
        BY <3>2, <3>3, <3>4
      <3> QED
        BY <3>1, <3>2, <3>6, <3>7, <3>8
    <2> QED
      BY <2>1, <2>2
  <1>11. InboundNumbered'
    BY <1>1, <1>4 DEF Relays, InboundNumbered
  <1>12. Linked'
    <2> SUFFICES ASSUME NEW d \in Conns, conn[d] \notin {"shut", "closed"},
                        Front(d) # "bad"
                 PROVE  /\ Done(d)' <= ReadSoFar(d)
                        /\ \/ Done(d)' = ReadSoFar(d)
                           \/ \E k \in Listeners : \E i \in 1 .. Len(Waiting(k)') :
                                /\ Waiting(k)'[i].conn = d
                                /\ Waiting(k)'[i].seq = ReadSoFar(d)
                        /\ \A k \in Listeners : \A i \in 1 .. Len(Waiting(k)') :
                            Waiting(k)'[i].conn = d => Waiting(k)'[i].seq <= ReadSoFar(d)
      BY <1>1, <1>4 DEF Linked
    <2>1. /\ Done(d) <= ReadSoFar(d) /\ Done(d) \in Nat /\ ReadSoFar(d) \in Int
          /\ \/ Done(d) = ReadSoFar(d)
             \/ \E k \in Listeners : \E i \in 1 .. Len(Waiting(k)) :
                  Waiting(k)[i].conn = d /\ Waiting(k)[i].seq = ReadSoFar(d)
          /\ \A k \in Listeners : \A i \in 1 .. Len(Waiting(k)) :
              Waiting(k)[i].conn = d => Waiting(k)[i].seq <= ReadSoFar(d)
      BY DoneNatural, InboundType DEF Relays, Linked
    <2>2. \A k \in Listeners : \A i \in 1 .. Len(Waiting(k)') :
            Waiting(k)'[i].conn = d => Waiting(k)'[i].seq <= ReadSoFar(d)
      BY <1>8, <2>1
    (* A message that waited still waits, unless it is the one sent.       *)
    <2>3. ASSUME NEW k \in Listeners, NEW i \in 1 .. Len(Waiting(k)), ~(k = l /\ i = 1)
          PROVE  \E j \in 1 .. Len(Waiting(k)') : Waiting(k)'[j] = Waiting(k)[i]
      <3>1. CASE k # l
        BY <1>1, <3>1
      <3>2. CASE k = l
        <4>1. i - 1 \in 1 .. n - 1 /\ (i - 1) + 1 = i
          BY <1>1, <2>3, <3>2
        <4> QED
          BY <1>1, <3>2, <4>1
      <3> QED
        BY <3>1, <3>2
    <2>4. CASE d # c
      <3>1. \A k \in Listeners : \A i \in 1 .. Len(Waiting(k)) :
                Waiting(k)[i].conn = d => ~(k = l /\ i = 1)
        BY <2>4
      <3> QED
        BY <1>3, <2>1, <2>2, <2>3, <2>4, <3>1
    <2>5. CASE d = c
      <3> HIDE DEF s
      <3>1. s <= ReadSoFar(c)
        BY <1>5, <2>1, <2>5 DEF s
      <3>2. Done(c)' = s /\ Done(c) # ReadSoFar(c)
        BY <1>2, <1>3, <2>1, <2>5, <3>1
      <3>6. PICK k \in Listeners : \E i \in 1 .. Len(Waiting(k)) :
                Waiting(k)[i].conn = c /\ Waiting(k)[i].seq = ReadSoFar(c)
        BY <2>1, <2>5, <3>2
      <3>3. PICK i \in 1 .. Len(Waiting(k)) :
                Waiting(k)[i].conn = c /\ Waiting(k)[i].seq = ReadSoFar(c)
        BY <3>6
      <3>4. CASE k = l /\ i = 1
        BY <2>2, <2>5, <3>1, <3>2, <3>3, <3>4 DEF s
      <3>5. CASE ~(k = l /\ i = 1)
        BY <2>2, <2>3, <2>5, <3>1, <3>2, <3>3, <3>5
      <3> QED
        BY <3>4, <3>5
    <2> QED
      BY <2>4, <2>5
  <1> QED
    BY <1>9, <1>10, <1>11, <1>12 DEF Relays

LEMMA RelaysNext ==
    Typed /\ Descr /\ BufferInUse /\ Relays /\ [Next]_vars => Relays'
  <1> SUFFICES ASSUME Typed, Descr, BufferInUse, Relays, [Next]_vars
               PROVE  Relays'
    OBVIOUS
  <1>1. CASE PopAndSendDown
    <2> DEFINE l == p_tcp_listener
    <2>1. l \in Listeners
      BY <1>1 DEF PopAndSendDown, Step, Typed, PointerInUse
    <2>2. Waiting(l)[1].conn \in Conns
      BY <1>1, <2>1, SentMessage, HeadIsNext
    <2> QED
      BY <1>1, <2>1, <2>2, RelaysSendDown
  <1>2. CASE SimStep /\ ~PopAndSendDown
    BY <1>2, SimulatorQuiet, RelaysQuiet
  <1>3. CASE Listening
    <2>1. PICK l \in Listeners : ListenerStep(l)
      BY <1>3 DEF Listening
    <2>2. UNCHANGED simVars
      BY <1>3 DEF Listening
    <2>3. CASE ReceiveMessage(l)
      <3>1. clnSockDescr[l] \in Conns
        BY <2>3 DEF ReceiveMessage, Goto, Typed, ServedDescriptor, ServingSteps
      <3> QED
        BY <2>2, <2>3, <3>1, RelaysReceive
    <2>4. CASE Deliver(l)
      BY <2>2, <2>4, RelaysDeliver
    <2>5. CASE ReadTorn(l)
      BY <2>2, <2>5, TornDescriptor, RelaysReadTorn
    <2>6. CASE ~ReceiveMessage(l) /\ ~ReadTorn(l) /\ ~Deliver(l)
      BY <2>1, <2>2, <2>6, ListeningQuiet, RelaysQuiet
    <2> QED
      BY <2>3, <2>4, <2>5, <2>6
  <1>4. CASE Clients
    BY <1>4, RelaysClients
  <1>5. CASE UNCHANGED vars
    BY <1>5, RelaysQuiet DEF vars, Quiet
  <1> QED
    BY <1>1, <1>2, <1>3, <1>4, <1>5 DEF Next

LEMMA RelaysInvariant == Spec => [](Typed /\ BufferInUse /\ Relays)
  <1>1. Typed /\ Life /\ Descr /\ BufferInUse /\ [Next]_vars => BufferInUse'
    BY BufferNext
  <1>2. Init => BufferInUse /\ Relays
    BY RelaysInit
  <1> QED
    BY <1>1, <1>2, RelaysNext, DescrInvariant, PTL DEF Spec

--------------------------------------------------------------------------------
(* The refinement                                                          *)

LEMMA RelayedCount ==
    ASSUME Typed, NEW c \in Conns
    PROVE  Abstract!RelayedOf(c) = Done(c)
  <1>1. DOMAIN sentDown = 1 .. Len(sentDown)
    BY LenProperties DEF Typed, TypeOK, SimTypeOK
  <1>2. {i \in DOMAIN Relayed : Relayed[i].conn = c} =
            {i \in 1 .. Len(sentDown) : sentDown[i].msg.conn = c}
    BY <1>1 DEF Relayed
  <1>3. Abstract!RelayedOf(c) = Cardinality({i \in DOMAIN Relayed : Relayed[i].conn = c})
    BY DEF Abstract!RelayedOf, Abstract!Cardinality, Cardinality
  <1>4. Done(c) = Cardinality({i \in 1 .. Len(sentDown) : sentDown[i].msg.conn = c})
    BY DEF Done
  <1> QED
    BY <1>2, <1>3, <1>4, Zenon

LEMMA SendDownRefines ==
    ASSUME Typed, Relays, PopAndSendDown, NEW l \in Listeners, l = p_tcp_listener
    PROVE  \E c \in Conns : Abstract!Relay(c)
  <1>1. /\ Len(Waiting(l)) > 0 /\ Len(Waiting(l)) \in Nat
        /\ Waiting(l)[1] \in Message /\ UNCHANGED sentItems
    BY SentMessage
  <1>2. PICK p \in SentPacket : p.msg = Waiting(l)[1] /\ sentDown' = Append(sentDown, p)
    BY SentMessage
  <1> DEFINE c == p.msg.conn
             n == Len(sentDown)
             r == [conn |-> c, seq |-> Done(c) + 1]
  <1>3. /\ c \in Conns /\ p.msg.seq = Done(c) + 1 /\ Done(c) \in Nat
        /\ p.msg.seq <= sentItems[c]
    BY <1>1, <1>2, HeadIsNext
  <1>4. sentItems[c] \in Nat
    BY <1>3, InboundType
  <1>5. Abstract!RelayedOf(c) = Done(c) /\ Done(c) < sentItems[c]
    BY <1>3, <1>4, RelayedCount
  <1>6. sentDown \in Seq(SentPacket)
    BY DEF Typed, TypeOK, SimTypeOK
  <1>7. /\ n \in Nat /\ Len(sentDown') = n + 1
        /\ \A i \in 1 .. n : sentDown'[i] = sentDown[i]
        /\ sentDown'[n + 1] = p
        /\ DOMAIN sentDown = 1 .. n /\ DOMAIN sentDown' = 1 .. n + 1
    BY <1>2, <1>6, AppendProperties, LenProperties
  <1> DEFINE S == [conn : Conns, seq : Nat]
  <1>8. Relayed \in Seq(S) /\ Len(Relayed) = n
    <2>1. ASSUME NEW i \in 1 .. n
          PROVE  [conn |-> sentDown[i].msg.conn, seq |-> sentDown[i].msg.seq] \in S
      <3>1. sentDown[i] \in SentPacket
        BY <1>6, <2>1, ElementOfSeq
      <3> QED
        BY <3>1 DEF SentPacket, Message
    <2>2. Relayed = [i \in 1 .. n |-> [conn |-> sentDown[i].msg.conn,
                                       seq |-> sentDown[i].msg.seq]]
      BY <1>7 DEF Relayed
    <2>3. Relayed \in [1 .. n -> S]
      BY <2>1, <2>2
    <2> HIDE DEF S
    <2> QED
      BY <1>7, <2>3
  <1>9. r \in S
    BY <1>3
  <1>10. Relayed' = Append(Relayed, r)
    <2>1. Relayed' = [i \in 1 .. n + 1 |-> [conn |-> sentDown'[i].msg.conn,
                                            seq |-> sentDown'[i].msg.seq]]
      BY <1>7 DEF Relayed
    <2>2. /\ \A i \in 1 .. n : i \in 1 .. n + 1 /\ Relayed'[i] = Relayed[i]
          /\ n + 1 \in 1 .. n + 1 /\ Relayed'[n + 1] = r
      <3>1. \A i \in 1 .. n : i \in 1 .. n + 1
        BY <1>7
      <3>2. n + 1 \in 1 .. n + 1
        BY <1>7
      <3>3. \A i \in 1 .. n : Relayed[i] = [conn |-> sentDown[i].msg.conn,
                                            seq |-> sentDown[i].msg.seq]
        BY <1>7 DEF Relayed
      <3>4. Relayed'[n + 1] = [conn |-> p.msg.conn, seq |-> p.msg.seq]
        BY <1>7, <2>1, <3>2
      <3> QED
        BY <1>3, <1>7, <2>1, <3>1, <3>2, <3>3, <3>4
    <2>3. /\ Append(Relayed, r) \in Seq(S) /\ Len(Append(Relayed, r)) = n + 1
          /\ \A i \in 1 .. n : Append(Relayed, r)[i] = Relayed[i]
          /\ Append(Relayed, r)[n + 1] = r
      <3> HIDE DEF r, S
      <3> QED
        BY <1>8, <1>9, AppendProperties
    <2>4. Append(Relayed, r) \in [1 .. n + 1 -> S]
      <3> HIDE DEF r, S
      <3> QED
        BY <2>3, LenProperties
    <2>5. \A i \in 1 .. n + 1 : i \in 1 .. n \/ i = n + 1
      BY <1>7
    <2>6. \A i \in 1 .. n + 1 : Relayed'[i] = Append(Relayed, r)[i]
      <3> HIDE DEF r, S
      <3> QED
        BY <2>2, <2>3, <2>5
    <2>7. DOMAIN Relayed' = 1 .. n + 1 /\ Relayed' = [i \in DOMAIN Relayed' |-> Relayed'[i]]
      BY <2>1
    <2> HIDE DEF r, S
    <2> QED
      BY <2>4, <2>6, <2>7
  <1>11. Abstract!Relay(c)
    BY <1>1, <1>5, <1>10 DEF Abstract!Relay
  <1> QED
    BY <1>3, <1>11

(* The messages of a client go down the stack in the order in which it     *)
(* sent them, each once and without a gap, through every interleaving of   *)
(* the two threads, clients that leave or break the framing, stops and     *)
(* restarts.                                                               *)
THEOREM RelayImplemented == Spec => ImplementsRelay
  <1>1. Init => Abstract!RelayInit
    <2> SUFFICES ASSUME Init
                 PROVE  Abstract!RelayInit
      OBVIOUS
    <2>1. sentItems = [c \in Conns |-> 0] /\ sentDown = <<>>
      BY DEF Init, NetInit, SimInit
    <2>2. Relayed = <<>>
      BY <2>1 DEF Relayed
    <2> QED
      BY <2>1, <2>2 DEF Abstract!RelayInit
  <1>2. ASSUME Typed, Relays, [Next]_vars
        PROVE  [Abstract!RelayNext]_(Abstract!relayVars)
    <2> USE <1>2
    <2>1. ASSUME UNCHANGED <<sentItems, sentDown>>
          PROVE  UNCHANGED Abstract!relayVars
      BY <2>1 DEF Abstract!relayVars, Relayed
    <2>2. CASE PopAndSendDown
      <3>1. p_tcp_listener \in Listeners
        BY <2>2 DEF PopAndSendDown, Step, Typed, PointerInUse
      <3> QED
        BY <2>2, <3>1, SendDownRefines DEF Abstract!RelayNext
    <2>3. CASE SimStep /\ ~PopAndSendDown
      <3>1. CASE \E l \in Listeners :
                    StartListener(l) \/ StartWithoutThread(l) \/ StartFails(l)
        BY <2>1, <3>1 DEF StartListener, StartWithoutThread, StartFails
      <3>2. CASE Expire \/ ExpireEmpty \/ Recv
        BY <2>1, <3>2 DEF Expire, ExpireEmpty, Recv, vars
      <3>3. CASE \E part \in Parts :
                    \/ Write(part) \/ WriteWaits(part) \/ WriteGoesOn(part)
                    \/ WriteElsewhere(part) \/ WriteFails(part)
        BY <2>1, <3>3 DEF Write, WriteWaits, WriteGoesOn, WritePart, WriteElsewhere,
                          WriteFails
      <3>4. CASE StopBegin \/ StopJoin
        BY <2>1, <3>4 DEF StopBegin, StopJoin
      <3>5. CASE StopDelete
        BY <2>1, <3>5 DEF StopDelete, DropBacklog
      <3> QED
        BY <2>3, <3>1, <3>2, <3>3, <3>4, <3>5 DEF SimStep
    <2>4. CASE Listening
      <3>1. UNCHANGED sentItems
        BY <2>4 DEF Listening, ListenerStep, Begin, LoopTest, Accept, AcceptFails,
           ClientTest, SelectReady, SelectTimeout, SelectFails, ReceiveMessage,
           ReadTorn, ReceiveNothing, ReceiveError, Deliver, Overrun, CloseClient,
           ZeroClient, Leave, DropBacklog, Return
      <3> QED
        BY <2>1, <2>4, <3>1 DEF Listening
    <2>5. CASE Clients
      <3>1. PICK c \in Conns : ClientStep(c)
        BY <2>5 DEF Clients
      <3>2. UNCHANGED sentDown
        BY <2>5 DEF Clients
      <3>3. CASE SendMisread(c) \/ \E kind \in Kinds : Send(c, kind)
        <4>1. \E kind \in Kinds : SendBytes(c, kind)
          BY <3>3 DEF Send, SendMisread, Kinds
        <4> QED
          BY <3>2, <4>1 DEF SendBytes, Abstract!RelayNext, Abstract!Submit, Relayed
      <3>4. CASE Connect(c) \/ SendRest(c) \/ Close(c) \/ Refuse(c) \/ Reset(c)
        BY <2>1, <3>2, <3>4 DEF Connect, SendRest, Close, Refuse, Reset
      <3> QED
        BY <3>1, <3>3, <3>4 DEF ClientStep
    <2>6. CASE UNCHANGED vars
      BY <2>1, <2>6 DEF vars
    <2> QED
      BY <2>2, <2>3, <2>4, <2>5, <2>6 DEF Next
  <1> QED
    BY <1>1, <1>2, RelaysInvariant, PTL DEF Spec, ImplementsRelay, Abstract!RelaySpec

--------------------------------------------------------------------------------
(* Messages that were read only in part.                                   *)

(* Only the last message in a socket can be unfinished: the client owes    *)
(* the rest and sends nothing before it.                                   *)
UnfinishedLast ==
    \A c \in Conns : \A i \in 1 .. Len(inbound[c]) :
        inbound[c][i].kind \in {"head", "torn", "short"} => owes[c] /\ i = Len(inbound[c])

(* All that was read of a client is whole.                                 *)
NoneCut(c) ==
    /\ \A i \in 1 .. Len(sentDown) : sentDown[i].msg.conn = c => sentDown[i].msg.whole
    /\ \A l \in Listeners : \A i \in 1 .. Len(Waiting(l)) :
        Waiting(l)[i].conn = c => Waiting(l)[i].whole

(* No message will be read of a client any more: its connection is over,   *)
(* the next bytes are no message, or they will be, the rest that it owes.  *)
ReadNoMore(c) ==
    \/ conn[c] \in {"shut", "closed"}
    \/ Front(c) = "bad"
    \/ owes[c] /\ inbound[c] = <<>>

CutEnds == \A c \in Conns : adrift[c] \/ NoneCut(c) \/ ReadNoMore(c)

(* What waits behind a message of the same client finds it whole.          *)
CutWaitsLast ==
    \A l \in Listeners : \A j \in 1 .. Len(Waiting(l)) : ~adrift[Waiting(l)[j].conn] =>
        /\ \A i \in 1 .. Len(sentDown) :
            sentDown[i].msg.conn = Waiting(l)[j].conn => sentDown[i].msg.whole
        /\ \A i \in 1 .. j - 1 :
            Waiting(l)[i].conn = Waiting(l)[j].conn => Waiting(l)[i].whole

Cuts == UnfinishedLast /\ CutEnds /\ CutWaitsLast /\ OnlyLastCut

LEMMA CutsInit == Init => Cuts
  <1> SUFFICES ASSUME Init
               PROVE  Cuts
    OBVIOUS
  <1>1. \A l \in Listeners : Len(Waiting(l)) = 0
    <2>1. <<>> \in Seq(Message) /\ Len(<<>>) = 0
      BY EmptySeq
    <2>2. (<<>> \o <<>>) = <<>>
      BY <2>1, ConcatEmptySeq
    <2>3. \A l \in Listeners : buffer_msg[l] = <<>> /\ queuePckRead[l] = <<>>
      BY DEF Init, ListenerInit
    <2> QED
      BY <2>1, <2>2, <2>3, Zenon DEF Waiting
  <1>2. Len(sentDown) = 0 /\ \A c \in Conns : Len(inbound[c]) = 0
    BY DEF Init, NetInit, SimInit
  <1> QED
    BY <1>1, <1>2 DEF Cuts, UnfinishedLast, CutEnds, NoneCut, CutWaitsLast, OnlyLastCut

(* A step that reads and relays nothing needs to keep what is unfinished   *)
(* at the end of its socket and to bring no client back.                   *)
LEMMA CutsKept ==
    ASSUME Typed, Cuts, UnfinishedLast', UNCHANGED sentDown,
           \A l \in Listeners : Waiting(l)' = Waiting(l),
           \A c \in Conns : adrift[c] => adrift'[c],
           \A c \in Conns : ReadNoMore(c) => adrift'[c] \/ ReadNoMore(c)'
    PROVE  Cuts'
  <1>1. \A c \in Conns : NoneCut(c) => NoneCut(c)'
    BY DEF NoneCut
  <1>2. CutEnds'
    BY <1>1 DEF Cuts, CutEnds
  <1>3. \A l \in Listeners : \A j \in 1 .. Len(Waiting(l)) : Waiting(l)[j].conn \in Conns
    BY WaitingType
  <1>4. CutWaitsLast'
    BY <1>3 DEF Cuts, CutWaitsLast
  <1>5. \A i \in 1 .. Len(sentDown) : sentDown[i].msg.conn \in Conns
    <2> SUFFICES ASSUME NEW i \in 1 .. Len(sentDown)
                 PROVE  sentDown[i].msg.conn \in Conns
      OBVIOUS
    <2>1. sentDown[i] \in SentPacket
      BY ElementOfSeq DEF Typed, TypeOK, SimTypeOK
    <2> QED
      BY <2>1 DEF SentPacket, Message
  <1>6. OnlyLastCut'
    BY <1>5 DEF Cuts, OnlyLastCut
  <1> QED
    BY <1>2, <1>4, <1>6 DEF Cuts

LEMMA CutsQuiet ==
    ASSUME Typed, Cuts, Quiet
    PROVE  Cuts'
  <1>1. UNCHANGED sentDown /\ \A l \in Listeners : Waiting(l)' = Waiting(l)
    BY DEF Quiet, Waiting
  <1>2. UnfinishedLast'
    <2> SUFFICES ASSUME NEW c \in Conns, NEW i \in 1 .. Len(inbound'[c]),
                        inbound'[c][i].kind \in {"head", "torn", "short"}
                 PROVE  owes'[c] /\ i = Len(inbound'[c])
      BY DEF UnfinishedLast
    <2>1. inbound'[c] = inbound[c]
      <3>1. Len(<<>>) = 0
        OBVIOUS
      <3>2. inbound'[c] # <<>>
        BY <3>1
      <3> QED
        BY <3>2 DEF Quiet
    <2> QED
      BY <2>1 DEF Quiet, Cuts, UnfinishedLast
  <1>3. ASSUME NEW c \in Conns, ReadNoMore(c)
        PROVE  ReadNoMore(c)'
    BY <1>3 DEF ReadNoMore, Quiet, Front
  <1>4. UNCHANGED adrift
    BY DEF Quiet
  <1> QED
    BY <1>1, <1>2, <1>3, <1>4, CutsKept

LEMMA CutsDeliver ==
    ASSUME Typed, Cuts, NEW l \in Listeners, Deliver(l), UNCHANGED simVars
    PROVE  Cuts'
  <1>1. /\ UNCHANGED <<sentDown, owes, adrift, inbound, conn>>
        /\ \A k \in Listeners \ {l} : /\ queuePckRead'[k] = queuePckRead[k]
                                      /\ buffer_msg'[k] = buffer_msg[k]
        /\ queuePckRead'[l] = queuePckRead[l] \o buffer_msg[l]
        /\ buffer_msg'[l] = <<>>
    BY DEF Deliver, Typed, TypeOK, ListenerTypeOK
  <1>2. Waiting(l)' = Waiting(l)
    <2>1. Waiting(l)' = Waiting(l) \o <<>>
      BY <1>1 DEF Waiting
    <2>2. Waiting(l) \in Seq(Message)
      BY WaitingType
    <2> QED
      BY <2>1, <2>2, ConcatEmptySeq
  <1>3. \A k \in Listeners : Waiting(k)' = Waiting(k)
    BY <1>1, <1>2 DEF Waiting
  <1>4. UnfinishedLast'
    BY <1>1 DEF Cuts, UnfinishedLast
  <1>5. \A c \in Conns : ReadNoMore(c) => ReadNoMore(c)'
    BY <1>1 DEF ReadNoMore, Front
  <1> QED
    BY <1>1, <1>3, <1>4, <1>5, CutsKept

LEMMA CutsSend ==
    ASSUME Typed, Cuts, NEW c \in Conns, NEW kind \in Kinds,
           Send(c, kind), UNCHANGED <<listenerVars, simVars>>
    PROVE  Cuts'
  <1> DEFINE n == Len(inbound[c])
             item == [kind |-> kind, seq |-> sentItems[c] + 1]
  <1>1. inbound[c] \in Seq(Item) /\ n \in Nat /\ sentItems[c] \in Nat
    BY InboundType
  <1>2. item \in Item /\ item.kind = kind
    BY <1>1 DEF Item
  <1>3. /\ inbound' = [inbound EXCEPT ![c] = Append(@, item)]
        /\ owes' = [owes EXCEPT ![c] = kind \in {"head", "torn", "short"}]
        /\ UNCHANGED <<conn, adrift>> /\ ~owes[c] /\ conn[c] \in {"backlog", "up"}
    BY DEF Send, SendBytes, Open
  <1>4. /\ inbound'[c] = Append(inbound[c], item)
        /\ owes'[c] = (kind \in {"head", "torn", "short"})
        /\ \A d \in Conns \ {c} : inbound'[d] = inbound[d] /\ owes'[d] = owes[d]
    BY <1>3 DEF Typed, TypeOK, NetTypeOK
  <1> HIDE DEF item
  <1>5. /\ Len(inbound'[c]) = n + 1 /\ inbound'[c] # <<>>
        /\ \A i \in 1 .. n : inbound'[c][i] = inbound[c][i]
        /\ inbound'[c][n + 1] = item
    BY <1>1, <1>2, <1>4, AppendProperties
  <1>6. UnfinishedLast'
    <2> SUFFICES ASSUME NEW d \in Conns, NEW i \in 1 .. Len(inbound'[d]),
                        inbound'[d][i].kind \in {"head", "torn", "short"}
                 PROVE  owes'[d] /\ i = Len(inbound'[d])
      BY DEF UnfinishedLast
    <2>1. CASE d # c
      BY <1>4, <2>1 DEF Cuts, UnfinishedLast
    <2>2. CASE d = c
      <3>1. i \in 1 .. n \/ i = n + 1
        BY <1>1, <1>5, <2>2
      <3>2. i \notin 1 .. n
        BY <1>3, <1>5, <2>2 DEF Cuts, UnfinishedLast
      <3> QED
        BY <1>2, <1>4, <1>5, <2>2, <3>1, <3>2
    <2> QED
      BY <2>1, <2>2
  <1>7. ASSUME NEW d \in Conns, ReadNoMore(d)
        PROVE  ReadNoMore(d)'
    <2>1. CASE d # c
      BY <1>3, <1>4, <1>7, <2>1 DEF ReadNoMore, Front
    <2>2. CASE d = c
      <3>1. Front(c) = "bad"
        BY <1>3, <1>7, <2>2 DEF ReadNoMore
      <3>2. inbound[c] # <<>>
        BY <3>1 DEF Front
      <3>3. 1 \in 1 .. n
        BY <1>1, <3>2, EmptySeq
      <3>4. inbound'[c][1] = inbound[c][1]
        BY <1>5, <3>3
      <3> QED
        BY <1>5, <2>2, <3>1, <3>2, <3>4 DEF ReadNoMore, Front
    <2> QED
      BY <2>1, <2>2
  <1> QED
    BY <1>3, <1>6, <1>7, CutsKept DEF Waiting

(* Bytes that are misread: the connection is adrift from here on.          *)
LEMMA CutsMisread ==
    ASSUME Typed, Cuts, NEW c \in Conns, SendMisread(c),
           UNCHANGED <<listenerVars, simVars>>
    PROVE  Cuts'
  <1> DEFINE item == [kind |-> "frame", seq |-> sentItems[c] + 1]
  <1>1. /\ inbound'[c] = Append(<<>>, item) /\ item.kind = "frame"
        /\ UNCHANGED conn /\ adrift'[c]
        /\ \A d \in Conns \ {c} : /\ inbound'[d] = inbound[d] /\ owes'[d] = owes[d]
                                  /\ adrift'[d] = adrift[d]
    BY DEF SendMisread, SendBytes, Typed, TypeOK, NetTypeOK
  <1> HIDE DEF item
  <1>2. Len(inbound'[c]) = 1 /\ inbound'[c][1] = item
    BY <1>1
  <1>3. UnfinishedLast'
    <2> SUFFICES ASSUME NEW d \in Conns, NEW i \in 1 .. Len(inbound'[d]),
                        inbound'[d][i].kind \in {"head", "torn", "short"}
                 PROVE  owes'[d] /\ i = Len(inbound'[d])
      BY DEF UnfinishedLast
    <2>1. CASE d # c
      BY <1>1, <2>1 DEF Cuts, UnfinishedLast
    <2>2. CASE d = c
      BY <1>1, <1>2, <2>2
    <2> QED
      BY <2>1, <2>2
  <1>4. \A d \in Conns : /\ adrift[d] => adrift'[d]
                         /\ ReadNoMore(d) => adrift'[d] \/ ReadNoMore(d)'
    BY <1>1 DEF ReadNoMore, Front
  <1> QED
    BY <1>3, <1>4, CutsKept DEF Waiting

(* So it is when a field is read in part; the message is the only one.     *)
LEMMA CutsReadTorn ==
    ASSUME Typed, Cuts, NEW l \in Listeners, ReadTorn(l), UNCHANGED simVars,
           NEW c \in Conns, c = clnSockDescr[l]
    PROVE  Cuts'
  <1>1. /\ inbound[c][1].kind = "torn"
        /\ Len(inbound[c]) \in Nat /\ Len(inbound[c]) > 0
        /\ Len(inbound'[c]) = Len(inbound[c]) /\ adrift'[c]
        /\ \A d \in Conns \ {c} : inbound'[d] = inbound[d] /\ adrift'[d] = adrift[d]
        /\ UNCHANGED <<queuePckRead, buffer_msg, conn, owes>>
    BY TornRead
  <1>2. 1 \in 1 .. Len(inbound[c])
    BY <1>1
  <1>3. owes[c] /\ Len(inbound[c]) = 1
    BY <1>1, <1>2 DEF Cuts, UnfinishedLast
  <1>4. UnfinishedLast'
    <2> SUFFICES ASSUME NEW d \in Conns, NEW i \in 1 .. Len(inbound'[d]),
                        inbound'[d][i].kind \in {"head", "torn", "short"}
                 PROVE  owes'[d] /\ i = Len(inbound'[d])
      BY DEF UnfinishedLast
    <2>1. CASE d # c
      BY <1>1, <2>1 DEF Cuts, UnfinishedLast
    <2>2. CASE d = c
      <3>1. Len(inbound'[c]) = 1 /\ owes'[c]
        BY <1>1, <1>3
      <3>2. i = 1
        BY <2>2, <3>1
      <3> QED
        BY <2>2, <3>1, <3>2
    <2> QED
      BY <2>1, <2>2
  <1>5. \A d \in Conns : /\ adrift[d] => adrift'[d]
                         /\ ReadNoMore(d) => adrift'[d] \/ ReadNoMore(d)'
    BY <1>1 DEF ReadNoMore, Front
  <1> QED
    BY <1>1, <1>4, <1>5, CutsKept DEF Waiting

LEMMA CutsSendRest ==
    ASSUME Typed, Relays, Cuts, NEW c \in Conns, SendRest(c),
           UNCHANGED <<listenerVars, simVars>>
    PROVE  Cuts'
  <1> DEFINE n == Len(inbound[c])
  <1>1. inbound[c] \in Seq(Item) /\ n \in Nat
    BY InboundType
  <1>2. /\ UNCHANGED <<conn, adrift>> /\ owes[c] /\ ~owes'[c]
        /\ conn[c] \in {"backlog", "up"}
        /\ \A d \in Conns \ {c} : inbound'[d] = inbound[d] /\ owes'[d] = owes[d]
    BY DEF SendRest, Open, Typed, TypeOK, NetTypeOK
  <1>7. /\ n > 0 => \E kind \in {"frame", "bad"} :
                        inbound'[c] = [inbound[c] EXCEPT ![n].kind = kind]
        /\ n = 0 => inbound'[c] = <<[kind |-> "bad", seq |-> sentItems[c]]>>
    BY RestSent
  <1>3. n > 0 => inbound[c][n].kind # "bad"
    <2>1. n > 0 => inbound[c] # <<>>
      BY <1>1
    <2> QED
      BY <1>2, <2>1 DEF Relays, InboundNumbered
  (* It is enough to look at the client that writes.                       *)
  <1>4. ASSUME \A i \in 1 .. Len(inbound'[c]) :
                    inbound'[c][i].kind \notin {"head", "torn", "short"},
               ReadNoMore(c) => Front(c)' = "bad"
        PROVE  Cuts'
    <2>1. UnfinishedLast'
      <3> SUFFICES ASSUME NEW d \in Conns, NEW i \in 1 .. Len(inbound'[d]),
                          inbound'[d][i].kind \in {"head", "torn", "short"}
                   PROVE  owes'[d] /\ i = Len(inbound'[d])
        BY DEF UnfinishedLast
      <3> QED
        BY <1>2, <1>4 DEF Cuts, UnfinishedLast
    <2>2. \A d \in Conns : ReadNoMore(d) => ReadNoMore(d)'
      BY <1>2, <1>4 DEF ReadNoMore, Front
    <2> QED
      BY <1>2, <2>1, <2>2, CutsKept DEF Waiting
  <1>5. CASE n > 0
    <2>1. n \in 1 .. n /\ 1 \in 1 .. n
      BY <1>1, <1>5
    <2>7. PICK kind \in {"frame", "bad"} :
            inbound'[c] = [inbound[c] EXCEPT ![n] = [inbound[c][n] EXCEPT !.kind = kind]]
      BY <1>5, <1>7
    <2> DEFINE item == [inbound[c][n] EXCEPT !.kind = kind]
    <2>2. item \in Item /\ item.kind = kind
      <3>1. inbound[c][n] \in Item
        BY <1>1, <2>1, ElementOfSeq
      <3> QED
        BY <3>1 DEF Item, Kinds
    <2>3. inbound'[c] = [inbound[c] EXCEPT ![n] = item]
      BY <2>7
    <2> HIDE DEF item
    <2>4. /\ Len(inbound'[c]) = n /\ inbound'[c][n] = item
          /\ \A i \in 1 .. n : i # n => inbound'[c][i] = inbound[c][i]
      BY <1>1, <2>1, <2>2, <2>3, ExceptSeq
    <2>5. ASSUME NEW i \in 1 .. n, inbound'[c][i].kind \in {"head", "torn", "short"}
          PROVE  FALSE
      <3>1. i # n /\ inbound'[c][i] = inbound[c][i]
        BY <2>2, <2>4, <2>5
      <3> QED
        BY <2>5, <3>1 DEF Cuts, UnfinishedLast
    <2>6. ASSUME ReadNoMore(c)
          PROVE  Front(c)' = "bad"
      <3>1. inbound[c] # <<>> /\ inbound'[c] # <<>>
        <4>1. Len(<<>>) = 0
          OBVIOUS
        <4> QED
          BY <1>5, <2>4, <4>1
      <3>2. Front(c) = "bad"
        BY <1>2, <2>6, <3>1 DEF ReadNoMore
      <3>3. n # 1
        BY <1>3, <1>5, <3>1, <3>2 DEF Front
      <3>4. inbound'[c][1] = inbound[c][1]
        BY <2>1, <2>4, <3>3
      <3> QED
        BY <3>1, <3>2, <3>4 DEF Front
    <2> QED
      BY <1>4, <2>4, <2>5, <2>6
  <1>6. CASE n = 0
    <2> DEFINE item == [kind |-> "bad", seq |-> sentItems[c]]
    <2>1. inbound'[c] = <<item>> /\ item.kind = "bad"
      BY <1>6, <1>7
    <2> HIDE DEF item
    <2>2. Len(inbound'[c]) = 1 /\ inbound'[c][1] = item /\ inbound'[c] # <<>>
      BY <2>1
    <2>3. Front(c)' = "bad"
      BY <2>1, <2>2 DEF Front
    <2> QED
      BY <1>4, <2>1, <2>2, <2>3
  <1> QED
    BY <1>1, <1>5, <1>6

(* A message is read of a client of which all that was read is whole.  If  *)
(* it is cut itself, nothing is left in the socket and the client owes the *)
(* rest.                                                                   *)
LEMMA CutsReceive ==
    ASSUME Typed, Descr, BufferInUse, Relays, Cuts, NEW l \in Listeners,
           ReceiveMessage(l), UNCHANGED simVars, NEW c \in Conns, c = clnSockDescr[l]
    PROVE  Cuts'
  <1> DEFINE n == Len(Waiting(l))
  <1>1. /\ conn[c] = "up" /\ Front(c) # "bad" /\ inbound[c] # <<>>
        /\ Len(inbound[c]) \in Nat /\ Len(inbound[c]) > 0
        /\ Len(inbound'[c]) = Len(inbound[c]) - 1 /\ inbound'[c] = Tail(inbound[c])
        /\ \A i \in 1 .. Len(inbound'[c]) : inbound'[c][i] = inbound[c][i + 1]
        /\ \A d \in Conns \ {c} : inbound'[d] = inbound[d]
        /\ \A k \in Listeners \ {l} : Waiting(k)' = Waiting(k)
        /\ UNCHANGED <<conn, sentDown, owes, adrift>>
    BY ReceivedMessage
  <1>2. PICK m \in Message : /\ m.conn = c
                             /\ m.whole \/ inbound[c][1].kind = "short"
                             /\ Waiting(l)' = Append(Waiting(l), m)
    BY ReceivedMessage
  <1>3. /\ n \in Nat /\ Len(Waiting(l)') = n + 1
        /\ \A i \in 1 .. n : Waiting(l)'[i] = Waiting(l)[i]
        /\ Waiting(l)'[n + 1] = m
    BY <1>2, WaitingType, AppendProperties
  <1>4. adrift[c] \/ NoneCut(c)
    BY <1>1 DEF Cuts, CutEnds, ReadNoMore
  <1>5. UnfinishedLast'
    <2> SUFFICES ASSUME NEW d \in Conns, NEW i \in 1 .. Len(inbound'[d]),
                        inbound'[d][i].kind \in {"head", "torn", "short"}
                 PROVE  owes'[d] /\ i = Len(inbound'[d])
      BY DEF UnfinishedLast
    <2>1. CASE d # c
      BY <1>1, <2>1 DEF Cuts, UnfinishedLast
    <2>2. CASE d = c
      <3>1. i \in 1 .. Len(inbound[c]) - 1
        BY <1>1, <2>2
      <3>2. i + 1 \in 1 .. Len(inbound[c])
        BY <1>1, <3>1
      <3>3. owes[c] /\ i + 1 = Len(inbound[c])
        BY <1>1, <2>2, <3>2 DEF Cuts, UnfinishedLast
      <3>4. i = Len(inbound[c]) - 1
        BY <3>1, <3>3
      <3> QED
        BY <1>1, <2>2, <3>3, <3>4
    <2> QED
      BY <2>1, <2>2
  <1>6. m.whole \/ ReadNoMore(c)'
    <2>1. SUFFICES ASSUME inbound[c][1].kind = "short"
                   PROVE  ReadNoMore(c)'
      BY <1>2
    <2>2. 1 \in 1 .. Len(inbound[c])
      BY <1>1
    <2>3. owes[c] /\ 1 = Len(inbound[c])
      BY <2>1, <2>2 DEF Cuts, UnfinishedLast
    <2>4. Len(inbound'[c]) = 0
      BY <1>1, <2>3
    <2>5. inbound'[c] = <<>>
      BY <1>1, <2>4, InboundType, HeadTailProperties, EmptySeq
    <2> QED
      BY <1>1, <2>3, <2>5 DEF ReadNoMore
  <1>7. CutEnds'
    <2> SUFFICES ASSUME NEW d \in Conns
                 PROVE  adrift'[d] \/ NoneCut(d)' \/ ReadNoMore(d)'
      BY DEF CutEnds
    <2>1. CASE d # c
      <3>1. ReadNoMore(d) => ReadNoMore(d)'
        BY <1>1, <2>1 DEF ReadNoMore, Front
      <3>2. ASSUME NoneCut(d)
            PROVE  NoneCut(d)'
        <4>1. ASSUME NEW k \in Listeners, NEW i \in 1 .. Len(Waiting(k)'),
                     Waiting(k)'[i].conn = d
              PROVE  Waiting(k)'[i].whole
          <5>1. CASE k # l
            BY <1>1, <3>2, <4>1, <5>1 DEF NoneCut
          <5>2. CASE k = l
            <6>1. i \in 1 .. n \/ i = n + 1
              BY <1>3, <4>1, <5>2
            <6>2. i # n + 1
              BY <1>2, <1>3, <2>1, <4>1, <5>2
            <6> QED
              BY <1>3, <3>2, <4>1, <5>2, <6>1, <6>2 DEF NoneCut
          <5> QED
            BY <5>1, <5>2
        <4> QED
          BY <1>1, <3>2, <4>1 DEF NoneCut
      <3> QED
        BY <1>1, <3>1, <3>2 DEF Cuts, CutEnds
    <2>3. CASE adrift[d]
      BY <1>1, <2>3
    <2>2. CASE d = c /\ m.whole /\ ~adrift[c]
      <3>0. NoneCut(c)
        BY <1>4, <2>2
      <3>1. ASSUME NEW k \in Listeners, NEW i \in 1 .. Len(Waiting(k)'),
                   Waiting(k)'[i].conn = c
            PROVE  Waiting(k)'[i].whole
        <4>1. CASE k # l
          BY <1>1, <3>0, <3>1, <4>1 DEF NoneCut
        <4>2. CASE k = l
          <5>1. i \in 1 .. n \/ i = n + 1
            BY <1>3, <3>1, <4>2
          <5> QED
            BY <1>3, <2>2, <3>0, <3>1, <4>2, <5>1 DEF NoneCut
        <4> QED
          BY <4>1, <4>2
      <3> QED
        BY <1>1, <1>4, <2>2, <3>1 DEF NoneCut
    <2> QED
      BY <1>6, <2>1, <2>2, <2>3
  <1>8. CutWaitsLast'
    <2> SUFFICES ASSUME NEW k \in Listeners, NEW j \in 1 .. Len(Waiting(k)'),
                        ~adrift[Waiting(k)'[j].conn]
                 PROVE  /\ \A i \in 1 .. Len(sentDown) :
                            sentDown[i].msg.conn = Waiting(k)'[j].conn =>
                                sentDown[i].msg.whole
                        /\ \A i \in 1 .. j - 1 :
                            Waiting(k)'[i].conn = Waiting(k)'[j].conn =>
                                Waiting(k)'[i].whole
      BY <1>1 DEF CutWaitsLast
    <2>1. CASE k # l
      BY <1>1, <2>1 DEF Cuts, CutWaitsLast
    <2>2. CASE k = l /\ j \in 1 .. n
      <3>1. Waiting(k)'[j] = Waiting(l)[j]
            /\ \A i \in 1 .. j - 1 : Waiting(k)'[i] = Waiting(l)[i]
        BY <1>3, <2>2
      <3> QED
        BY <2>2, <3>1 DEF Cuts, CutWaitsLast
    <2>3. CASE k = l /\ j = n + 1
      <3>1. Waiting(k)'[j].conn = c
            /\ \A i \in 1 .. j - 1 : i \in 1 .. n /\ Waiting(k)'[i] = Waiting(l)[i]
        BY <1>2, <1>3, <2>3
      <3> QED
        BY <1>4, <2>3, <3>1 DEF NoneCut
    <2> QED
      BY <1>3, <2>1, <2>2, <2>3
  <1>9. OnlyLastCut'
    BY <1>1 DEF Cuts, OnlyLastCut
  <1> QED
    BY <1>5, <1>7, <1>8, <1>9 DEF Cuts

(* The message sent down leaves all of its client behind it.               *)
LEMMA CutsSendDown ==
    ASSUME Typed, Relays, Cuts, PopAndSendDown, NEW l \in Listeners, l = p_tcp_listener
    PROVE  Cuts'
  <1> DEFINE n == Len(Waiting(l))
             s == Len(sentDown)
             first == Waiting(l)[1]
  <1>1. /\ n \in Nat /\ n > 0 /\ Len(Waiting(l)') = n - 1
        /\ \A i \in 1 .. n - 1 : Waiting(l)'[i] = Waiting(l)[i + 1]
        /\ \A k \in Listeners \ {l} : Waiting(k)' = Waiting(k)
        /\ UNCHANGED <<conn, inbound, owes, adrift>>
    BY SentMessage
  <1>2. PICK p \in SentPacket : p.msg = first /\ sentDown' = Append(sentDown, p)
    BY SentMessage
  <1>3. /\ s \in Nat /\ Len(sentDown') = s + 1
        /\ \A i \in 1 .. s : sentDown'[i] = sentDown[i]
        /\ sentDown'[s + 1].msg = first
    BY <1>2, AppendProperties, LenProperties DEF Typed, TypeOK, SimTypeOK
  <1>4. 1 \in 1 .. n
    BY <1>1
  <1>5. \A k \in Listeners \ {l} : \A i \in 1 .. Len(Waiting(k)) :
            Waiting(k)[i].conn # first.conn
    BY <1>4 DEF Relays, Owned
  <1>6. UnfinishedLast' /\ \A c \in Conns : ReadNoMore(c) => ReadNoMore(c)'
    BY <1>1 DEF Cuts, UnfinishedLast, ReadNoMore, Front
  <1>7. ASSUME NEW c \in Conns, NoneCut(c)
        PROVE  NoneCut(c)'
    <2>1. ASSUME NEW i \in 1 .. Len(sentDown'), sentDown'[i].msg.conn = c
          PROVE  sentDown'[i].msg.whole
      <3>1. i \in 1 .. s \/ i = s + 1
        BY <1>3
      <3> QED
        BY <1>3, <1>4, <1>7, <2>1, <3>1 DEF NoneCut
    <2>2. ASSUME NEW k \in Listeners, NEW i \in 1 .. Len(Waiting(k)'),
                 Waiting(k)'[i].conn = c
          PROVE  Waiting(k)'[i].whole
      <3>1. CASE k # l
        BY <1>1, <1>7, <2>2, <3>1 DEF NoneCut
      <3>2. CASE k = l
        <4>1. i \in 1 .. n - 1 /\ i + 1 \in 1 .. n
          BY <1>1, <2>2, <3>2
        <4> QED
          BY <1>1, <1>7, <2>2, <3>2, <4>1 DEF NoneCut
      <3> QED
        BY <3>1, <3>2
    <2> QED
      BY <2>1, <2>2 DEF NoneCut
  <1>8. CutEnds'
    BY <1>1, <1>6, <1>7 DEF Cuts, CutEnds
  <1>9. CutWaitsLast'
    <2> SUFFICES ASSUME NEW k \in Listeners, NEW j \in 1 .. Len(Waiting(k)'),
                        ~adrift[Waiting(k)'[j].conn]
                 PROVE  /\ \A i \in 1 .. Len(sentDown') :
                            sentDown'[i].msg.conn = Waiting(k)'[j].conn =>
                                sentDown'[i].msg.whole
                        /\ \A i \in 1 .. j - 1 :
                            Waiting(k)'[i].conn = Waiting(k)'[j].conn =>
                                Waiting(k)'[i].whole
      BY <1>1 DEF CutWaitsLast
    <2>1. CASE k # l
      <3>1. /\ Waiting(k)' = Waiting(k) /\ j \in 1 .. Len(Waiting(k))
            /\ Waiting(k)[j].conn # first.conn
        BY <1>1, <1>5, <2>1
      <3>2. \A i \in 1 .. Len(sentDown') : i \in 1 .. s \/ i = s + 1
        BY <1>3
      <3> QED
        BY <1>3, <3>1, <3>2 DEF Cuts, CutWaitsLast
    <2>2. CASE k = l
      <3>1. /\ j + 1 \in 1 .. n /\ Waiting(k)'[j] = Waiting(l)[j + 1]
            /\ 1 \in 1 .. (j + 1) - 1
        BY <1>1, <2>2
      <3>2. \A i \in 1 .. j - 1 : /\ i + 1 \in 1 .. (j + 1) - 1
                                  /\ Waiting(k)'[i] = Waiting(l)[i + 1]
        BY <1>1, <2>2, <3>1
      <3>3. /\ \A i \in 1 .. s : sentDown[i].msg.conn = Waiting(l)[j + 1].conn =>
                    sentDown[i].msg.whole
            /\ \A i \in 1 .. (j + 1) - 1 : Waiting(l)[i].conn = Waiting(l)[j + 1].conn =>
                    Waiting(l)[i].whole
        BY <3>1 DEF Cuts, CutWaitsLast
      <3>4. \A i \in 1 .. Len(sentDown') : i \in 1 .. s \/ i = s + 1
        BY <1>3
      <3>5. \A i \in 1 .. Len(sentDown') :
                sentDown'[i].msg.conn = Waiting(k)'[j].conn => sentDown'[i].msg.whole
        BY <1>3, <3>1, <3>3, <3>4
      <3> QED
        BY <3>1, <3>2, <3>3, <3>5
    <2> QED
      BY <2>1, <2>2
  <1>10. OnlyLastCut'
    <2> SUFFICES ASSUME NEW i \in 1 .. s + 1, NEW j \in 1 .. s + 1, i < j,
                        sentDown'[i].msg.conn = sentDown'[j].msg.conn,
                        ~adrift[sentDown'[i].msg.conn]
                 PROVE  sentDown'[i].msg.whole
      BY <1>1, <1>3 DEF OnlyLastCut
    <2>1. i \in 1 .. s /\ (j \in 1 .. s \/ j = s + 1)
      BY <1>3
    <2>2. CASE j \in 1 .. s
      BY <1>3, <2>1, <2>2 DEF Cuts, OnlyLastCut
    <2>3. CASE j = s + 1
      BY <1>3, <1>4, <2>1, <2>3 DEF Cuts, CutWaitsLast
    <2> QED
      BY <2>1, <2>2, <2>3
  <1> QED
    BY <1>6, <1>8, <1>9, <1>10 DEF Cuts

LEMMA CutsNext ==
    Typed /\ Descr /\ BufferInUse /\ Relays /\ Cuts /\ [Next]_vars => Cuts'
  <1> SUFFICES ASSUME Typed, Descr, BufferInUse, Relays, Cuts, [Next]_vars
               PROVE  Cuts'
    OBVIOUS
  <1>1. CASE PopAndSendDown
    <2>1. p_tcp_listener \in Listeners
      BY <1>1 DEF PopAndSendDown, Step, Typed, PointerInUse
    <2> QED
      BY <1>1, <2>1, CutsSendDown
  <1>2. CASE SimStep /\ ~PopAndSendDown
    BY <1>2, SimulatorQuiet, CutsQuiet
  <1>3. CASE Listening
    <2>1. PICK l \in Listeners : ListenerStep(l)
      BY <1>3 DEF Listening
    <2>2. UNCHANGED simVars
      BY <1>3 DEF Listening
    <2>3. CASE ReceiveMessage(l)
      <3>1. clnSockDescr[l] \in Conns
        BY <2>3 DEF ReceiveMessage, Goto, Typed, ServedDescriptor, ServingSteps
      <3> QED
        BY <2>2, <2>3, <3>1, CutsReceive
    <2>4. CASE Deliver(l)
      BY <2>2, <2>4, CutsDeliver
    <2>5. CASE ReadTorn(l)
      BY <2>2, <2>5, TornDescriptor, CutsReadTorn
    <2>6. CASE ~ReceiveMessage(l) /\ ~ReadTorn(l) /\ ~Deliver(l)
      BY <2>1, <2>2, <2>6, ListeningQuiet, CutsQuiet
    <2> QED
      BY <2>3, <2>4, <2>5, <2>6
  <1>4. CASE Clients
    <2>1. PICK c \in Conns : ClientStep(c)
      BY <1>4 DEF Clients
    <2>2. UNCHANGED <<listenerVars, simVars>>
      BY <1>4, <2>1 DEF Clients, ClientStep
    <2>3. CASE \E kind \in Kinds : Send(c, kind)
      BY <2>2, <2>3, CutsSend
    <2>6. CASE SendMisread(c)
      BY <2>2, <2>6, CutsMisread
    <2>4. CASE SendRest(c)
      BY <2>2, <2>4, CutsSendRest
    <2>5. CASE Connect(c) \/ Close(c) \/ Refuse(c) \/ Reset(c)
      BY <2>2, <2>5, ClientsQuiet, CutsQuiet
    <2> QED
      BY <2>1, <2>3, <2>4, <2>5, <2>6 DEF ClientStep
  <1>5. CASE UNCHANGED vars
    BY <1>5, CutsQuiet DEF vars, Quiet
  <1> QED
    BY <1>1, <1>2, <1>3, <1>4, <1>5 DEF Next

(* A message of which only a part was read (a read in ReceivePacket that   *)
(* gets less than the length announced) is the last of its client that     *)
(* goes down the stack as long as no bytes were taken for a begin tag or a *)
(* length that are none, for any number of clients, messages and restarts: *)
(* of what else the code does nothing sends another one after it.          *)
THEOREM CutIsLast == Spec => []OnlyLastCut
  <1>1. Init => Cuts
    BY CutsInit
  <1>2. Cuts => OnlyLastCut
    BY DEF Cuts
  <1> QED
    BY <1>1, <1>2, CutsNext, RelaysInvariant, DescrInvariant, PTL DEF Spec

--------------------------------------------------------------------------------
(* Nothing is lost while the client is served.                             *)

Waits(c, n) ==
    \E l \in Listeners : \E i \in 1 .. Len(Waiting(l)) :
        Waiting(l)[i].conn = c /\ Waiting(l)[i].seq = n

(* What was read and not sent down waits, until the connection is given up.*)
ReadWaits ==
    \A c \in Conns : conn[c] \notin {"shut", "closed"} =>
        \A n \in Done(c) + 1 .. ReadSoFar(c) : Waits(c, n)

LEMMA ReadWaitsInit == Init => ReadWaits
  <1> SUFFICES ASSUME Init, NEW c \in Conns
               PROVE  Done(c) + 1 .. ReadSoFar(c) = {}
    BY DEF ReadWaits
  <1>1. Len(inbound[c]) = 0 /\ sentItems[c] = 0 /\ Len(sentDown) = 0
    BY DEF Init, NetInit, SimInit
  <1>2. {i \in 1 .. Len(sentDown) : sentDown[i].msg.conn = c} = {}
    BY <1>1
  <1>3. Done(c) = 0 /\ ReadSoFar(c) = 0
    BY <1>1, <1>2, FS_EmptySet DEF Done, ReadSoFar
  <1> QED
    BY <1>3

(* A step that neither relays nor reads keeps what waits; it may take      *)
(* bytes out of the account, those that are no message.                    *)
LEMMA ReadWaitsKept ==
    ASSUME Typed, ReadWaits, UNCHANGED sentDown,
           \A l \in Listeners : Waiting(l)' = Waiting(l),
           \A c \in Conns : conn'[c] \notin {"shut", "closed"} =>
                /\ conn[c] \notin {"shut", "closed"}
                /\ ReadSoFar(c)' \in Int /\ ReadSoFar(c)' <= ReadSoFar(c)
    PROVE  ReadWaits'
  <1> SUFFICES ASSUME NEW c \in Conns, conn'[c] \notin {"shut", "closed"},
                      NEW n \in Done(c)' + 1 .. ReadSoFar(c)'
               PROVE  Waits(c, n)'
    BY DEF ReadWaits
  <1>1. Done(c)' = Done(c) /\ Done(c) \in Nat /\ ReadSoFar(c) \in Int
    BY DoneNatural, InboundType DEF Done
  <1>2. n \in Done(c) + 1 .. ReadSoFar(c)
    BY <1>1
  <1>3. Waits(c, n)
    BY <1>2 DEF ReadWaits
  <1> QED
    BY <1>3 DEF Waits

LEMMA ReadWaitsQuiet ==
    ASSUME Typed, ReadWaits, Quiet
    PROVE  ReadWaits'
  <1>1. \A l \in Listeners : Waiting(l)' = Waiting(l)
    BY DEF Quiet, Waiting
  <1>2. ASSUME NEW c \in Conns, conn'[c] \notin {"shut", "closed"}
        PROVE  /\ conn[c] \notin {"shut", "closed"}
               /\ ReadSoFar(c)' \in Int /\ ReadSoFar(c)' <= ReadSoFar(c)
    <2>1. conn[c] \notin {"shut", "closed"} /\ inbound'[c] = inbound[c]
      BY <1>2 DEF Quiet
    <2>2. ReadSoFar(c)' = ReadSoFar(c) /\ ReadSoFar(c) \in Int
      BY <2>1, InboundType DEF ReadSoFar, Quiet
    <2> QED
      BY <2>1, <2>2
  <1> QED
    BY <1>1, <1>2, ReadWaitsKept DEF Quiet

LEMMA ReadWaitsDeliver ==
    ASSUME Typed, ReadWaits, NEW l \in Listeners, Deliver(l), UNCHANGED simVars
    PROVE  ReadWaits'
  <1>1. /\ UNCHANGED <<sentDown, sentItems, inbound, conn>>
        /\ \A k \in Listeners \ {l} : /\ queuePckRead'[k] = queuePckRead[k]
                                      /\ buffer_msg'[k] = buffer_msg[k]
        /\ queuePckRead'[l] = queuePckRead[l] \o buffer_msg[l]
        /\ buffer_msg'[l] = <<>>
    BY DEF Deliver, Typed, TypeOK, ListenerTypeOK
  <1>2. Waiting(l)' = Waiting(l)
    <2>1. Waiting(l)' = Waiting(l) \o <<>>
      BY <1>1 DEF Waiting
    <2>2. Waiting(l) \in Seq(Message)
      BY WaitingType
    <2> QED
      BY <2>1, <2>2, ConcatEmptySeq
  <1>3. \A k \in Listeners : Waiting(k)' = Waiting(k)
    BY <1>1, <1>2 DEF Waiting
  <1>4. \A c \in Conns : ReadSoFar(c)' = ReadSoFar(c) /\ ReadSoFar(c) \in Int
    BY <1>1, InboundType DEF ReadSoFar
  <1> QED
    BY <1>1, <1>3, <1>4, ReadWaitsKept

LEMMA ReadWaitsSend ==
    ASSUME Typed, ReadWaits, NEW c \in Conns,
           SendRest(c) \/ \E kind \in Kinds : SendBytes(c, kind),
           UNCHANGED <<listenerVars, simVars>>
    PROVE  ReadWaits'
  <1>1. UNCHANGED <<sentDown, conn>> /\ \A l \in Listeners : Waiting(l)' = Waiting(l)
    BY DEF SendBytes, SendRest, Waiting
  <1>2. inbound[c] \in Seq(Item) /\ Len(inbound[c]) \in Nat /\ sentItems[c] \in Nat
    BY InboundType
  <1>3. ReadSoFar(c)' \in Int /\ ReadSoFar(c)' <= ReadSoFar(c)
    <2>1. CASE SendRest(c)
      <3> DEFINE n == Len(inbound[c])
      <3>1. /\ sentItems'[c] = sentItems[c]
            /\ n > 0 => \E kind \in {"frame", "bad"} :
                            inbound'[c] = [inbound[c] EXCEPT ![n].kind = kind]
            /\ n = 0 => inbound'[c] = <<[kind |-> "bad", seq |-> sentItems[c]]>>
        <4>1. sentItems' = sentItems
          BY <2>1 DEF SendRest
        <4> QED
          BY <2>1, <4>1, RestSent
      <3>2. CASE n > 0
        <4>1. PICK kind \in {"frame", "bad"} :
                inbound'[c] = [inbound[c] EXCEPT ![n] = [inbound[c][n] EXCEPT !.kind = kind]]
          BY <3>1, <3>2
        <4>2. Len(inbound'[c]) = n
          BY <1>2, <4>1
        <4> QED
          BY <1>2, <3>1, <4>2 DEF ReadSoFar
      <3>3. CASE n = 0
        <4>1. Len(inbound'[c]) = 1
          BY <3>1, <3>3
        <4> QED
          BY <1>2, <3>1, <3>3, <4>1 DEF ReadSoFar
      <3> QED
        BY <1>2, <3>2, <3>3
    <2>2. CASE \E kind \in Kinds : SendBytes(c, kind)
      <3>1. PICK item \in Item : inbound'[c] = Append(inbound[c], item)
        <4>1. PICK kind \in Kinds : SendBytes(c, kind)
          BY <2>2
        <4> DEFINE it == [kind |-> kind, seq |-> sentItems[c] + 1]
        <4>2. it \in Item
          BY <1>2 DEF Item
        <4>3. inbound'[c] = Append(inbound[c], it)
          BY <4>1 DEF SendBytes, Typed, TypeOK, NetTypeOK
        <4> QED
          BY <4>2, <4>3
      <3>2. Len(inbound'[c]) = Len(inbound[c]) + 1 /\ sentItems'[c] = sentItems[c] + 1
        BY <1>2, <2>2, <3>1, AppendProperties DEF SendBytes, Typed, TypeOK, NetTypeOK
      <3> QED
        BY <1>2, <3>2 DEF ReadSoFar
    <2> QED
      BY <2>1, <2>2
  <1>4. \A d \in Conns \ {c} : ReadSoFar(d)' = ReadSoFar(d) /\ ReadSoFar(d) \in Int
    BY InboundType DEF SendBytes, SendRest, ReadSoFar, Typed, TypeOK, NetTypeOK
  <1> QED
    BY <1>1, <1>3, <1>4, ReadWaitsKept

LEMMA ReadWaitsReadTorn ==
    ASSUME Typed, ReadWaits, NEW l \in Listeners, ReadTorn(l), UNCHANGED simVars,
           NEW c \in Conns, c = clnSockDescr[l]
    PROVE  ReadWaits'
  <1>1. /\ \A d \in Conns : Len(inbound'[d]) = Len(inbound[d])
        /\ UNCHANGED <<queuePckRead, buffer_msg, conn, sentItems>>
    BY TornRead
  <1>2. \A d \in Conns : ReadSoFar(d)' = ReadSoFar(d) /\ ReadSoFar(d) \in Int
    BY <1>1, InboundType DEF ReadSoFar
  <1> QED
    BY <1>1, <1>2, ReadWaitsKept DEF Waiting

(* The message that is read waits now.                                     *)
LEMMA ReadWaitsReceive ==
    ASSUME Typed, Descr, BufferInUse, Relays, ReadWaits, NEW l \in Listeners,
           ReceiveMessage(l), UNCHANGED simVars, NEW c \in Conns, c = clnSockDescr[l]
    PROVE  ReadWaits'
  <1>1. /\ ReadSoFar(c)' = ReadSoFar(c) + 1 /\ ReadSoFar(c) \in Int
        /\ \A d \in Conns \ {c} : inbound'[d] = inbound[d]
        /\ \A k \in Listeners \ {l} : Waiting(k)' = Waiting(k)
        /\ UNCHANGED <<conn, sentDown, sentItems>>
    BY ReceivedMessage, InboundType
  <1>2. PICK m \in Message : /\ m.conn = c /\ m.seq = ReadSoFar(c) + 1
                             /\ Waiting(l)' = Append(Waiting(l), m)
    BY ReceivedMessage
  <1>3. /\ Len(Waiting(l)) \in Nat /\ Len(Waiting(l)') = Len(Waiting(l)) + 1
        /\ \A i \in 1 .. Len(Waiting(l)) : Waiting(l)'[i] = Waiting(l)[i]
        /\ Waiting(l)'[Len(Waiting(l)) + 1] = m
    BY <1>2, WaitingType, AppendProperties
  <1>4. ASSUME NEW d \in Conns, NEW n, Waits(d, n)
        PROVE  Waits(d, n)'
    <2>1. PICK k \in Listeners : \E i \in 1 .. Len(Waiting(k)) :
            Waiting(k)[i].conn = d /\ Waiting(k)[i].seq = n
      BY <1>4 DEF Waits
    <2>2. PICK i \in 1 .. Len(Waiting(k)) : Waiting(k)[i].conn = d /\ Waiting(k)[i].seq = n
      BY <2>1
    <2>3. i \in 1 .. Len(Waiting(k)') /\ Waiting(k)'[i] = Waiting(k)[i]
      BY <1>1, <1>3
    <2> QED
      BY <2>2, <2>3 DEF Waits
  <1>5. ASSUME NEW n, n = ReadSoFar(c) + 1
        PROVE  Waits(c, n)'
    <2>1. Len(Waiting(l)) + 1 \in 1 .. Len(Waiting(l)')
      BY <1>3
    <2>2. \E i \in 1 .. Len(Waiting(l)') :
            Waiting(l)'[i].conn = c /\ Waiting(l)'[i].seq = n
      BY <1>2, <1>3, <1>5, <2>1
    <2> QED
      BY <2>2 DEF Waits
  <1> SUFFICES ASSUME NEW d \in Conns, conn[d] \notin {"shut", "closed"},
                      NEW n \in Done(d)' + 1 .. ReadSoFar(d)'
               PROVE  Waits(d, n)'
    BY <1>1 DEF ReadWaits
  <1>6. Done(d)' = Done(d) /\ Done(d) \in Nat /\ ReadSoFar(d) \in Int
    BY <1>1, DoneNatural, InboundType DEF Done
  <1>7. CASE d # c
    <2>1. ReadSoFar(d)' = ReadSoFar(d)
      BY <1>1, <1>7 DEF ReadSoFar
    <2>2. n \in Done(d) + 1 .. ReadSoFar(d)
      BY <1>6, <2>1
    <2> QED
      BY <1>4, <2>2 DEF ReadWaits
  <1>8. CASE d = c
    <2>1. n \in Done(d) + 1 .. ReadSoFar(d) \/ n = ReadSoFar(c) + 1
      BY <1>1, <1>6, <1>8
    <2>2. CASE n \in Done(d) + 1 .. ReadSoFar(d)
      BY <1>4, <2>2 DEF ReadWaits
    <2>3. CASE n = ReadSoFar(c) + 1
      BY <1>5, <1>8, <2>3
    <2> QED
      BY <2>1, <2>2, <2>3
  <1> QED
    BY <1>7, <1>8

(* The message that is sent down is the one that was next.                 *)
LEMMA ReadWaitsSendDown ==
    ASSUME Typed, Relays, ReadWaits, PopAndSendDown, NEW l \in Listeners,
           l = p_tcp_listener
    PROVE  ReadWaits'
  <1> DEFINE first == Waiting(l)[1]
  <1>1. /\ Len(Waiting(l)) \in Nat /\ Len(Waiting(l)) > 0
        /\ Len(Waiting(l)') = Len(Waiting(l)) - 1
        /\ \A i \in 1 .. Len(Waiting(l)') : Waiting(l)'[i] = Waiting(l)[i + 1]
        /\ \A k \in Listeners \ {l} : Waiting(k)' = Waiting(k)
        /\ UNCHANGED <<conn, inbound, sentItems>>
    BY SentMessage
  <1>2. first.conn \in Conns /\ first.seq = Done(first.conn) + 1
    BY <1>1, HeadIsNext
  <1>3. \A d \in Conns : Done(d)' = IF d = first.conn THEN Done(d) + 1 ELSE Done(d)
    <2>1. PICK p \in SentPacket : p.msg = first /\ sentDown' = Append(sentDown, p)
      BY SentMessage
    <2>2. sentDown \in Seq(SentPacket)
      BY DEF Typed, TypeOK, SimTypeOK
    <2> QED
      BY <2>1, <2>2, DoneAppend
  <1> HIDE DEF first
  <1> SUFFICES ASSUME NEW d \in Conns, conn[d] \notin {"shut", "closed"},
                      NEW n \in Done(d)' + 1 .. ReadSoFar(d)'
               PROVE  Waits(d, n)'
    BY <1>1 DEF ReadWaits
  <1>4. Done(d) \in Nat /\ ReadSoFar(d) \in Int /\ ReadSoFar(d)' = ReadSoFar(d)
    BY <1>1, DoneNatural, InboundType DEF ReadSoFar
  <1>5. n \in Done(d) + 1 .. ReadSoFar(d) /\ (d = first.conn => n # first.seq)
    BY <1>2, <1>3, <1>4
  <1>6. Waits(d, n)
    BY <1>5 DEF ReadWaits
  <1>7. PICK k \in Listeners : \E i \in 1 .. Len(Waiting(k)) :
            Waiting(k)[i].conn = d /\ Waiting(k)[i].seq = n
    BY <1>6 DEF Waits
  <1>8. PICK i \in 1 .. Len(Waiting(k)) : Waiting(k)[i].conn = d /\ Waiting(k)[i].seq = n
    BY <1>7
  <1>9. \E j \in 1 .. Len(Waiting(k)') : Waiting(k)'[j] = Waiting(k)[i]
    <2>1. CASE k # l
      BY <1>1, <2>1
    <2>2. CASE k = l
      <3>1. i # 1
        BY <1>5, <1>8, <2>2 DEF first
      <3>2. i - 1 \in 1 .. Len(Waiting(l)') /\ (i - 1) + 1 = i
        BY <1>1, <2>2, <3>1
      <3> QED
        BY <1>1, <2>2, <3>2
    <2> QED
      BY <2>1, <2>2
  <1> QED
    BY <1>8, <1>9 DEF Waits

LEMMA ReadWaitsNext ==
    Typed /\ Descr /\ BufferInUse /\ Relays /\ ReadWaits /\ [Next]_vars => ReadWaits'
  <1> SUFFICES ASSUME Typed, Descr, BufferInUse, Relays, ReadWaits, [Next]_vars
               PROVE  ReadWaits'
    OBVIOUS
  <1>1. CASE PopAndSendDown
    <2>1. p_tcp_listener \in Listeners
      BY <1>1 DEF PopAndSendDown, Step, Typed, PointerInUse
    <2> QED
      BY <1>1, <2>1, ReadWaitsSendDown
  <1>2. CASE SimStep /\ ~PopAndSendDown
    BY <1>2, SimulatorQuiet, ReadWaitsQuiet
  <1>3. CASE Listening
    <2>1. PICK l \in Listeners : ListenerStep(l)
      BY <1>3 DEF Listening
    <2>2. UNCHANGED simVars
      BY <1>3 DEF Listening
    <2>3. CASE ReceiveMessage(l)
      <3>1. clnSockDescr[l] \in Conns
        BY <2>3 DEF ReceiveMessage, Goto, Typed, ServedDescriptor, ServingSteps
      <3> QED
        BY <2>2, <2>3, <3>1, ReadWaitsReceive
    <2>4. CASE Deliver(l)
      BY <2>2, <2>4, ReadWaitsDeliver
    <2>5. CASE ReadTorn(l)
      BY <2>2, <2>5, TornDescriptor, ReadWaitsReadTorn
    <2>6. CASE ~ReceiveMessage(l) /\ ~ReadTorn(l) /\ ~Deliver(l)
      BY <2>1, <2>2, <2>6, ListeningQuiet, ReadWaitsQuiet
    <2> QED
      BY <2>3, <2>4, <2>5, <2>6
  <1>4. CASE Clients
    <2>1. PICK c \in Conns : ClientStep(c)
      BY <1>4 DEF Clients
    <2>2. UNCHANGED <<listenerVars, simVars>>
      BY <1>4, <2>1 DEF Clients, ClientStep
    <2>3. CASE SendRest(c) \/ SendMisread(c) \/ \E kind \in Kinds : Send(c, kind)
      <3>1. SendRest(c) \/ \E kind \in Kinds : SendBytes(c, kind)
        BY <2>3 DEF Send, SendMisread, Kinds
      <3> QED
        BY <2>2, <3>1, ReadWaitsSend
    <2>4. CASE Connect(c) \/ Close(c) \/ Refuse(c) \/ Reset(c)
      BY <2>2, <2>4, ClientsQuiet, ReadWaitsQuiet
    <2> QED
      BY <2>1, <2>3, <2>4 DEF ClientStep
  <1>5. CASE UNCHANGED vars
    BY <1>5, ReadWaitsQuiet DEF vars, Quiet
  <1> QED
    BY <1>1, <1>2, <1>3, <1>4, <1>5 DEF Next

(* Of s messages the last m are in a socket, the r before them were read.  *)
LEMMA PlaceInSocket ==
    ASSUME NEW s \in Nat, NEW m \in Nat, NEW r \in Int, r = s - m,
           NEW n \in Int, n > r, n <= s
    PROVE  n - r \in 1 .. m /\ r + (n - r) = n
  OBVIOUS

(* Nothing of a client is lost while it is served: each message it has     *)
(* begun to send was sent down, waits with its listener, or is still in    *)
(* its socket, for any number of clients, listeners and restarts.          *)
THEOREM ServedLosesNothing == Spec => []NothingLostWhileServed
  <1>1. ASSUME Typed, Relays, ReadWaits
        PROVE  NothingLostWhileServed
    <2> SUFFICES ASSUME NEW l \in Listeners, NEW c \in Conns, clnSockDescr[l] = c,
                        conn[c] = "up",
                        NEW n \in Abstract!RelayedOf(c) + 1 .. sentItems[c]
                 PROVE  \/ \E i \in 1 .. Len(queuePckRead[l]) :
                            queuePckRead[l][i].conn = c /\ queuePckRead[l][i].seq = n
                        \/ \E i \in 1 .. Len(buffer_msg[l]) :
                            buffer_msg[l][i].conn = c /\ buffer_msg[l][i].seq = n
                        \/ \E i \in 1 .. Len(inbound[c]) : inbound[c][i].seq = n
      BY DEF NothingLostWhileServed
    <2>1. /\ Abstract!RelayedOf(c) = Done(c) /\ Done(c) \in Nat
          /\ sentItems[c] \in Nat /\ Len(inbound[c]) \in Nat /\ ReadSoFar(c) \in Int
      BY <1>1, RelayedCount, DoneNatural, InboundType
    <2>2. CASE n > ReadSoFar(c)
      <3>1. /\ n - ReadSoFar(c) \in 1 .. Len(inbound[c])
            /\ ReadSoFar(c) + (n - ReadSoFar(c)) = n
        <4>1. ReadSoFar(c) = sentItems[c] - Len(inbound[c])
          BY DEF ReadSoFar
        <4>2. n \in Int /\ n <= sentItems[c]
          BY <2>1
        <4> QED
          BY <2>1, <2>2, <4>1, <4>2, PlaceInSocket
      <3> QED
        BY <1>1, <3>1 DEF Relays, InboundNumbered
    <2>3. CASE ~(n > ReadSoFar(c))
      <3>1. n \in Done(c) + 1 .. ReadSoFar(c)
        BY <2>1, <2>3
      <3>2. Waits(c, n)
        BY <1>1, <3>1 DEF ReadWaits
      <3>3. PICK k \in Listeners : \E i \in 1 .. Len(Waiting(k)) :
                Waiting(k)[i].conn = c /\ Waiting(k)[i].seq = n
        BY <3>2 DEF Waits
      <3>4. k = l
        BY <1>1, <3>3 DEF Relays, Owned
      <3>5. PICK i \in 1 .. Len(Waiting(l)) : Waiting(l)[i].conn = c /\ Waiting(l)[i].seq = n
        BY <3>3, <3>4
      <3> DEFINE q == queuePckRead[l]
                 b == buffer_msg[l]
      <3>6. q \in Seq(Message) /\ b \in Seq(Message) /\ Len(q) \in Nat /\ Len(b) \in Nat
        BY <1>1, WaitingType, LenProperties
      <3>7. Waiting(l) = q \o b
        BY DEF Waiting
      <3> HIDE DEF q, b
      <3>8. /\ i \in 1 .. Len(q) + Len(b)
            /\ (q \o b)[i] = IF i <= Len(q) THEN q[i] ELSE b[i - Len(q)]
        BY <3>6, <3>7, ConcatProperties
      <3>9. CASE i <= Len(q)
        <4>1. i \in 1 .. Len(q) /\ q[i].conn = c /\ q[i].seq = n
          BY <3>5, <3>6, <3>7, <3>8, <3>9
        <4> QED
          BY <4>1 DEF q
      <3>10. CASE ~(i <= Len(q))
        <4>1. i - Len(q) \in 1 .. Len(b) /\ b[i - Len(q)].conn = c /\ b[i - Len(q)].seq = n
          BY <3>5, <3>6, <3>7, <3>8, <3>10
        <4> QED
          BY <4>1 DEF b
      <3> QED
        BY <3>9, <3>10
    <2> QED
      BY <2>2, <2>3
  <1> QED
    BY <1>1, ReadWaitsInit, ReadWaitsNext, RelaysInvariant, DescrInvariant, PTL DEF Spec
================================================================================
