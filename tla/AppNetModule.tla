----------------------------- MODULE AppNetModule -----------------------------
(***************************************************************************)
(* The life cycle of one uwAppNetModule and its two threads: the simulator *)
(* thread (TCL commands start and stop, the period timer, packets from the *)
(* network) and the thread of each TcpListener it creates.                 *)
(*                                                                         *)
(* A handler of the simulator thread is one action where it touches        *)
(* nothing the listener's thread changes, and one action per access where  *)
(* it does: sim is the next access.                                        *)
(***************************************************************************)
EXTENDS TcpListener, FiniteSets

CONSTANTS
    StartAgain,         \* whether start may be called without a stop before
    MaxRecv,            \* bound: packets received from the network
    SNSpace             \* number of values of the sequence number field sn_

nullptr == "nullptr"

ASSUME ListenersAssumption == nullptr \notin Listeners \cup Conns
ASSUME BoundsAssumption == /\ StartAgain \in BOOLEAN
                           /\ MaxRecv \in Nat
                           /\ SNSpace \in Nat \ {0}

VARIABLES
    sim,                \* what the simulator thread does next
    p_tcp_listener,
    obj,                \* obj[l]: "unborn", "alive" or "deleted"
    timer,              \* chkTimerPeriod is pending
    txsn, uidcnt,
    sentDown,           \* history: the packets given to sendDown, in order
    received,           \* how many packets recv was called with
    blockedOn           \* the connection a write waits for, or nullptr

simVars == <<sim, p_tcp_listener, obj, timer, txsn, uidcnt, sentDown, received,
             blockedOn>>
vars == <<threadVars, listenerVars, ownerVars, netVars, simVars>>

Parts == {"magic", "size", "payload"}
SimSteps == {"idle", "pop", "join", "delete"} \cup Parts
SentPacket == [uid : Nat, sn : 0 .. SNSpace - 1, msg : Message]

SimTypeOK ==
    /\ sim \in SimSteps
    /\ p_tcp_listener \in Listeners \cup {nullptr}
    /\ obj \in [Listeners -> {"unborn", "alive", "deleted"}]
    /\ timer \in BOOLEAN
    /\ txsn \in Nat
    /\ uidcnt \in Nat
    /\ sentDown \in Seq(SentPacket)
    /\ received \in Nat
    /\ blockedOn \in Conns \cup {nullptr}

TypeOK == ThreadTypeOK /\ ListenerTypeOK /\ NetTypeOK /\ SimTypeOK

SimInit ==
    /\ sim = "idle"
    /\ p_tcp_listener = nullptr
    /\ obj = [l \in Listeners |-> "unborn"]
    /\ timer = FALSE
    /\ txsn = 1
    /\ uidcnt = 0
    /\ sentDown = <<>>
    /\ received = 0
    /\ blockedOn = nullptr

Init == ListenerInit /\ NetInit /\ SimInit

Step(from, to) ==
    /\ sim = from
    /\ sim' = to

--------------------------------------------------------------------------------
(* The TCL command start: the new listener replaces p_tcp_listener, then   *)
(* Setup, resched and Start, whose result nobody looks at.                 *)

New(l) ==
    /\ Step("idle", "idle")
    /\ p_tcp_listener = nullptr \/ StartAgain
    /\ obj[l] = "unborn"
    /\ obj' = [obj EXCEPT ![l] = "alive"]
    /\ p_tcp_listener' = l

PortTaken == \E k \in Listeners : servSockDescr[k] = "listening"

SetupUnscheduled(l) ==          \* variant: start without resched
    /\ ~PortTaken
    /\ m_SocketSetUp' = [m_SocketSetUp EXCEPT ![l] = TRUE]
    /\ servSockDescr' = [servSockDescr EXCEPT ![l] = "listening"]
    /\ UNCHANGED timer

Setup(l) ==
    /\ ~PortTaken
    /\ m_SocketSetUp' = [m_SocketSetUp EXCEPT ![l] = TRUE]
    /\ servSockDescr' = [servSockDescr EXCEPT ![l] = "listening"]
    /\ timer' = TRUE

StartListener(l) ==
    /\ New(l)
    /\ Setup(l)
    /\ ThreadStart(l)
    /\ pc' = [pc EXCEPT ![l] = "begin"]
    /\ UNCHANGED <<clnSockDescr, m_ReadTimeout, buffer_msg, queuePckRead,
                   ownerVars, netVars, txsn, uidcnt, sentDown, received, blockedOn>>

StartWithoutThread(l) ==
    /\ "thread" \in Faults
    /\ New(l)
    /\ Setup(l)
    /\ UNCHANGED <<threadVars, pc, clnSockDescr, m_ReadTimeout, buffer_msg,
                   queuePckRead, ownerVars, netVars, txsn, uidcnt, sentDown,
                   received, blockedOn>>

(* Setup fails after socket(): the descriptor stays with the object and    *)
(* the object stays in p_tcp_listener; the timer is not touched.           *)
StartFails(l) ==
    /\ PortTaken \/ "setup" \in Faults
    /\ New(l)
    /\ servSockDescr' = [servSockDescr EXCEPT ![l] = "open"]
    /\ UNCHANGED <<threadVars, pc, m_SocketSetUp, clnSockDescr, m_ReadTimeout,
                   buffer_msg, queuePckRead, ownerVars, netVars, timer, txsn,
                   uidcnt, sentDown, received, blockedOn>>

--------------------------------------------------------------------------------
(* The timer: uwSendTimerAppl::expire calls init_Packet_TCP, which looks   *)
(* at the queue without the lock and then pops it, and reschedules itself. *)

ExpireUnchecked ==              \* variant: no look at the queue
    /\ timer
    /\ p_tcp_listener # nullptr
    /\ Step("idle", "pop")
    /\ UNCHANGED <<threadVars, listenerVars, ownerVars, netVars, p_tcp_listener,
                   obj, timer, txsn, uidcnt, sentDown, received, blockedOn>>

ExpireLeavesOne ==              \* variant: size() > 1 for !empty()
    /\ timer
    /\ p_tcp_listener # nullptr
    /\ Len(queuePckRead[p_tcp_listener]) > 1
    /\ Step("idle", "pop")
    /\ UNCHANGED <<threadVars, listenerVars, ownerVars, netVars, p_tcp_listener,
                   obj, timer, txsn, uidcnt, sentDown, received, blockedOn>>

Expire ==
    /\ timer
    /\ p_tcp_listener # nullptr
    /\ queuePckRead[p_tcp_listener] # <<>>
    /\ Step("idle", "pop")
    /\ UNCHANGED <<threadVars, listenerVars, ownerVars, netVars, p_tcp_listener,
                   obj, timer, txsn, uidcnt, sentDown, received, blockedOn>>

(* An expiry that finds no listener or an empty queue only reschedules.    *)
ExpireEmpty ==
    /\ timer
    /\ p_tcp_listener # nullptr => queuePckRead[p_tcp_listener] = <<>>
    /\ Step("idle", "idle")
    /\ UNCHANGED vars

WidePacket(q) ==                \* variant: sn_ is not narrowed
    [uid |-> uidcnt + 1, sn |-> txsn + 1, msg |-> Head(q)]

PacketCountedLate(q) ==         \* variant: the counters before incrementing
    [uid |-> uidcnt, sn |-> txsn % SNSpace, msg |-> Head(q)]

PacketFromBack(q) ==            \* variant: back() in place of front()
    [uid |-> uidcnt + 1, sn |-> (txsn + 1) % SNSpace, msg |-> q[Len(q)]]

(* The packet made of the front of the queue.  incrUidCnt and incrPktSent  *)
(* return the incremented counter; sn_ keeps its low bits.                 *)
NextPacket(q) ==
    [uid |-> uidcnt + 1, sn |-> (txsn + 1) % SNSpace, msg |-> Head(q)]

PopAndSendDown ==
    LET l == p_tcp_listener IN
    /\ Step("pop", "idle")
    /\ queuePckRead' = [queuePckRead EXCEPT ![l] = Tail(@)]
    /\ uidcnt' = uidcnt + 1
    /\ txsn' = txsn + 1
    /\ sentDown' = Append(sentDown, NextPacket(queuePckRead[l]))
    /\ UNCHANGED <<threadVars, pc, m_SocketSetUp, servSockDescr, clnSockDescr,
                   m_ReadTimeout, buffer_msg, ownerVars, netVars,
                   p_tcp_listener, obj, timer, received, blockedOn>>

--------------------------------------------------------------------------------
(* recv for a packet that statistics does not drop: send_data reads        *)
(* clnSockDescr once to see whether there is a client and again for each   *)
(* of the three writes of a frame.                                         *)

Recv ==
    /\ received < MaxRecv
    /\ received' = received + 1
    /\ Step("idle", IF p_tcp_listener # nullptr /\ clnSockDescr[p_tcp_listener] # "0"
                    THEN "magic" ELSE "idle")
    /\ UNCHANGED <<threadVars, listenerVars, ownerVars, netVars, p_tcp_listener,
                   obj, timer, txsn, uidcnt, sentDown, blockedOn>>

NextPartSwapped(part) ==        \* variant: the data before its size
    CASE part = "magic" -> "payload"
      [] part = "payload" -> "size"
      [] part = "size" -> "idle"

NextPart(part) ==
    CASE part = "magic" -> "size"
      [] part = "size" -> "payload"
      [] part = "payload" -> "idle"

(* A write succeeds on an open connection, also when the client has closed *)
(* and its host has not refused anything yet.  Descriptor 0 is what the    *)
(* process has there, its standard input, where a write may succeed too.   *)
Writable(d) == d \in Conns /\ conn[d] = "up" /\ peer[d] \in {"up", "closed"}

WritePart(part, d) ==
    /\ Step(part, NextPart(part))
    /\ Writable(d)
    /\ outbound' = [outbound EXCEPT ![d] = Append(@, part)]
    /\ blockedOn' = nullptr
    /\ UNCHANGED <<threadVars, listenerVars, ownerVars, conn, clientVars,
                   inbound, p_tcp_listener, obj, timer, txsn, uidcnt, sentDown,
                   received>>

Write(part) ==
    /\ blockedOn = nullptr
    /\ WritePart(part, clnSockDescr[p_tcp_listener])

(* The socket blocks: if the client has left so much unread that there is  *)
(* no room, write waits, and with it the simulator.  How much that is is   *)
(* left open.  The write stays with the connection it was called for.      *)
WriteWaits(part) ==
    /\ blockedOn = nullptr
    /\ sim = part
    /\ Writable(clnSockDescr[p_tcp_listener])
    /\ blockedOn' = clnSockDescr[p_tcp_listener]
    /\ UNCHANGED <<threadVars, listenerVars, ownerVars, netVars, sim,
                   p_tcp_listener, obj, timer, txsn, uidcnt, sentDown, received>>

(* The client reads, which makes room.                                     *)
WriteGoesOn(part) ==
    /\ blockedOn # nullptr
    /\ peer[blockedOn] = "up"
    /\ WritePart(part, blockedOn)

WriteElsewhere(part) ==
    /\ Step(part, NextPart(part))
    /\ blockedOn = nullptr
    /\ clnSockDescr[p_tcp_listener] = "0"
    /\ UNCHANGED <<threadVars, listenerVars, ownerVars, netVars, p_tcp_listener,
                   obj, timer, txsn, uidcnt, sentDown, received, blockedOn>>

WriteFails(part) ==
    /\ Step(part, "idle")
    /\ ~Writable(IF blockedOn = nullptr THEN clnSockDescr[p_tcp_listener]
                 ELSE blockedOn)
    /\ blockedOn' = nullptr
    /\ UNCHANGED <<threadVars, listenerVars, ownerVars, netVars, p_tcp_listener,
                   obj, timer, txsn, uidcnt, sentDown, received>>

--------------------------------------------------------------------------------
(* stop, called by the TCL command and by the destructor of the module.    *)

StopBegin ==
    LET l == p_tcp_listener IN
    /\ timer' = FALSE
    /\ IF l = nullptr
       THEN /\ Step("idle", "idle")
            /\ UNCHANGED threadVars
       ELSE IF Running(l)
       THEN /\ Step("idle", "join")
            /\ ThreadStop(l)
       ELSE /\ Step("idle", "delete")
            /\ UNCHANGED threadVars
    /\ UNCHANGED <<listenerVars, ownerVars, netVars, p_tcp_listener, obj, txsn,
                   uidcnt, sentDown, received, blockedOn>>

StopJoin ==
    /\ Step("join", "delete")
    /\ ThreadJoin(p_tcp_listener)
    /\ UNCHANGED <<listenerVars, ownerVars, netVars, p_tcp_listener, obj, timer,
                   txsn, uidcnt, sentDown, received, blockedOn>>

LeaveServerOpen(l) == UNCHANGED <<servSockDescr, netVars>>  \* variant: no close

(* ~TcpListener closes the server socket unless the thread has done so.    *)
CloseServer(l) ==
    /\ servSockDescr' = [servSockDescr EXCEPT ![l] = "0"]
    /\ IF servSockDescr[l] = "listening" THEN DropBacklog ELSE UNCHANGED netVars

(* delete: after ~TcpListener the destructor of a std::thread that is      *)
(* still joinable calls std::terminate.                                    *)
StopDelete ==
    LET l == p_tcp_listener IN
    /\ Step("delete", "idle")
    /\ obj' = [obj EXCEPT ![l] = "deleted"]
    /\ p_tcp_listener' = nullptr
    /\ process' = IF Joinable(l) THEN "terminated" ELSE process
    /\ CloseServer(l)
    /\ UNCHANGED <<threadVars, pc, m_SocketSetUp, clnSockDescr, m_ReadTimeout,
                   buffer_msg, queuePckRead, pkts_push_queue, timer, txsn,
                   uidcnt, sentDown, received, blockedOn>>

--------------------------------------------------------------------------------
SimStep ==
    \/ \E l \in Listeners :
        StartListener(l) \/ StartWithoutThread(l) \/ StartFails(l)
    \/ Expire \/ ExpireEmpty \/ PopAndSendDown
    \/ Recv
    \/ \E part \in Parts :
        Write(part) \/ WriteWaits(part) \/ WriteGoesOn(part)
            \/ WriteElsewhere(part) \/ WriteFails(part)
    \/ StopBegin \/ StopJoin \/ StopDelete

Listening == (\E l \in Listeners : ListenerStep(l)) /\ UNCHANGED simVars

Clients == (\E c \in Conns : ClientStep(c)) /\ UNCHANGED simVars

(* Once the process is gone nothing happens any more.                      *)
Next == process = "up" /\ (SimStep \/ Listening \/ Clients)

Spec == Init /\ [][Next]_vars

(* The scheduler of the operating system runs the listener's thread, the   *)
(* simulator goes on with a handler it has begun and dispatches the        *)
(* periodic timer (the other events of an instance are bounded).  Nothing  *)
(* makes a client connect, send, complete a message, read or close, and    *)
(* nothing makes a script call start or stop.                              *)
Fairness ==
    /\ \A l \in Listeners :
        WF_vars(process = "up" /\ ListenerStep(l) /\ UNCHANGED simVars)
    /\ WF_vars(process = "up" /\ Expire)
    /\ WF_vars(process = "up" /\ PopAndSendDown)
    /\ WF_vars(process = "up" /\ \E part \in Parts :
                    Write(part) \/ WriteWaits(part) \/ WriteElsewhere(part)
                        \/ WriteFails(part))
    /\ WF_vars(process = "up" /\ StopJoin)
    /\ WF_vars(process = "up" /\ StopDelete)

FairSpec == Spec /\ Fairness

--------------------------------------------------------------------------------
(* Safety                                                                  *)

(* The packet init_Packet_TCP pops is there: its look at queuePckRead      *)
(* without m_Mutex is still true when it locks and pops, whatever the      *)
(* listener's thread pushed meanwhile, and the listener still exists.      *)
PopFromNonEmpty ==
    sim = "pop" => /\ p_tcp_listener # nullptr
                   /\ obj[p_tcp_listener] = "alive"
                   /\ queuePckRead[p_tcp_listener] # <<>>

(* The counters agree with what was really sent down: getPktSent is the    *)
(* number of packets given to sendDown, their identifiers are distinct and *)
(* their sequence numbers follow each other from 2 on (incrPktSent,        *)
(* incrUidCnt), over every restart of the listener.                        *)
SentPacketsCounted ==
    /\ txsn - 1 = Len(sentDown) /\ uidcnt = Len(sentDown)
    /\ \A i \in 1 .. Len(sentDown) :
        sentDown[i].uid = i /\ sentDown[i].sn = (i + 1) % SNSpace

(* The places taken in the queues of all listeners.                        *)
Queued == UNION {{l} \X DOMAIN queuePckRead[l] : l \in Listeners}

(* No message is lost or doubled between push and sendDown: what           *)
(* incrPktsPushQueue counted was sent down or is still in a queue, the     *)
(* queue of a deleted listener included.                                   *)
PushedMessagesAccounted ==
    pkts_push_queue = Len(sentDown) + Cardinality(Queued)

(* A client that hears a frame hears its parts in order and whole: between *)
(* the parts of a frame send_data puts nothing else into a connection,     *)
(* though the two threads share clnSockDescr without a lock.  What it does *)
(* not promise is that the first part a client hears is the begin tag, see *)
(* FramesBeginWithTag.                                                     *)
FramesUninterrupted ==
    \A c \in Conns : \A i \in 1 .. Len(outbound[c]) - 1 :
        outbound[c][i + 1] = [magic |-> "size", size |-> "payload",
                              payload |-> "magic"][outbound[c][i]]

(* Every connection the program holds open is served by one running thread *)
(* of a listener that exists, which will close it: none is leaked, by      *)
(* stops, restarts and failing starts in any order.                        *)
OpenConnectionServed ==
    process = "up" =>
        \A c \in Conns : conn[c] \in {"up", "shut"} =>
            \E l \in Listeners :
                /\ clnSockDescr[l] = c
                /\ m_thread[l] = "active" /\ obj[l] = "alive"
                /\ \A k \in Listeners \ {l} : clnSockDescr[k] # c

(* A deleted listener leaves nothing behind: no thread, no server socket,  *)
(* no client.  When stop has returned the timer is off too and, if start   *)
(* and stop are called in turns, the module is as before start.  (Or the   *)
(* whole process is gone.)                                                 *)
StopIsComplete ==
    process = "up" =>
        /\ \A l \in Listeners : obj[l] = "deleted" =>
            /\ m_thread[l] = "none" /\ ~m_running[l]
            /\ servSockDescr[l] = "0" /\ clnSockDescr[l] \notin Conns
        /\ sim = "idle" /\ p_tcp_listener = nullptr =>
            /\ ~timer
            /\ ~StartAgain => \A l \in Listeners : obj[l] # "alive"

(* The members of listener l and the place of its thread.                  *)
OfListener(l) ==
    <<m_running[l], m_stop[l], m_thread[l], pc[l], m_SocketSetUp[l], servSockDescr[l],
      clnSockDescr[l], m_ReadTimeout[l], buffer_msg[l], queuePckRead[l]>>

(* No thread uses a listener after stop has deleted it: nothing of the     *)
(* object is written any more, its own thread takes no step, and the       *)
(* simulator has no pointer to it.  Where stop does not wait, since        *)
(* m_running is not yet or no longer set, delete ends the process instead. *)
NoUseAfterDelete ==
    [][\A l \in Listeners : obj[l] = "deleted" =>
            p_tcp_listener # l /\ UNCHANGED OfListener(l)]_vars

(* How many steps the thread is from its end once it was asked to stop.    *)
StepsToEnd(place) ==
    CASE place = "none" -> 0
      [] place = "return" -> 1
      [] place = "leave" -> 2
      [] place = "test" -> 3
      [] place = "zero" -> 4
      [] place = "close" -> 5
      [] place = "serve" -> 6
      [] place \in {"deliver", "overrun"} -> 7
      [] place = "receive" -> 8
      [] place = "select" -> 9
      [] place = "accept" -> 10
      [] place = "begin" -> 11

(* A thread that was asked to stop goes straight to its end: every step it *)
(* takes brings it nearer, so that it accepts at most one more client and  *)
(* reads at most one more message, whatever the clients send meanwhile.    *)
StopGoesStraight ==
    [][\A l \in Listeners : m_stop[l] /\ pc'[l] # pc[l] =>
            StepsToEnd(pc'[l]) < StepsToEnd(pc[l])]_vars

(* A message in the queue of the listener in use finds the timer running:  *)
(* neither a start that fails, before or after another one, nor a stop     *)
(* leaves it where nothing will take it, until stop is under way.          *)
QueuedHasTimer ==
    p_tcp_listener # nullptr /\ queuePckRead[p_tcp_listener] # <<>> =>
        timer \/ sim \in {"join", "delete"}

(* A message of which only a part was read is the last of its client that  *)
(* goes down the stack, whatever the client sends after it, unless bytes   *)
(* were misread: the code tells the late rest of a message from the next   *)
(* one only by its not beginning with the begin tag.                       *)
OnlyLastCut ==
    \A i, j \in 1 .. Len(sentDown) :
        /\ i < j /\ sentDown[i].msg.conn = sentDown[j].msg.conn
        /\ ~adrift[sentDown[i].msg.conn]
        => sentDown[i].msg.whole

--------------------------------------------------------------------------------
(* Refinement: the module relays the messages it finds in the bytes of     *)
(* each client in order, once, without a gap, whatever the interleaving of *)
(* pushes, pops, stops, restarts and clients.                              *)
Relayed == [i \in DOMAIN sentDown |->
                [conn |-> sentDown[i].msg.conn, seq |-> sentDown[i].msg.seq]]

Abstract == INSTANCE MessageRelay WITH submitted <- sentItems, relayed <- Relayed

ImplementsRelay == Abstract!RelaySpec

(* What the order leaves open is what may be lost: nothing of a client     *)
(* that is served.  Each message it has begun to send was sent down, waits *)
(* with the listener that serves it, or is still in its socket.            *)
NothingLostWhileServed ==
    \A l \in Listeners : \A c \in Conns :
        clnSockDescr[l] = c /\ conn[c] = "up" =>
            \A n \in Abstract!RelayedOf(c) + 1 .. sentItems[c] :
                \/ \E i \in 1 .. Len(queuePckRead[l]) :
                    queuePckRead[l][i].conn = c /\ queuePckRead[l][i].seq = n
                \/ \E i \in 1 .. Len(buffer_msg[l]) :
                    buffer_msg[l][i].conn = c /\ buffer_msg[l][i].seq = n
                \/ \E i \in 1 .. Len(inbound[c]) : inbound[c][i].seq = n

--------------------------------------------------------------------------------
(* Liveness, under FairSpec                                                *)

(* The thread waits in a system call that only a client can end: accept,   *)
(* or a read of a header field or of data of which nothing has come.       *)
WaitsForClient(l) ==
    \/ pc[l] = "accept" /\ \A c \in Conns : conn[c] # "backlog"
    \/ /\ pc[l] = "receive"
       /\ Front(clnSockDescr[l]) = "head" /\ peer[clnSockDescr[l]] = "up"

(* stop returns, unless clients leave the listener's thread for ever where *)
(* it waits for one to connect or to go on: from every other place it      *)
(* comes back to a test of StopRequested, leaves Run and can be joined.    *)
StopReturnsWhileServing ==
    sim = "join" ~> \/ sim = "idle" /\ p_tcp_listener = nullptr
                    \/ []WaitsForClient(p_tcp_listener)

(* A message in the queue of the listener in use is sent down, unless stop *)
(* is called or a client that does not read holds the simulator in a write *)
(* for ever: the timer runs from a start that succeeds to the next stop,   *)
(* and it takes a message each time.                                       *)
QueuedIsSent ==
    \A l \in Listeners : \A c \in Conns : \A n \in 1 .. MaxItems :
        (timer /\ p_tcp_listener = l /\ \E i \in 1 .. Len(queuePckRead[l]) :
                queuePckRead[l][i].conn = c /\ queuePckRead[l][i].seq = n)
            ~> (\/ ~timer \/ p_tcp_listener # l
                \/ \E i \in 1 .. Len(sentDown) :
                    sentDown[i].msg.conn = c /\ sentDown[i].msg.seq = n
                \/ [](blockedOn # nullptr))

(* A client that has left does not keep the listener: its connection is    *)
(* closed, so that the next one can be accepted (or the process is gone).  *)
ClosedClientReleased ==
    \A c \in Conns :
        (conn[c] = "up" /\ peer[c] \in {"closed", "gone"}) 
            ~> (conn[c] = "closed" \/ process # "up")

--------------------------------------------------------------------------------
(* What the code says of itself and does not do: each of these is violated *)

(* Running() "returns the current state of the thread": when stop has      *)
(* asked it and goes on to delete the listener, no thread is left that     *)
(* somebody must join.                                                     *)
JoinedBeforeDelete == sim = "delete" => ~Joinable(p_tcp_listener)

(* stop closes the connection and returns.                                 *)
StopReturns == sim = "join" ~> sim # "join"

(* Every client hears frames: the first part it gets is the begin tag.     *)
FramesBeginWithTag ==
    \A c \in Conns : outbound[c] # <<>> => outbound[c][1] = "magic"

(* HandleTCPclient copes with every result of ReceivePacket.               *)
ReadErrorsHandled == process # "crashed"

(* What goes down the stack as one packet is one message of a client.      *)
RelayedWhole == \A i \in 1 .. Len(sentDown) : sentDown[i].msg.whole
================================================================================
