------------------------------ MODULE TcpListener ------------------------------
(***************************************************************************)
(* The listener of tcp_listener.h.  Its thread accepts one client at a     *)
(* time, reads framed messages and pushes them to queuePckRead; the        *)
(* simulator thread pops that queue (init_Packet_TCP) and writes received  *)
(* packets to the client (send_data), see AppNetModule.  Both threads use  *)
(* clnSockDescr, which no lock protects.                                   *)
(*                                                                         *)
(* A connection is an element of Conns and stands for its descriptor.      *)
(* inbound[c] is what the client sent and the listener has not read:       *)
(*   "frame"  a whole message: begin tag, length and that many bytes       *)
(*   "head"   the begin of a message, cut at the end of a header field     *)
(*   "torn"   the begin of a message, cut inside of a header field         *)
(*   "short"  a message whose data is only partly there                    *)
(*   "bad"    bytes ReceivePacket answers with 0: another begin tag, a     *)
(*            length above the buffer, an empty message                    *)
(* "head", "torn" and "short" can only be the last item: the client owes   *)
(* the rest.  The messages of a client are those the listener finds in its *)
(* bytes, numbered in their order; they are what the client meant unless   *)
(* bytes were misread, and then the connection is adrift from there on.    *)
(***************************************************************************)
EXTENDS StoppableThread, Integers, Sequences

CONSTANTS
    Conns,              \* the connections clients may open
    Faults,             \* which of AllFaults the environment may cause
    MaxItems            \* bound: messages a client sends on a connection

AllFaults == {"setup", "thread", "accept", "select", "reset"}

ASSUME ConnsAssumption == Conns \cap {"0", "-1"} = {}
ASSUME FaultsAssumption == Faults \subseteq AllFaults
ASSUME MaxItemsAssumption == MaxItems \in Nat

VARIABLES
    pc,                 \* pc[l]: where the listener's thread is
    m_SocketSetUp,      \* m_SocketSetUp[l]: Setup succeeded
    servSockDescr,      \* "0", "open" (not listening) or "listening"
    clnSockDescr,       \* "0", "-1" or the connection
    m_ReadTimeout,      \* what is left of the timeout: 1 (all of it) or 0
    buffer_msg,         \* the message read and not yet queued, or <<>>
    queuePckRead,       \* messages for the simulator thread
    pkts_push_queue,    \* the owner's counter of pushed messages
    process             \* "up", "terminated" (std::terminate), "crashed"

VARIABLES               \* the clients and their connections
    conn,               \* the listener's end of a connection
    peer,               \* the client's end
    inbound,            \* client to listener, see above
    outbound,           \* listener to client: the parts of frames written
    sentItems,          \* how many messages the client has begun to send
    owes,               \* the client has still to send the rest of a message
    adrift              \* other bytes were taken for a begin tag or a length

listenerVars == <<pc, m_SocketSetUp, servSockDescr, clnSockDescr,
                  m_ReadTimeout, buffer_msg, queuePckRead>>
ownerVars == <<pkts_push_queue, process>>
clientVars == <<peer, sentItems, owes, adrift>>
netVars == <<conn, peer, inbound, outbound, sentItems, owes, adrift>>

Descriptors == Conns \cup {"0", "-1"}
Message == [conn : Conns, seq : Nat, whole : BOOLEAN]
Kinds == {"frame", "head", "torn", "short", "bad"}
Item == [kind : Kinds, seq : Nat]
Steps == {"none", "begin", "test", "accept", "serve", "select", "receive",
          "deliver", "overrun", "close", "zero", "leave", "return"}

ListenerTypeOK ==
    /\ pc \in [Listeners -> Steps]
    /\ m_SocketSetUp \in [Listeners -> BOOLEAN]
    /\ servSockDescr \in [Listeners -> {"0", "open", "listening"}]
    /\ clnSockDescr \in [Listeners -> Descriptors]
    /\ m_ReadTimeout \in [Listeners -> {0, 1}]
    /\ buffer_msg \in [Listeners -> Seq(Message)]
    /\ queuePckRead \in [Listeners -> Seq(Message)]
    /\ pkts_push_queue \in Nat
    /\ process \in {"up", "terminated", "crashed"}

NetTypeOK ==
    /\ conn \in [Conns -> {"unused", "backlog", "up", "shut", "closed"}]
    /\ peer \in [Conns -> {"absent", "up", "closed", "gone", "reset"}]
    /\ inbound \in [Conns -> Seq(Item)]
    /\ outbound \in [Conns -> Seq({"magic", "size", "payload"})]
    /\ sentItems \in [Conns -> Nat]
    /\ owes \in [Conns -> BOOLEAN]
    /\ adrift \in [Conns -> BOOLEAN]

ListenerInit ==
    /\ ThreadInit
    /\ pc = [l \in Listeners |-> "none"]
    /\ m_SocketSetUp = [l \in Listeners |-> FALSE]
    /\ servSockDescr = [l \in Listeners |-> "0"]
    /\ clnSockDescr = [l \in Listeners |-> "0"]
    /\ m_ReadTimeout = [l \in Listeners |-> 1]
    /\ buffer_msg = [l \in Listeners |-> <<>>]
    /\ queuePckRead = [l \in Listeners |-> <<>>]
    /\ pkts_push_queue = 0
    /\ process = "up"

NetInit ==
    /\ conn = [c \in Conns |-> "unused"]
    /\ peer = [c \in Conns |-> "absent"]
    /\ inbound = [c \in Conns |-> <<>>]
    /\ outbound = [c \in Conns |-> <<>>]
    /\ sentItems = [c \in Conns |-> 0]
    /\ owes = [c \in Conns |-> FALSE]
    /\ adrift = [c \in Conns |-> FALSE]

--------------------------------------------------------------------------------
(* The listener's thread: RunInternal and Run.                             *)

Goto(l, from, to) ==
    /\ pc[l] = from
    /\ pc' = [pc EXCEPT ![l] = to]

Begin(l) ==
    /\ Goto(l, "begin", IF m_SocketSetUp[l] THEN "test" ELSE "return")
    /\ RunInternalBegin(l)
    /\ UNCHANGED <<m_SocketSetUp, servSockDescr, clnSockDescr, m_ReadTimeout,
                   buffer_msg, queuePckRead, ownerVars, netVars>>

(* The loop condition of Run.                                              *)
LoopTest(l) ==
    /\ Goto(l, "test", IF StopRequested(l) THEN "leave" ELSE "accept")
    /\ UNCHANGED <<threadVars, m_SocketSetUp, servSockDescr, clnSockDescr,
                   m_ReadTimeout, buffer_msg, queuePckRead, ownerVars, netVars>>

(* accept returns when a client is in the backlog; it has no timeout.      *)
Accept(l) ==
    /\ Goto(l, "accept", "serve")
    /\ \E c \in Conns :
        /\ conn[c] = "backlog"
        /\ conn' = [conn EXCEPT ![c] = "up"]
        /\ clnSockDescr' = [clnSockDescr EXCEPT ![l] = c]
    /\ UNCHANGED <<threadVars, m_SocketSetUp, servSockDescr, m_ReadTimeout,
                   buffer_msg, queuePckRead, ownerVars, clientVars, inbound,
                   outbound>>

AcceptFails(l) ==
    /\ "accept" \in Faults
    /\ Goto(l, "accept", "leave")
    /\ clnSockDescr' = [clnSockDescr EXCEPT ![l] = "-1"]
    /\ UNCHANGED <<threadVars, m_SocketSetUp, servSockDescr, m_ReadTimeout,
                   buffer_msg, queuePckRead, ownerVars, netVars>>

ServeForever(l) ==              \* variant: no test of StopRequested
    /\ Goto(l, "serve", "select")
    /\ UNCHANGED <<threadVars, m_SocketSetUp, servSockDescr, clnSockDescr,
                   m_ReadTimeout, buffer_msg, queuePckRead, ownerVars, netVars>>

(* The loop condition of HandleTCPclient.                                  *)
ClientTest(l) ==
    /\ Goto(l, "serve", IF StopRequested(l) THEN "close" ELSE "select")
    /\ UNCHANGED <<threadVars, m_SocketSetUp, servSockDescr, clnSockDescr,
                   m_ReadTimeout, buffer_msg, queuePckRead, ownerVars, netVars>>

Readable(c) == inbound[c] # <<>> \/ peer[c] # "up"

(* ReadyToRead: select writes the time that is left back to the timeout it *)
(* was given, the member m_ReadTimeout.                                    *)
SelectReady(l) ==
    /\ Goto(l, "select", "receive")
    /\ Readable(clnSockDescr[l])
    /\ \E left \in 0 .. m_ReadTimeout[l] :
        m_ReadTimeout' = [m_ReadTimeout EXCEPT ![l] = left]
    /\ UNCHANGED <<threadVars, m_SocketSetUp, servSockDescr, clnSockDescr,
                   buffer_msg, queuePckRead, ownerVars, netVars>>

SelectTimeout(l) ==
    /\ Goto(l, "select", "serve")
    /\ ~Readable(clnSockDescr[l])
    /\ m_ReadTimeout' = [m_ReadTimeout EXCEPT ![l] = 0]
    /\ UNCHANGED <<threadVars, m_SocketSetUp, servSockDescr, clnSockDescr,
                   buffer_msg, queuePckRead, ownerVars, netVars>>

(* select fails: the loop goes round, though there may be bytes to read.   *)
SelectFails(l) ==
    /\ "select" \in Faults
    /\ Goto(l, "select", "serve")
    /\ \E left \in 0 .. m_ReadTimeout[l] :
        m_ReadTimeout' = [m_ReadTimeout EXCEPT ![l] = left]
    /\ UNCHANGED <<threadVars, m_SocketSetUp, servSockDescr, clnSockDescr,
                   buffer_msg, queuePckRead, ownerVars, netVars>>

--------------------------------------------------------------------------------
(* ReceivePacket and the end of HandleTCPclient.  A read of a field that   *)
(* has not arrived blocks: with a "head" in front and the client's end up  *)
(* none of the outcomes is enabled.                                        *)

Front(c) == IF inbound[c] = <<>> THEN "nothing" ELSE Head(inbound[c]).kind

(* The read of a field finds no byte of it.                                *)
AtEnd(c) == Front(c) \in {"nothing", "head"}

(* What makes the result 0.                                                *)
Refused(c) ==
    Front(c) \in {"bad", "torn"} \/ (AtEnd(c) /\ peer[c] \in {"closed", "gone"})

ReceiveMessage(l) ==
    LET c == clnSockDescr[l] IN
    /\ Goto(l, "receive", "deliver")
    /\ Front(c) \in {"frame", "short"}
    /\ buffer_msg' = [buffer_msg EXCEPT ![l] =
                        <<[conn |-> c, seq |-> Head(inbound[c]).seq,
                           whole |-> Front(c) = "frame"]>>]
    /\ inbound' = [inbound EXCEPT ![c] = Tail(@)]
    /\ UNCHANGED <<threadVars, m_SocketSetUp, servSockDescr, clnSockDescr,
                   m_ReadTimeout, queuePckRead, ownerVars, conn, clientVars,
                   outbound>>

(* A read that returns part of a field is not told from a whole one: the   *)
(* variable holds those bytes and what was on the stack, and may pass for  *)
(* a begin tag or a length.  The next read waits for what is to follow.    *)
ReadTorn(l) ==
    LET c == clnSockDescr[l] IN
    /\ pc[l] = "receive"
    /\ Front(c) = "torn"
    /\ inbound' = [inbound EXCEPT ![c][1].kind = "head"]
    /\ adrift' = [adrift EXCEPT ![c] = TRUE]
    /\ UNCHANGED <<threadVars, listenerVars, ownerVars, conn, peer, outbound,
                   sentItems, owes>>

IgnoreNothing(l) ==             \* variant: continue where the code breaks
    LET c == clnSockDescr[l] IN
    /\ Goto(l, "receive", "serve")
    /\ Refused(c)
    /\ inbound' = [inbound EXCEPT ![c] = <<>>]
    /\ UNCHANGED <<threadVars, m_SocketSetUp, servSockDescr, clnSockDescr,
                   m_ReadTimeout, buffer_msg, queuePckRead, ownerVars, conn,
                   clientVars, outbound>>

(* The result is 0: bytes that are no message, or the client closed.       *)
ReceiveNothing(l) ==
    LET c == clnSockDescr[l] IN
    /\ Goto(l, "receive", "close")
    /\ Refused(c)
    /\ conn' = [conn EXCEPT ![c] = "shut"]
    /\ inbound' = [inbound EXCEPT ![c] = <<>>]
    /\ UNCHANGED <<threadVars, m_SocketSetUp, servSockDescr, clnSockDescr,
                   m_ReadTimeout, buffer_msg, queuePckRead, ownerVars,
                   clientVars, outbound>>

(* The result is -1, which HandleTCPclient does not look at: it goes on to *)
(* copy that many bytes into the packet.                                   *)
ReceiveError(l) ==
    LET c == clnSockDescr[l] IN
    /\ Goto(l, "receive", "overrun")
    /\ AtEnd(c) /\ peer[c] = "reset"
    /\ UNCHANGED <<threadVars, m_SocketSetUp, servSockDescr, clnSockDescr,
                   m_ReadTimeout, buffer_msg, queuePckRead, ownerVars, netVars>>

DeliverUncounted(l) ==          \* variant: no incrPktsPushQueue
    /\ Goto(l, "deliver", "serve")
    /\ buffer_msg' = [buffer_msg EXCEPT ![l] = <<>>]
    /\ queuePckRead' = [queuePckRead EXCEPT ![l] = @ \o buffer_msg[l]]
    /\ UNCHANGED <<threadVars, m_SocketSetUp, servSockDescr, clnSockDescr,
                   m_ReadTimeout, ownerVars, netVars>>

(* The critical section under m_Mutex: build the packet and queue it.      *)
Deliver(l) ==
    /\ Goto(l, "deliver", "serve")
    /\ buffer_msg' = [buffer_msg EXCEPT ![l] = <<>>]
    /\ queuePckRead' = [queuePckRead EXCEPT ![l] = @ \o buffer_msg[l]]
    /\ pkts_push_queue' = pkts_push_queue + 1
    /\ UNCHANGED <<threadVars, m_SocketSetUp, servSockDescr, clnSockDescr,
                   m_ReadTimeout, process, netVars>>

(* memcpy of (size_t) -1 bytes.                                            *)
Overrun(l) ==
    /\ pc[l] = "overrun"
    /\ process' = "crashed"
    /\ UNCHANGED <<threadVars, listenerVars, pkts_push_queue, netVars>>

ForgetClient(l) ==              \* variant: the socket is not closed
    /\ Goto(l, "close", "zero")
    /\ UNCHANGED <<threadVars, m_SocketSetUp, servSockDescr, clnSockDescr,
                   m_ReadTimeout, buffer_msg, queuePckRead, ownerVars, netVars>>

(* Closing the client's socket and clearing the descriptor are two steps.  *)
CloseClient(l) ==
    LET c == clnSockDescr[l] IN
    /\ Goto(l, "close", "zero")
    /\ conn' = [conn EXCEPT ![c] = "closed"]
    /\ inbound' = [inbound EXCEPT ![c] = <<>>]
    /\ UNCHANGED <<threadVars, m_SocketSetUp, servSockDescr, clnSockDescr,
                   m_ReadTimeout, buffer_msg, queuePckRead, ownerVars,
                   clientVars, outbound>>

ZeroClient(l) ==
    /\ Goto(l, "zero", "test")
    /\ clnSockDescr' = [clnSockDescr EXCEPT ![l] = "0"]
    /\ UNCHANGED <<threadVars, m_SocketSetUp, servSockDescr, m_ReadTimeout,
                   buffer_msg, queuePckRead, ownerVars, netVars>>

(* Closing a listening socket resets the connections nobody accepted.      *)
DropBacklog ==
    /\ conn' = [c \in Conns |-> IF conn[c] = "backlog" THEN "closed" ELSE conn[c]]
    /\ inbound' = [c \in Conns |-> IF conn[c] = "backlog" THEN <<>> ELSE inbound[c]]
    /\ UNCHANGED <<clientVars, outbound>>

Leave(l) ==
    /\ Goto(l, "leave", "return")
    /\ servSockDescr' = [servSockDescr EXCEPT ![l] = "0"]
    /\ DropBacklog
    /\ UNCHANGED <<threadVars, m_SocketSetUp, clnSockDescr, m_ReadTimeout,
                   buffer_msg, queuePckRead, ownerVars>>

Return(l) ==
    /\ Goto(l, "return", "none")
    /\ RunInternalEnd(l)
    /\ UNCHANGED <<m_SocketSetUp, servSockDescr, clnSockDescr, m_ReadTimeout,
                   buffer_msg, queuePckRead, ownerVars, netVars>>

ListenerStep(l) ==
    \/ Begin(l) \/ LoopTest(l) \/ Accept(l) \/ AcceptFails(l)
    \/ ClientTest(l) \/ SelectReady(l) \/ SelectTimeout(l) \/ SelectFails(l)
    \/ ReceiveMessage(l) \/ ReadTorn(l) \/ ReceiveNothing(l) \/ ReceiveError(l)
    \/ Deliver(l) \/ Overrun(l)
    \/ CloseClient(l) \/ ZeroClient(l) \/ Leave(l) \/ Return(l)

--------------------------------------------------------------------------------
(* The clients: any program that speaks the framing, the sample's          *)
(* SingleNode for one.                                                     *)

Connect(c) ==
    /\ conn[c] = "unused"
    /\ \E l \in Listeners : servSockDescr[l] = "listening"
    /\ conn' = [conn EXCEPT ![c] = "backlog"]
    /\ peer' = [peer EXCEPT ![c] = "up"]
    /\ UNCHANGED <<inbound, outbound, sentItems, owes, adrift>>

Open(c) == peer[c] = "up" /\ conn[c] \in {"backlog", "up"}

SendBytes(c, kind) ==
    /\ sentItems[c] < MaxItems
    /\ sentItems' = [sentItems EXCEPT ![c] = @ + 1]
    /\ inbound' = [inbound EXCEPT ![c] =
                     Append(@, [kind |-> kind, seq |-> sentItems[c] + 1])]
    /\ owes' = [owes EXCEPT ![c] = kind \in {"head", "torn", "short"}]
    /\ UNCHANGED <<conn, peer, outbound>>

Send(c, kind) ==
    /\ Open(c) /\ ~owes[c]
    /\ SendBytes(c, kind)
    /\ UNCHANGED adrift

(* The rest of a message completes what the listener has not read, unless  *)
(* its begin was misread: then it may be refused as well.  If the data     *)
(* that was there is read already, the rest is read as a begin tag.        *)
SendRest(c) ==
    LET n == Len(inbound[c]) IN
    /\ Open(c) /\ owes[c]
    /\ owes' = [owes EXCEPT ![c] = FALSE]
    /\ \/ /\ n > 0
          /\ \E kind \in {"frame", "bad"} :
                /\ kind = "bad" => adrift[c]
                /\ inbound' = [inbound EXCEPT ![c][n].kind = kind]
       \/ /\ n = 0
          /\ inbound' = [inbound EXCEPT ![c] =
                            <<[kind |-> "bad", seq |-> sentItems[c]]>>]
    /\ UNCHANGED <<conn, peer, outbound, sentItems, adrift>>

(* Bytes that come late, or those with what the reads of the last message  *)
(* left on the stack, may also be found to be a message.                   *)
SendMisread(c) ==
    /\ Open(c) /\ owes[c] /\ inbound[c] = <<>>
    /\ SendBytes(c, "frame")
    /\ adrift' = [adrift EXCEPT ![c] = TRUE]

Close(c) ==
    /\ peer[c] = "up"
    /\ peer' = [peer EXCEPT ![c] = "closed"]
    /\ UNCHANGED <<conn, inbound, outbound, sentItems, owes, adrift>>

(* The host of a client that has closed refuses what is written to it; the *)
(* end of what the client sent is still there to read.                     *)
Refuse(c) ==
    /\ peer[c] = "closed"
    /\ peer' = [peer EXCEPT ![c] = "gone"]
    /\ UNCHANGED <<conn, inbound, outbound, sentItems, owes, adrift>>

(* A client that dies, or that closes with received frames still unread.   *)
Reset(c) ==
    /\ "reset" \in Faults
    /\ peer[c] = "up"
    /\ peer' = [peer EXCEPT ![c] = "reset"]
    /\ UNCHANGED <<conn, inbound, outbound, sentItems, owes, adrift>>

ClientStep(c) ==
    /\ \/ Connect(c) \/ SendRest(c) \/ SendMisread(c)
       \/ Close(c) \/ Refuse(c) \/ Reset(c)
       \/ \E kind \in Kinds : Send(c, kind)
    /\ UNCHANGED <<threadVars, listenerVars, ownerVars>>
================================================================================
