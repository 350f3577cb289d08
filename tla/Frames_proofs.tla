----------------------------- MODULE Frames_proofs -----------------------------
(***************************************************************************)
(* Proof that what send_data writes to a connection is never interrupted,  *)
(* though it reads the client's descriptor again for every part and the    *)
(* listener's thread changes it meanwhile, also while a write waits.       *)
(***************************************************************************)
EXTENDS LifeCycle_proofs

USE DEF threadVars, listenerVars, ownerVars, netVars, clientVars, simVars,
        NextPacket, CloseServer

Follows == [magic |-> "size", size |-> "payload", payload |-> "magic"]

(* Where send_data writes: a write that waits stays with its connection.   *)
Target == IF blockedOn = nullptr THEN clnSockDescr[p_tcp_listener] ELSE blockedOn

(* The part that may be written next to a connection: in the middle of a   *)
(* frame the one send_data is at for the client it would write to now, and *)
(* the begin tag for every other.                                          *)
Expected(c) == IF sim \in {"size", "payload"} /\ Target = c THEN sim ELSE "magic"

(* A write waits for a connection that is served as long as it is open.    *)
WaitsForServed ==
    blockedOn # nullptr =>
        /\ sim \in Parts
        /\ conn[blockedOn] \notin {"unused", "backlog"}
        /\ conn[blockedOn] = "up" => clnSockDescr[p_tcp_listener] = blockedOn

Unheard == \A c \in Conns : conn[c] \in {"unused", "backlog"} => outbound[c] = <<>>

NextIsExpected ==
    \A c \in Conns : Writable(c) /\ outbound[c] # <<>> =>
        Follows[outbound[c][Len(outbound[c])]] = Expected(c)

Uninterrupted == Unheard /\ NextIsExpected /\ FramesUninterrupted

LEMMA UninterruptedInit == Init => Uninterrupted
  BY DEF Init, NetInit, Uninterrupted, Unheard, NextIsExpected, FramesUninterrupted

LEMMA WaitsInit == Init => WaitsForServed
  BY DEF Init, SimInit, WaitsForServed

LEMMA WaitsListening ==
    ASSUME Typed, Descr, WaitsForServed, NEW l \in Listeners, ListenerStep(l),
           UNCHANGED simVars
    PROVE  WaitsForServed'
  <1> SUFFICES ASSUME blockedOn # nullptr
               PROVE  /\ conn'[blockedOn] \notin {"unused", "backlog"}
                      /\ conn'[blockedOn] = "up" =>
                            clnSockDescr'[p_tcp_listener] = blockedOn
    BY DEF WaitsForServed
  <1> USE DEF Typed, TypeOK, ListenerTypeOK, NetTypeOK, SimTypeOK, Goto
  <1>1. /\ blockedOn \in Conns /\ p_tcp_listener \in Listeners
        /\ conn[blockedOn] \notin {"unused", "backlog"}
        /\ conn[blockedOn] = "up" => clnSockDescr[p_tcp_listener] = blockedOn
    BY DEF WaitsForServed, PointerInUse, Parts
  <1>2. ASSUME UNCHANGED clnSockDescr,
               \A c \in Conns : conn'[c] = conn[c] \/ conn'[c] \in {"shut", "closed"}
        PROVE  /\ conn'[blockedOn] \notin {"unused", "backlog"}
               /\ conn'[blockedOn] = "up" => clnSockDescr'[p_tcp_listener] = blockedOn
    BY <1>1, <1>2
  <1>3. CASE Accept(l)
    <2>1. PICK d \in Conns :
            /\ conn[d] = "backlog"
            /\ conn' = [conn EXCEPT ![d] = "up"]
            /\ clnSockDescr' = [clnSockDescr EXCEPT ![l] = d]
      BY <1>3 DEF Accept
    <2>2. clnSockDescr[l] \notin Conns
      BY <1>3 DEF Accept, Descr, ClientOfControl, ServingSteps
    <2> QED
      BY <1>1, <2>1, <2>2
  <1>4. CASE AcceptFails(l) \/ ZeroClient(l)
    <2>1. /\ UNCHANGED conn
          /\ \E d \in {"-1", "0"} : clnSockDescr' = [clnSockDescr EXCEPT ![l] = d]
      BY <1>4 DEF AcceptFails, ZeroClient
    <2>2. clnSockDescr[l] \notin Conns \/ conn[clnSockDescr[l]] = "closed"
      BY <1>4 DEF AcceptFails, ZeroClient, Descr, ClientOfControl, ServingSteps
    <2> QED
      BY <1>1, <2>1, <2>2
  <1>5. CASE Begin(l) \/ LoopTest(l) \/ ClientTest(l)
    BY <1>2, <1>5 DEF Begin, LoopTest, ClientTest
  <1>6. CASE SelectReady(l) \/ SelectTimeout(l) \/ SelectFails(l)
    BY <1>2, <1>6 DEF SelectReady, SelectTimeout, SelectFails
  <1>7. CASE ReceiveMessage(l) \/ ReceiveNothing(l) \/ ReceiveError(l) \/ Deliver(l)
    BY <1>2, <1>7 DEF ReceiveMessage, ReceiveNothing, ReceiveError, Deliver
  <1>8. CASE ReadTorn(l) \/ Overrun(l) \/ CloseClient(l) \/ Return(l)
    BY <1>2, <1>8 DEF ReadTorn, Overrun, CloseClient, Return
  <1>9. CASE Leave(l)
    BY <1>2, <1>9 DEF Leave, DropBacklog
  <1> QED
    BY <1>3, <1>4, <1>5, <1>6, <1>7, <1>8, <1>9 DEF ListenerStep

LEMMA WaitsSimulator ==
    ASSUME Typed, WaitsForServed, SimStep
    PROVE  WaitsForServed'
  <1> USE DEF Step
  <1>1. ASSUME UNCHANGED blockedOn, sim \notin Parts
        PROVE  WaitsForServed'
    BY <1>1 DEF WaitsForServed
  <1>2. CASE \E l \in Listeners :
                StartListener(l) \/ StartWithoutThread(l) \/ StartFails(l)
    BY <1>1, <1>2 DEF StartListener, StartWithoutThread, StartFails, New, Parts
  <1>3. CASE Expire \/ ExpireEmpty \/ PopAndSendDown \/ Recv
    BY <1>1, <1>3 DEF Expire, ExpireEmpty, PopAndSendDown, Recv, vars, Parts
  <1>4. CASE StopBegin \/ StopJoin \/ StopDelete
    BY <1>1, <1>4 DEF StopBegin, StopJoin, StopDelete, Parts
  <1>5. ASSUME NEW part \in Parts,
               \/ Write(part) \/ WriteGoesOn(part)
               \/ WriteElsewhere(part) \/ WriteFails(part)
        PROVE  WaitsForServed'
    <2>1. blockedOn' = nullptr
      BY <1>5 DEF Write, WriteGoesOn, WritePart, WriteElsewhere, WriteFails
    <2> QED
      BY <2>1 DEF WaitsForServed
  <1>6. ASSUME NEW part \in Parts, WriteWaits(part)
        PROVE  WaitsForServed'
    BY <1>6 DEF WriteWaits, Writable, WaitsForServed
  <1> QED
    BY <1>2, <1>3, <1>4, <1>5, <1>6 DEF SimStep

LEMMA WaitsNext == Typed /\ Descr /\ WaitsForServed /\ [Next]_vars => WaitsForServed'
  <1> SUFFICES ASSUME Typed, Descr, WaitsForServed, [Next]_vars
               PROVE  WaitsForServed'
    OBVIOUS
  <1>1. CASE SimStep
    BY <1>1, WaitsSimulator
  <1>2. CASE Listening
    BY <1>2, WaitsListening DEF Listening
  <1>3. CASE Clients
    <2>1. PICK c \in Conns : ClientStep(c)
      BY <1>3 DEF Clients
    <2>2. \/ UNCHANGED conn
          \/ conn[c] = "unused" /\ conn' = [conn EXCEPT ![c] = "backlog"]
      BY <2>1 DEF ClientStep, Connect, Send, SendBytes, SendRest, SendMisread, Close,
                  Refuse, Reset
    <2> QED
      BY <1>3, <2>1, <2>2
      DEF Clients, ClientStep, WaitsForServed, Typed, TypeOK, NetTypeOK, SimTypeOK
  <1>4. CASE UNCHANGED vars
    BY <1>4 DEF vars, WaitsForServed
  <1> QED
    BY <1>1, <1>2, <1>3, <1>4 DEF Next

(* Steps that write nothing.                                               *)
LEMMA Quiet ==
    ASSUME Uninterrupted, UNCHANGED outbound,
           \A c \in Conns : conn'[c] \in {"unused", "backlog"} =>
                conn[c] \in {"unused", "backlog"},
           \A c \in Conns : Writable(c)' /\ outbound[c] # <<>> =>
                Writable(c) /\ Expected(c)' = Expected(c)
    PROVE  Uninterrupted'
  <1>1. Unheard'
    BY DEF Uninterrupted, Unheard
  <1>2. NextIsExpected'
    BY DEF Uninterrupted, NextIsExpected
  <1>3. FramesUninterrupted'
    BY DEF Uninterrupted, FramesUninterrupted
  <1> QED
    BY <1>1, <1>2, <1>3 DEF Uninterrupted

LEMMA QuietListening ==
    ASSUME Typed, Descr, Uninterrupted, NEW l \in Listeners, ListenerStep(l),
           UNCHANGED simVars
    PROVE  Uninterrupted'
  <1> USE DEF Typed, TypeOK, ListenerTypeOK, NetTypeOK, SimTypeOK, Goto
  <1>1. UNCHANGED <<outbound, peer>>
    BY DEF ListenerStep, Begin, LoopTest, Accept, AcceptFails, ClientTest, SelectReady,
           SelectTimeout, SelectFails, ReceiveMessage, ReadTorn, ReceiveNothing,
           ReceiveError, Deliver, Overrun, CloseClient, ZeroClient, Leave, DropBacklog, Return
  <1>2. ASSUME UNCHANGED clnSockDescr,
               \A c \in Conns : conn'[c] = conn[c] \/ conn'[c] \in {"shut", "closed"}
        PROVE  Uninterrupted'
    BY <1>1, <1>2, Quiet DEF Expected, Target, Writable
  <1>3. CASE Accept(l)
    <2>1. PICK d \in Conns :
            /\ conn[d] = "backlog"
            /\ conn' = [conn EXCEPT ![d] = "up"]
            /\ clnSockDescr' = [clnSockDescr EXCEPT ![l] = d]
      BY <1>3 DEF Accept
    <2>2. outbound[d] = <<>>
      BY <2>1 DEF Uninterrupted, Unheard
    <2>3. clnSockDescr[l] \notin Conns
      BY <1>3 DEF Accept, Descr, ClientOfControl, ServingSteps
    <2>4. ASSUME NEW c \in Conns, c # d
          PROVE  (Writable(c)' => Writable(c)) /\ Expected(c)' = Expected(c)
      <3>1. Writable(c)' => Writable(c)
        BY <1>1, <2>1, <2>4 DEF Writable
      <3>2. sim # "idle" => p_tcp_listener \in Listeners
        BY DEF PointerInUse
      <3>3. Expected(c)' = Expected(c)
        BY <2>1, <2>3, <2>4, <3>2 DEF Expected, Target
      <3> QED
        BY <3>1, <3>3
    <2> QED
      BY <1>1, <2>1, <2>2, <2>4, Quiet
  <1>4. CASE AcceptFails(l) \/ ZeroClient(l)
    <2>1. PICK d \in {"-1", "0"} :
            clnSockDescr' = [clnSockDescr EXCEPT ![l] = d] /\ d \notin Conns
      BY <1>4, ConnsAssumption DEF AcceptFails, ZeroClient
    <2>2. UNCHANGED conn
      BY <1>4 DEF AcceptFails, ZeroClient
    <2>3. ASSUME NEW c \in Conns, Writable(c)
          PROVE  Expected(c)' = Expected(c)
      <3>1. clnSockDescr[l] # c
        BY <1>4, <2>3 DEF AcceptFails, ZeroClient, Descr, ClientOfControl, ServingSteps,
                          Writable
      <3>2. sim # "idle" => p_tcp_listener \in Listeners
        BY DEF PointerInUse
      <3> QED
        BY <2>1, <3>1, <3>2 DEF Expected, Target
    <2> QED
      BY <1>1, <2>2, <2>3, Quiet DEF Writable
  <1>5. CASE \/ Begin(l) \/ LoopTest(l) \/ ClientTest(l)
             \/ SelectReady(l) \/ SelectTimeout(l) \/ SelectFails(l)
    BY <1>2, <1>5 DEF Begin, LoopTest, ClientTest, SelectReady, SelectTimeout, SelectFails
  <1>6. CASE ReceiveMessage(l) \/ ReceiveNothing(l) \/ ReceiveError(l) \/ Deliver(l)
    BY <1>2, <1>6 DEF ReceiveMessage, ReceiveNothing, ReceiveError, Deliver
  <1>7. CASE ReadTorn(l) \/ Overrun(l) \/ CloseClient(l) \/ Return(l)
    BY <1>2, <1>7 DEF ReadTorn, Overrun, CloseClient, Return
  <1>8. CASE Leave(l)
    BY <1>2, <1>8 DEF Leave, DropBacklog
  <1> QED
    BY <1>3, <1>4, <1>5, <1>6, <1>7, <1>8 DEF ListenerStep

LEMMA QuietClients ==
    ASSUME Typed, Uninterrupted, NEW c \in Conns, ClientStep(c), UNCHANGED simVars
    PROVE  Uninterrupted'
  <1> USE DEF Typed, TypeOK, NetTypeOK
  <1>1. UNCHANGED <<outbound, clnSockDescr>>
    BY DEF ClientStep, Connect, Send, SendBytes, SendRest, SendMisread, Close, Refuse,
           Reset
  <1>2. \A d \in Conns :
            /\ conn'[d] # conn[d] => conn[d] = "unused" /\ conn'[d] = "backlog"
            /\ conn'[d] = conn[d] /\ peer'[d] \in {"up", "closed"} =>
                    peer[d] \in {"up", "closed"}
    <2>1. CASE Connect(c)
      BY <2>1 DEF Connect
    <2>2. CASE SendRest(c) \/ SendMisread(c) \/ \E kind \in Kinds : Send(c, kind)
      BY <2>2 DEF SendRest, SendMisread, Send, SendBytes
    <2>3. CASE Close(c) \/ Refuse(c) \/ Reset(c)
      BY <2>3 DEF Close, Refuse, Reset
    <2> QED
      BY <2>1, <2>2, <2>3 DEF ClientStep
  <1>3. \A d \in Conns : Writable(d)' => Writable(d)
    BY <1>2 DEF Writable
  <1>4. \A d \in Conns : Expected(d)' = Expected(d)
    BY <1>1 DEF Expected, Target
  <1> QED
    BY <1>1, <1>2, <1>3, <1>4, Quiet

(* A part that is written is the expected one, and the next is expected    *)
(* after it.                                                               *)
LEMMA WriteExpected ==
    ASSUME Typed, Descr, Uninterrupted, NEW part \in Parts,
           WritePart(part, Target), Target = clnSockDescr[p_tcp_listener]
    PROVE  Uninterrupted'
  <1> USE DEF Typed, TypeOK, ListenerTypeOK, NetTypeOK, SimTypeOK
  <1> DEFINE d == clnSockDescr[p_tcp_listener]
             s == outbound[d]
  <1>1. /\ Writable(d) /\ d \in Conns /\ conn[d] = "up"
        /\ sim = part /\ sim' = NextPart(part)
        /\ outbound' = [outbound EXCEPT ![d] = Append(s, part)]
        /\ UNCHANGED <<conn, peer, clnSockDescr, p_tcp_listener>>
        /\ Target = d /\ Target' = d
    BY DEF WritePart, Step, Writable, Target
  <1>2. s \in Seq(Parts) /\ part \in Parts
    BY <1>1 DEF Parts
  <1>3. /\ outbound'[d] = Append(s, part)
        /\ \A c \in Conns \ {d} : outbound'[c] = outbound[c]
    BY <1>1
  <1>4. /\ Len(Append(s, part)) = Len(s) + 1
        /\ Append(s, part)[Len(s) + 1] = part
        /\ \A i \in 1 .. Len(s) : Append(s, part)[i] = s[i]
        /\ Len(s) \in Nat
    <2>1. s \in Seq(Parts) /\ part \in Parts
      BY <1>2
    <2> HIDE DEF s
    <2> QED
      BY <2>1, AppendProperties, LenProperties
  <1>5. s # <<>> => Follows[s[Len(s)]] = part
    <2>1. Expected(d) = part
      BY <1>1 DEF Expected, Parts
    <2>2. s # <<>> => Follows[s[Len(s)]] = Expected(d)
      BY <1>1 DEF Uninterrupted, NextIsExpected
    <2> QED
      BY <2>1, <2>2
  <1>6. Unheard'
    BY <1>1, <1>3 DEF Uninterrupted, Unheard
  <1>7. NextIsExpected'
    <2>1. Follows[part] = Expected(d)'
      BY <1>1 DEF Follows, Expected, NextPart, Parts
    <2>2. ASSUME NEW c \in Conns \ {d}
          PROVE  Expected(c)' = Expected(c) /\ Writable(c)' = Writable(c)
      BY <1>1 DEF Expected, Writable
    <2>3. Follows[outbound'[d][Len(outbound'[d])]] = Expected(d)'
      BY <1>3, <1>4, <2>1
    <2>4. ASSUME NEW c \in Conns \ {d}, Writable(c)', outbound'[c] # <<>>
          PROVE  Follows[outbound'[c][Len(outbound'[c])]] = Expected(c)'
      <3>1. outbound'[c] = outbound[c] /\ Writable(c)
        BY <1>3, <2>2, <2>4
      <3>2. Follows[outbound[c][Len(outbound[c])]] = Expected(c)
        BY <2>4, <3>1 DEF Uninterrupted, NextIsExpected
      <3> QED
        BY <2>2, <3>1, <3>2
    <2>5. ASSUME NEW c \in Conns, Writable(c)', outbound'[c] # <<>>
          PROVE  Follows[outbound'[c][Len(outbound'[c])]] = Expected(c)'
      <3>1. CASE c = d
        BY <1>1, <2>3, <3>1 DEF Expected
      <3>2. CASE c # d
        BY <2>4, <2>5, <3>2
      <3> QED
        BY <3>1, <3>2
    <2> QED
      BY <2>5 DEF NextIsExpected
  <1>8. FramesUninterrupted'
    <2> SUFFICES ASSUME NEW c \in Conns, NEW i \in 1 .. Len(outbound'[c]) - 1
                 PROVE  outbound'[c][i + 1] = Follows[outbound'[c][i]]
      BY DEF FramesUninterrupted, Follows
    <2>1. CASE c # d
      BY <1>3, <2>1 DEF Uninterrupted, FramesUninterrupted, Follows
    <2>2. CASE c = d /\ i < Len(s)
      <3>1. /\ i \in 1 .. Len(s) - 1 /\ i \in 1 .. Len(s) /\ i + 1 \in 1 .. Len(s)
        BY <1>4, <2>2
      <3>2. s[i + 1] = Follows[s[i]]
        BY <1>1, <3>1 DEF Uninterrupted, FramesUninterrupted, Follows
      <3> QED
        BY <1>3, <1>4, <2>2, <3>1, <3>2
    <2>3. CASE c = d /\ i = Len(s)
      <3>1. s # <<>> /\ i \in 1 .. Len(s)
        BY <1>2, <2>3
      <3> QED
        BY <1>3, <1>4, <1>5, <2>3, <3>1
    <2>4. c = d => i < Len(s) \/ i = Len(s)
      BY <1>3, <1>4
    <2> QED
      BY <2>1, <2>2, <2>3, <2>4
  <1> QED
    BY <1>6, <1>7, <1>8 DEF Uninterrupted

LEMMA UninterruptedSimulator ==
    ASSUME Typed, Descr, WaitsForServed, Uninterrupted, SimStep
    PROVE  Uninterrupted'
  <1> USE DEF Typed, TypeOK, ListenerTypeOK, NetTypeOK, SimTypeOK, Step
  <1>1. ASSUME NEW part \in Parts, Write(part) \/ WriteGoesOn(part)
        PROVE  Uninterrupted'
    <2>1. WritePart(part, Target)
      BY <1>1 DEF Write, WriteGoesOn, Target
    <2>2. Target = clnSockDescr[p_tcp_listener]
      BY <1>1 DEF Write, WriteGoesOn, WritePart, Writable, Target, WaitsForServed
    <2> QED
      BY <2>1, <2>2, WriteExpected
  <1>9. ASSUME NEW part \in Parts, WriteWaits(part)
        PROVE  Uninterrupted'
    <2>1. UNCHANGED <<outbound, conn, peer, sim>> /\ Target' = Target
      BY <1>9, ListenersAssumption DEF WriteWaits, Writable, Target
    <2> QED
      BY <2>1, Quiet DEF Expected, Writable
  <1>2. ASSUME NEW part \in Parts, WriteElsewhere(part)
        PROVE  Uninterrupted'
    <2>1. /\ UNCHANGED <<outbound, conn, peer, clnSockDescr, p_tcp_listener>>
          /\ Target \notin Conns /\ Target' = Target
      BY <1>2, ConnsAssumption DEF WriteElsewhere, Target
    <2> QED
      BY <2>1, Quiet DEF Expected, Writable
  <1>3. ASSUME NEW part \in Parts, WriteFails(part)
        PROVE  Uninterrupted'
    <2>1. UNCHANGED <<outbound, conn, peer>> /\ ~Writable(Target) /\ sim' = "idle"
      BY <1>3 DEF WriteFails, Target
    <2> QED
      BY <2>1, Quiet DEF Expected, Writable
  <1>4. ASSUME UNCHANGED <<outbound, conn, peer>>,
               sim \notin {"size", "payload"}, sim' \notin {"size", "payload"}
        PROVE  Uninterrupted'
    BY <1>4, Quiet DEF Expected, Writable
  <1>5. CASE \E l \in Listeners :
                StartListener(l) \/ StartWithoutThread(l) \/ StartFails(l)
    BY <1>4, <1>5 DEF StartListener, StartWithoutThread, StartFails, New
  <1>6. CASE Expire \/ ExpireEmpty \/ PopAndSendDown \/ Recv
    BY <1>4, <1>6 DEF Expire, ExpireEmpty, PopAndSendDown, Recv, vars
  <1>7. CASE StopBegin \/ StopJoin
    BY <1>4, <1>7 DEF StopBegin, StopJoin
  <1>8. CASE StopDelete
    <2>1. CASE UNCHANGED netVars
      BY <1>4, <1>8, <2>1 DEF StopDelete
    <2>2. CASE DropBacklog
      <3>1. /\ UNCHANGED <<outbound, peer>>
            /\ \A c \in Conns : conn'[c] = conn[c] \/ conn'[c] = "closed"
            /\ sim = "delete" /\ sim' = "idle"
        BY <1>8, <2>2 DEF StopDelete, DropBacklog
      <3> QED
        BY <3>1, Quiet DEF Expected, Writable
    <2> QED
      BY <1>8, <2>1, <2>2 DEF StopDelete
  <1> QED
    BY <1>1, <1>2, <1>3, <1>5, <1>6, <1>7, <1>8, <1>9 DEF SimStep

LEMMA UninterruptedNext ==
    Typed /\ Descr /\ WaitsForServed /\ Uninterrupted /\ [Next]_vars => Uninterrupted'
  <1> SUFFICES ASSUME Typed, Descr, WaitsForServed, Uninterrupted, [Next]_vars
               PROVE  Uninterrupted'
    OBVIOUS
  <1>1. CASE SimStep
    BY <1>1, UninterruptedSimulator
  <1>2. CASE Listening
    BY <1>2, QuietListening DEF Listening
  <1>3. CASE Clients
    BY <1>3, QuietClients DEF Clients
  <1>4. CASE UNCHANGED vars
    BY <1>4, Quiet DEF vars, Expected, Target, Writable
  <1> QED
    BY <1>1, <1>2, <1>3, <1>4 DEF Next

(* Every client hears the parts of frames in order and without a gap, for  *)
(* any number of clients, listeners and packets and under every fault.     *)
THEOREM FramesInOrder == Spec => []FramesUninterrupted
  <1>1. Uninterrupted => FramesUninterrupted
    BY DEF Uninterrupted
  <1>2. Spec => []WaitsForServed
    BY DescrInvariant, WaitsInit, WaitsNext, PTL DEF Spec
  <1> QED
    BY <1>1, <1>2, DescrInvariant, UninterruptedInit, UninterruptedNext, PTL DEF Spec
================================================================================
