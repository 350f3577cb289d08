# Verification of the uwapp_net addon

TLA+ models, TLC runs and TLAPS proofs of `uwAppNetModule`, the DESERT (ns-2)
application layer that relays messages between a TCP client and an underwater
network stack. The reference is the code: every definition is translated from
it, and `PROJECT.json` ("map") names the lines.

## 1. The system

| Component | State | Operations |
|---|---|---|
| `StoppableThread` (`stoppable_thread.h`) | `m_running`, `m_stop`, `m_thread` | `Start`, `Stop(wait)`, `Running`, `StopRequested`, `RunInternal` |
| `TcpListener` (`tcp_listener.h`) | server and client descriptor, `m_ReadTimeout`, `buffer_msg`, `queuePckRead`, `m_SocketSetUp` | in its own thread: `Run`, `HandleTCPclient`, `ReadyToRead`, `ReceivePacket`; in the simulator's: `Setup`, `init_Packet_TCP`, `send_data`, the destructor |
| `uwAppNetModule` life cycle (`uwAppNet_module.cpp/.h`) | `p_tcp_listener`, `chkTimerPeriod`, `txsn`, `uidcnt`, `pkts_push_queue` | TCL `start`, `stop`; the timer's `expire`; `recv`; the destructor |
| `uwAppNetModule` statistics | `sn_check`, `hrsn`, `esn`, counters, sums of trip times and bytes | `statistics`, the getters |
| Packet header (`uwAppNet_cmn_header.h`) | `sn_` (16 bits), `rftt_`, `rftt_valid_`, size, payload | |
| Sample client and script (`sample/`) | sockets, counters | `SingleNode` sends and receives frames, `PosWorker` receives positions, the template builds the nodes and calls `start`/`stop` |
| TCL binding, logging, string helpers, build files | none that matters | |

How they interact. The simulator is one thread: TCL commands, the timer and
packets from the stack are its events. `start` creates a listener, which has a
thread of its own. That thread accepts one client at a time, reads messages
(begin tag, length, data), puts each into a packet and pushes it to
`queuePckRead` under `m_Mutex`. The timer takes one packet a period from the
queue and sends it down. A packet from below goes through `statistics`; what is
not dropped is written to the client as a frame. `stop` cancels the timer,
asks the thread to end, joins it and deletes the listener. The two threads share
the queue (locked, but for `empty()`), the flags (atomic), the counter
`pkts_push_queue` and the client's descriptor (not locked).

What is hard here: the interleaving of the two threads around `start`, `stop`
and `clnSockDescr`; blocking calls (`accept`, `read`, `join`, and `write` in `send_data`) that wait for each
other and for clients; failures half way through (`Setup`, `std::thread`, `accept`, a read, a
write); clients that leave, die, or send half a message; packets that come late,
twice or never; a 16 bit number in an endless stream. `PROJECT.json` ("hazards")
lists them, each at its line.

What makes each component correct:

- listener and queue: each client's messages go down in order, once, without a
  gap; nothing pops an empty queue; no connection is leaked; a client that left
  makes room for the next one;
- life cycle: after `stop` no thread, socket or timer is left; `stop` returns;
  nothing touches a deleted listener;
- frames: a client hears the parts of frames in order, beginning with a begin tag;
- statistics: each packet is counted once; received and lost packets add up;
  what the application sees is in order in drop mode; the throughput covers the
  whole time;
- several nodes: what the application gets of each sender is what that sender
  sent, in order and once; the counters mean something in terms of what was sent;
- bytes of a connection: a message is the data of a frame in whatever pieces it
  arrives, `ReceivePacket` returns, and a client that keeps to the framing is kept.

## 2. Modules

    StoppableThread          flags and thread of one worker object
      TcpListener            the listener's thread, the clients, the network
        AppNetModule         + the simulator's thread: the whole life cycle
          MCAppNet           small instances for TLC
          AppNetModule_proofs    types, counters
            LifeCycle_proofs     start, stop, connections
              Frames_proofs      parts of frames
              Queue_proofs       pushes and pops
              Relay_proofs       AppNetModule implements MessageRelay
    MessageRelay             abstract: what the sending half promises
    Statistics               the receiving half: statistics and getters
      Statistics_proofs
      AppNetwork             several senders, a network, one receiver
        MCAppNetwork         a small instance for TLC
        AppNetwork_proofs    (with Statistics_proofs)
    OrderedDelivery          abstract: what the receiving half promises
    Framing                  ReceivePacket over the bytes of one connection
      Framing_proofs

**StoppableThread.** One operator per atomic access. `m_thread` is `"none"` (not
joinable), `"active"` or `"finished"` (has returned and is not joined).

**TcpListener.** `pc[l]` is the place of the listener's thread between two
accesses to shared state; the actions follow `Run` and `HandleTCPclient` from
`begin` to `return`. A connection stands for its descriptor. What a client has
sent and the listener has not read is a sequence of items: a whole message
(`frame`), a message with part of its data (`short`), a begin cut at the end of
a header field (`head`) or inside of one (`torn`), or bytes that `ReceivePacket` answers with 0 (`bad`).
The three reads of `ReceivePacket` are one step, since nobody else reads the
connection; they block (no outcome is enabled) while a header field is missing
and the client is there.

A read that returns part of a header field is not told from a whole one: what the variable
then holds is that part and what was on the stack. It is refused
(`torn` among what makes the result 0) or passes for a begin tag or a length
(`ReadTorn`), and what is read next is out of step. In the same way the late rest of a message whose
data was read already is refused as a begin tag, or begins with one and is taken for a message
(`SendMisread`). `adrift[c]` remembers that bytes of a client were misread. So the messages
of a client, in this module and in what is built on it, are those the listener finds in its
bytes; they are the client's own as long as the connection is not adrift. `Framing` has the reads
byte for byte.

The clients (external) connect, send, may complete a message later, close, have their
host refuse writes, or reset the connection. A failing `select` (`SelectFails`) goes round the loop. `m_ReadTimeout` is 1 or 0: all or
nothing left of the timeout that `select` overwrites; the loop goes round either
way, the difference is only how fast.

**AppNetModule.** Each handler of the simulator thread is one action where it
touches nothing the other thread changes, otherwise one action per access: `sim`
is the access to come. `StartListener`, `StartWithoutThread` and `StartFails`
are the command `start`; `StopBegin`, `StopJoin`, `StopDelete` are `stop`;
`Expire` (the unlocked `empty()`) and `PopAndSendDown` are the timer; `Recv` and
the writes of the three parts of a frame are `recv`/`send_data`. The socket blocks: a write may wait
(`WriteWaits`, at any time, since how much room there is depends on the client and its host) until the client
reads (`WriteGoesOn`) or the connection ends (`WriteFails`), and the simulator with it.
`blockedOn` is the connection of the call, which another client may
have replaced in `clnSockDescr` before it returns. `process` says when `std::terminate` or a
memory fault ends the program, and nothing happens afterwards. `queuePckRead` of
a listener that was replaced or deleted stays in the model: those messages are
lost, and the counting property names them. `queuePckRead.empty()` outside of the lock
is a data race; the pointer it reads is written in one piece on
the platforms the addon is built for, so the read sees the queue before or after
a push.

**MessageRelay.** Clients submit messages, and the messages of a client are
relayed in order, once, without a gap. `AppNetModule!Relayed` maps `sentDown` to it.

**Statistics.** `recv` and `statistics` run in the simulator thread alone, so
a call is one step, one action per way it ends. `sn_check` is the set of marked
numbers; its cell for the last number lies behind the array, so its first
content is unknown (`garbage`). The two divisions that look like mistakes are
modelled as they are (`rftt` is truncated to seconds; the guard of the round trip time is always
false). Time is in ticks, `Second` of them in a second.

**AppNetwork.** The composition. The receiver is `Statistics`, with its `recv` and all its
state; the n-th message of a sender has number n + 1, which is what
`SentPacketsCounted` says of `AppNetModule` (and `SentCounted` proves). The
layers between are external and one of two networks, chosen at the start: `"fifo"` keeps
a sender's order and may lose, `"any"` also repeats and reorders. Where a message came
from is history only; the receiver cannot see it. Nothing is assumed of how long a
sender sends: its numbers wrap (message SNSpace - 1 has number 0), and the
properties say what is left of the meaning of the counters then.

**OrderedDelivery.** What is handed on was sent. `order` says what else is promised:
`"always"` (each sender's messages come in order and once), `"in round"` (once, and in order
but for those of a later round of the sequence numbers, which may come before what is
left of an earlier one) or nothing. `AppNetwork` maps a network that keeps the order to the
first and `drop_out_of_order_` over any other to the second. `"in round"` is not a
weakness of the model: `statistics` compares the 16 bits only, so that after number 2 it accepts
a packet with number 3 of the next round and then, as it is greater, a late number 5 of this one.

**Framing.** One connection as a stream of bytes. A byte is its position; a frame
is where it starts and how long its data is. TCP delivers any further bytes at any
time; `Got` is what a `read` returns, less than was asked for if no more has
arrived. Each read of `ReceivePacket` is an action (`ReadMagic`, `ReadSize`,
`ReadPayload`), since bytes arrive between them; `ReadNothing` is the result 0
or -1. A field read in part or out of step has any value, as it depends on the
client's data or on what was on the stack: it may be taken for a begin tag or a
length (`mistaken`, as `adrift` in `TcpListener`) or be refused. A frame is what the client writes
(`src/README.md:9-13`, `sample/test_sockets_TCP.py:130`). `OneMessagePerFrame` is what justifies the items of
`TcpListener`: as long as nothing was mistaken a message is the data of one
frame, and an incomplete one (`short`) is the last of its connection.

Operators marked "variant" in a comment are not part of a model: each is a
definition with a plausible mistake in it, used to show that the property named
with it in `PROJECT.json` ("mutants") notices that mistake.

## 3. Runs

| Run | Instance | What it shows |
|---|---|---|
| `relay` | 1 listener, 2 clients with 2 messages each, no faults | `TypeOK`, `SentPacketsCounted`, `StopIsComplete`, `OnlyLastCut` (a message read in part is the last of its client, unless bytes were misread), `NothingLostWhileServed` (what was found in the bytes of a served client was sent down, waits, or is in its socket), and `ImplementsRelay`: the module refines `MessageRelay` |
| `restart` | 2 listeners, 2 clients with 1 message, all faults, `start` at any time | `PopFromNonEmpty`, `PushedMessagesAccounted`, `OpenConnectionServed`, `StopIsComplete`, `QueuedHasTimer` (no message in the queue in use without a timer that takes it), and as action properties `NoUseAfterDelete` and `StopGoesStraight` (a thread that was asked to stop only comes nearer to its end) |
| `frames` | 1 listener, 2 clients, `accept` may fail, 2 packets from the network | `FramesUninterrupted` |
| `live` | 2 listeners one after the other, 1 client with 2 messages, 1 packet from the network | under `FairSpec`: `StopReturnsWhileServing` (or the thread waits for ever for a client, in `accept` or for the rest of a message), `QueuedIsSent` (or `stop` is called, or the simulator waits for ever in a write for a client that does not read), `ClosedClientReleased` |
| `statistics` | 4 sequence numbers, 5 packets, 4 ticks, both modes | nine properties of the counters, marks and sums |
| `network` | 2 senders with 4 messages, 4 sequence numbers, 4 packets that come, 2 times, both modes, both networks | `NetworkTypeOK`, `OneLossTooMany`, `InvalidAreKnownNumbers`, `NothingDroppedInOrder`, `ErrorRateLagsBehind`, and `ImplementsOrderedDelivery`: the module refines `OrderedDelivery` |
| `framing` | fields of 2 bytes, a buffer of 2, 2 frames with data of 0 to 3 bytes | `FramingTypeOK`, `WholeUnlessCut`, `OneMessagePerFrame`, `GoodClientKept`, and `ReceiveReturns`, `FramesReceived` under the fairness of `FramingSpec` |
| `terminate`, `hang`, `tornframe`, `readerror`, `shortread` | 1 listener, 1 or 2 clients | findings, see below |

Bounds. `MaxItems`, `MaxRecv`, `MaxArrivals`, `MaxClock`, `MaxSent` and `MaxFrames` cap what the environment does;
nothing in the code depends on more. Two clients are enough for a client to be
replaced while something is under way, two listeners for one to be stopped,
replaced or orphaned while the other is in use; two messages for an order, a
gap or a double; four sequence numbers for a skip, a late packet and the end of
the number space (`SNSpace` is 65536 in the code), and five packets to pass that end.
In `network` the third of four messages has the number that wraps to 0 and the fourth one
of the next round, and four packets that come are enough for a loss, a late packet and a double of
the same sender with another sender between. In `framing` two bytes of a field are enough to cut it,
lengths 0, 2 and 3 are below, at and above the buffer, and the second frame is what a
cut in the first puts out of step.
In `live` the packet can be written, and the write can wait, before, between and after the messages,
and the second listener is the restart of the first.
`SYMMETRY` is used for invariants, action properties and refinements (`restart`, `frames`, `network`),
never for liveness. Deadlock is not checked:
the process may be gone, `stop` may wait for ever, and a bounded environment ends.

Fairness (`FairSpec`): the operating system schedules the listener's thread;
the simulator goes on with a handler it has begun, and dispatches the timer,
whose period is finite. Nothing makes a client
connect, send, complete a message it has begun, read what it is sent or close: the
sample's `_send_data` may stop half way with the socket open. Nothing makes a script call `start` or
`stop`. Where such a client holds a thread for ever the properties say so: they
have the form `P ~> Q \/ []W`, with the waiting state `W`.
`FramingSpec`: TCP delivers what was written, unless the client dies, and the
operating system schedules the listener's thread; nothing makes the client write
or leave. `NetworkSpec` has no fairness: the network may lose everything.

## 4. Findings

Each has a run in which TLC finds a statement of the repository violated.

1. `terminate`: `stop` relies on `Running()`, which the new thread sets itself
   and resets before it was joined. `stop` soon after `start`, or after `accept`
   failed, deletes a joinable `std::thread`: `std::terminate`.
2. `hang`: `accept` (and a `read` of a message that was begun) has no timeout. `stop` then
   waits in `join`, and the simulator with it. `StopReturnsWhileServing` is the
   part that does hold: these two are the only places where it can wait for ever.
3. `tornframe`: `send_data` reads the client's descriptor four times. A client
   that is replaced in between first hears the middle of a frame.
   `FramesUninterrupted` is the part that does hold.
4. `readerror`: a read error is taken for a length.
5. `shortread`: a message that arrives in two segments is cut.

Shown by properties that hold, though a reader of the counters may not expect them:

- a receiver in drop mode counts one packet lost that never was, since numbers begin
  with 2 (`OneLossTooMany`); without dropping, `GetPER` leaves out the newest packet
  and the two effects cancel (`ErrorRateLagsBehind`);
- marks and `hrsn` are not kept per sender: with two senders the packets of one are
  dropped as known numbers of the other (`InvalidAreKnownNumbers`), and each hides the
  other's losses. What is accepted is still in order and once.

Seen in the code and not stated by a run: `write` in `send_data` blocks the whole simulator while a
client that sends does not read (`QueuedIsSent` names the case); no round trip time is ever sampled; `pkts_push_queue` never
goes down, though its comment speaks of packets not yet passed on;
packets are allocated and freed by two threads on one free list; three getters
print an `int` with `%f`.

## 5. Proofs

TLAPS checks these for every value of the constants; the assumptions are the
named `ASSUME`s of the modules (`ConnsAssumption`, `FaultsAssumption`,
`MaxItemsAssumption`, `ListenersAssumption`, `BoundsAssumption`,
`StatAssumption`, `SentAssumption`, `FramingAssumption`), which TLC evaluates in the runs.

- `AppNetModule_proofs`: `TypeCorrect` and `SentCounted`. `TypeOK` is not
  inductive: a handler that reads through `clnSockDescr` or `p_tcp_listener`, or takes the
  front of the queue, relies on the place of the control. `Typed` adds these two
  facts (`ServedDescriptor`, `PointerInUse`).
- `LifeCycle_proofs`: `PopsWhatIsThere`, `StopLeavesNothing`, `ConnectionsServed`,
  `NothingUsedAfterDelete`, `StraightToTheEnd`.
  `Life` ties the flags and the thread's state to the place of its control, and
  objects that are not there to having no thread and no socket; it is what
  makes a deleted listener clean. `Descr` says that the place of the control tells the state of the
  connection, that no two threads have the same one, and that an open one has a
  thread. A start with a failing thread, a second start and a stop in between
  are all steps of the proof. That nothing uses a deleted listener follows from `Life`
  (such a listener has no thread, unless the process is gone), action by action.
  `StepsToEnd` is a bound on the steps a thread still has to go: with a stop request
  every step lowers it. It is the part of "stop returns" that needs no fairness; the rest,
  that the thread takes its steps, is `StopReturnsWhileServing`.
- `Frames_proofs`: `FramesInOrder`. `NextIsExpected` says which part may come
  next on each connection that can be written to; a connection only becomes the
  listener's client while nothing was written to it (`Unheard`), and once a write has
  failed it never can be written to again. A write that waits is for the listener's client, or for
  one that has left and takes nothing any more (`WaitsForServed`), so that the part it writes
  when it goes on is still the expected one (`Target`).
- `Statistics_proofs`: `StatTypeCorrect`, `PacketsCountedOnce`,
  `LossesAccounted`, `AcceptedInOrder`, `ThroughputOverWholeTime`,
  `ExhaustedSequenceNumbers`, `MarksCounted`, `DuplicatesBehind`,
  `VarianceNotNegative`. `Accounting`
  is the inductive invariant of the counters and the order, `Marks` that of
  `sn_check`; both rest on `TypedTimes` (types, and no time in the future). The variance
  is not negative because the samples times their sum of squares is never less than
  the square of their sum, and a new sample adds squares to the difference
  (`SpreadNext`).
- `Queue_proofs`: `PushedAccounted`. The places taken in the queues (`Queued`) are a finite
  set to which `Deliver` adds one and from which `PopAndSendDown` takes one; that `Deliver`
  pushes one message is `OneInBuffer`. `QueuedScheduled`, the part of `QueuedIsSent` that
  is safety, needs `Scheduled`: a listener reads only after its `Setup` succeeded, that
  start schedules the timer, and only stop cancels it; a start that fails later replaces
  the listener by one whose queue is empty and leaves the timer running.
- `Relay_proofs`: `RelayImplemented`, the refinement of `MessageRelay`. `Relays` says
  where the messages of a connection are: all that wait are with the one listener that ever
  accepted it (`Owned`; waiting is the queue and the buffer); they continue what was
  sent down (`Numbered`), the socket holds the last ones begun (`InboundNumbered`), and
  nothing is missing between, unless the connection is over or its next bytes end it
  (`Linked`). So a message is lost only with everything behind it. `BufferInUse` ties `buffer_msg` to the place of the control.
  `CutIsLast` needs `Cuts`: an unfinished message is the last in its socket
  (`UnfinishedLast`), and once one was read in part nothing more is read of its client
  (`CutEnds`), since the connection is over, or its next bytes, or the rest that it owes,
  are no message (`ReadNoMore`); what waits behind a message finds it whole (`CutWaitsLast`). The last two are claimed only of connections that are
  not adrift: after misread bytes a cut message may be followed by another, and `ReadTorn` and `SendMisread`
  are the two steps that lead there.
  `ServedLosesNothing` needs `ReadWaits`: of a connection that was not given up, each
  message that was read and not sent down waits. `RelayImplemented` allows a loss at the
  end of what a client sent, `ServedLosesNothing` says when: only once its connection is over.
  Both speak of the messages found in a client's bytes, misread ones included.
- `AppNetwork_proofs`: `NetworkTypeCorrect`, `LossesOffByOne`, `InvalidKnown`,
  `RefinesOrderedDelivery`, `NothingDropped`, `ErrorRateMeaning`. `CarriesStatistics`
  shows that the composition implements `StatSpec`, so that the theorems of
  `Statistics_proofs` hold in it. The added invariants tie the histories to the
  receiver: the marks are the numbers that came and `hrsn` is the number of the last
  accepted message (`Deliveries`), so that two accepted messages of one sender are in different
  rounds or in order (`Rounds`); in a network that keeps the order the newest receipt of a
  single sender was accepted, and `esn` is that of the one before (`EsnLags`).
- `Framing_proofs`: `FramingTypeCorrect`, `WholeMessages`, `OneMessageEach`,
  `GoodClientStays`. `Standing` says where in which frame the next read stands
  (`Place`) and which data was returned (`Pieces`) as long as no field was mistaken, that a mistake takes
  a cut, and why a connection ended without one (`Reason`). After a cut inside the data the next
  begin tag is read where no frame begins, so it is either refused or mistaken.

Only model-checked: everything under fairness (liveness and ENABLED are beyond the
prover), that is `QueuedIsSent`, `ClosedClientReleased`, `StopReturnsWhileServing`,
`ReceiveReturns` and `FramesReceived`, and what the findings refute.

## 6. Not modelled

- The values of bytes: begin tag, data and little endian encoding are what the frame's
  positions stand for; nothing depends on more of them.
- The sample client's threads: `SingleNode` sends from a timer and receives in
  its own loop over one socket, each direction used by one thread. What it does to the
  module are the connects, sends and closes of `TcpListener`. That `_recv_wait`
  spins when the connection ends in the middle of a message concerns the sample alone.
- The packet pool of ns-2, and descriptor numbers shared by several nodes of one process
  (the descriptor is closed before it is cleared): both take state that is not in this
  repository, and a connection stands for its descriptor throughout.
- The sample script, which builds a stack from modules outside of this
  repository; the TCL binding; logging; the getters that only return a counter.
- An exception in the listener's thread (`tcp_listener.h:150-153`): it takes a failing allocation or mutex.
  The thread would end with its sockets open; the destructor closes the server's, the client's is leaked, and
  `OpenConnectionServed` and `StopIsComplete` do not hold then.
- Short and interrupted writes: a write takes all of its part, waits, or fails because the connection is dead.
  (A failing write is an error result, not a signal: Tcl ignores `SIGPIPE`.) After a short write `send_data` gives up
  and the next frame would follow a torn one, so `FramesUninterrupted` rests on this.
- A second `start` after `Socket_Port_` was changed: both threads would live and increment `pkts_push_queue` under
  different mutexes, a data race. In the model there is one port, `Setup` of the second listener fails,
  and no thread is started for it.
- Floating point sums are exact in the model. The int counters do not overflow.

## 7. Plan

What could be added: a pool and a descriptor table shared by two nodes, as a
composition of two `AppNetModule`s, and the sample client.
