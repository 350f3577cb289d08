--------------------------------- MODULE Framing ---------------------------------
(***************************************************************************)
(* ReceivePacket over the bytes of one connection.  A frame is a begin tag *)
(* and a length of Width bytes each and the data; TCP delivers the bytes   *)
(* of the frames in order and in any pieces, and a read returns what has   *)
(* arrived, at most what it asked for.  TcpListener calls the outcome of   *)
(* ReceivePacket an item; here is why.                                     *)
(*                                                                         *)
(* A byte is its position in the stream.  A field read from elsewhere than *)
(* its place, or only in part, has a value the client's data or the stack  *)
(* decides: any value.                                                     *)
(***************************************************************************)
EXTENDS Integers, Sequences

CONSTANTS
    Width,              \* sizeof(uint32_t)
    BufferSize,         \* MAX_LENGTH_PAYLOAD
    Lengths,            \* the lengths of the data of frames
    MaxFrames           \* bound: frames a client sends

ASSUME FramingAssumption ==
    /\ Width \in Nat \ {0} /\ BufferSize \in Nat
    /\ Lengths \subseteq Nat /\ MaxFrames \in Nat

VARIABLES
    frames,             \* what the client wrote, as [start, length]
    arrived,            \* how many bytes have arrived
    peer,               \* the client's end: "up", "closed", "reset"
    at,                 \* the next read, "idle" between calls, or "ended"
    read,               \* how many bytes have been read
    size,               \* the length read, while the data is to be read
    delivered,          \* history: the data returned, as [first, length]
    cut,                \* history: a read returned less than it asked for
    mistaken            \* history: a wrong field was taken for a right one

streamVars == <<frames, arrived, peer>>
framingVars == <<streamVars, at, read, size, delivered, cut, mistaken>>

FrameEnd(f) == f.start + 2 * Width + f.length
Written == IF frames = <<>> THEN 0 ELSE FrameEnd(frames[Len(frames)])

FramingTypeOK ==
    /\ frames \in Seq([start : Nat, length : Lengths])
    /\ arrived \in 0 .. Written
    /\ peer \in {"up", "closed", "reset"}
    /\ at \in {"idle", "magic", "size", "payload", "ended"}
    /\ read \in 0 .. arrived
    /\ size \in 0 .. BufferSize
    /\ delivered \in Seq([first : Nat, length : 1 .. BufferSize])
    /\ cut \in BOOLEAN /\ mistaken \in BOOLEAN

FramingInit ==
    /\ frames = <<>> /\ arrived = 0 /\ peer = "up"
    /\ at = "idle" /\ read = 0 /\ size = 0
    /\ delivered = <<>> /\ cut = FALSE /\ mistaken = FALSE

--------------------------------------------------------------------------------
(* The client and TCP                                                      *)

WriteFrame(length) ==
    /\ peer = "up" /\ Len(frames) < MaxFrames
    /\ frames' = Append(frames, [start |-> Written, length |-> length])
    /\ UNCHANGED <<arrived, peer, at, read, size, delivered, cut, mistaken>>

Arrive ==
    /\ peer # "reset"
    /\ arrived' \in arrived + 1 .. Written
    /\ UNCHANGED <<frames, peer, at, read, size, delivered, cut, mistaken>>

ClientLeaves ==
    /\ peer = "up"
    /\ peer' \in {"closed", "reset"}
    /\ UNCHANGED <<frames, arrived, at, read, size, delivered, cut, mistaken>>

--------------------------------------------------------------------------------
(* ReceivePacket                                                           *)

EndNeverSeen == FALSE           \* variant: the end of the stream is not noticed

(* A read returns 0, or -1 after a reset.                                  *)
EndOfStream ==
    read = arrived /\ (peer = "reset" \/ (peer = "closed" /\ arrived = Written))

ReadableAtEnd == EndOfStream    \* variant: only the end wakes the listener

(* What select waits for.                                                  *)
Readable == read < arrived \/ EndOfStream

Call ==
    /\ at = "idle" /\ Readable
    /\ at' = "magic"
    /\ UNCHANGED <<streamVars, read, size, delivered, cut, mistaken>>

AllAsked(asked) == asked        \* variant: a read returns what it asked for

(* How many bytes a read returns; it waits while there are none.           *)
Got(asked) == IF asked < arrived - read THEN asked ELSE arrived - read

Read(asked) ==
    /\ Got(asked) > 0
    /\ read' = read + Got(asked)
    /\ cut' = (cut \/ Got(asked) < asked)

Unchecked(offset) == DOMAIN frames  \* variant: no field is ever wrong

(* The frames of which a read of Width bytes from here takes the field at  *)
(* that offset: one, or none.                                              *)
FieldOf(offset) ==
    {i \in DOMAIN frames : frames[i].start + offset = read /\ Got(Width) = Width}

ReadMagic ==
    /\ at = "magic"
    /\ Read(Width)
    /\ \/ at' = "size" /\ mistaken' = (mistaken \/ FieldOf(0) = {})
       \/ at' = "ended" /\ FieldOf(0) = {} /\ mistaken' = mistaken
    /\ UNCHANGED <<streamVars, size, delivered>>

SmallerThanBuffer(n) == n < BufferSize  \* variant: a full buffer is refused

FitsBuffer(n) == n <= BufferSize

LengthWithZero(i) == frames[i].length + 1          \* variant: a zero at the end is counted

LengthOf(i) == frames[i].length

(* The length is used if it is not above the size of the buffer.           *)
ReadSize ==
    /\ at = "size"
    /\ Read(Width)
    /\ \E n \in IF FieldOf(Width) = {} THEN 0 .. BufferSize + 1
                ELSE {LengthOf(i) : i \in FieldOf(Width)} :
        IF FitsBuffer(n)
        THEN at' = "payload" /\ size' = n /\ mistaken' = (mistaken \/ FieldOf(Width) = {})
        ELSE at' = "ended" /\ UNCHANGED <<size, mistaken>>
    /\ UNCHANGED <<streamVars, delivered>>

(* One read, however much of the data it returns.                          *)
ReadPayload ==
    /\ at = "payload"
    /\ Read(size)
    /\ delivered' = Append(delivered, [first |-> read, length |-> Got(size)])
    /\ at' = "idle" /\ size' = 0
    /\ UNCHANGED <<streamVars, mistaken>>

(* The result is 0 or -1: the end of the stream, or no byte was asked for. *)
ReadNothing ==
    /\ at \in {"magic", "size", "payload"}
    /\ EndOfStream \/ (at = "payload" /\ size = 0)
    /\ at' = "ended" /\ size' = 0
    /\ UNCHANGED <<streamVars, read, delivered, cut, mistaken>>

Listener == Call \/ ReadMagic \/ ReadSize \/ ReadPayload \/ ReadNothing

FramingNext ==
    \/ \E length \in Lengths : WriteFrame(length)
    \/ Arrive \/ ClientLeaves
    \/ Listener

(* What was written arrives unless the client dies, and the listener's     *)
(* thread runs; nothing makes the client write or leave.  A stop request   *)
(* is not part of this module: AppNetModule has it.                        *)
FramingSpec ==
    /\ FramingInit /\ [][FramingNext]_framingVars
    /\ WF_framingVars(Arrive) /\ WF_framingVars(Listener)

--------------------------------------------------------------------------------
(* Properties                                                              *)

Data(i) == [first |-> frames[i].start + 2 * Width, length |-> frames[i].length]

(* As long as no read was cut short the messages are the data of the       *)
(* frames, whole and in order, and no field was ever mistaken.             *)
WholeUnlessCut ==
    ~cut => /\ ~mistaken
            /\ \A i \in DOMAIN delivered : i \in DOMAIN frames /\ delivered[i] = Data(i)

(* Why a message is one item of TcpListener: unless a field was mistaken   *)
(* for a valid one the i-th message begins the data of the i-th frame, and *)
(* only the last one may lack its end (a "short" item).                    *)
OneMessagePerFrame ==
    ~mistaken =>
        \A i \in DOMAIN delivered :
            /\ i \in DOMAIN frames
            /\ delivered[i].first = Data(i).first
            /\ delivered[i].length <= Data(i).length
            /\ i < Len(delivered) => delivered[i] = Data(i)

(* A client that keeps to the framing is not disconnected: the listener    *)
(* ends the connection only for an empty message, one above the buffer, a  *)
(* client that left or a read that was cut short.                          *)
GoodClientKept ==
    at = "ended" /\ ~cut =>
        \/ peer # "up"
        \/ /\ Len(delivered) + 1 \in DOMAIN frames
           /\ frames[Len(delivered) + 1].length \notin 1 .. BufferSize

(* ReceivePacket returns, whatever pieces the frames arrive in, unless it  *)
(* mistook a field and waits for data that nobody announced.               *)
ReceiveReturns ==
    at \in {"magic", "size", "payload"} ~> (at \in {"idle", "ended"} \/ mistaken)

(* Every frame is received unless the connection ends (or, see above).     *)
FramesReceived ==
    \A k \in 1 .. MaxFrames :
        Len(frames) >= k ~> (Len(delivered) >= k \/ at = "ended" \/ mistaken)
================================================================================
