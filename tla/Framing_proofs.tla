----------------------------- MODULE Framing_proofs -----------------------------
(***************************************************************************)
(* Proofs about Framing for every width of the fields, buffer size, set of *)
(* lengths and number of frames.  The argument: as long as no field was    *)
(* mistaken, the reads stand at the fields of the frame after the last     *)
(* message; if that message was cut, they stand inside its data, where no  *)
(* frame begins.                                                           *)
(***************************************************************************)
EXTENDS Framing, SequenceTheorems, TLAPS

Frame == [start : Nat, length : Lengths]
Piece == [first : Nat, length : 1 .. BufferSize]

(* Where the frame after the i-th begins.                                  *)
NextStart(i) == IF i = 0 THEN 0 ELSE FrameEnd(frames[i])

(* The frames lie one after the other.                                     *)
Layout ==
    /\ \A i \in 1 .. Len(frames) :
        frames[i].start = NextStart(i - 1) /\ FrameEnd(frames[i]) <= Written
    /\ \A i, j \in 1 .. Len(frames) :
        i < j => FrameEnd(frames[i]) <= frames[j].start

(* The numbers of a frame.                                                 *)
LEMMA FrameFields ==
    ASSUME frames \in Seq(Frame), NEW i \in 1 .. Len(frames)
    PROVE  /\ frames[i] \in Frame
           /\ frames[i].start \in Nat /\ frames[i].length \in Nat
           /\ FrameEnd(frames[i]) \in Nat
           /\ FrameEnd(frames[i]) = frames[i].start + 2 * Width + frames[i].length
           /\ frames[i].start + Width < FrameEnd(frames[i])
  <1>1. frames[i] \in Frame
    BY ElementOfSeq
  <1>2. frames[i].start \in Nat /\ frames[i].length \in Nat
    BY <1>1, FramingAssumption DEF Frame
  <1>3. 2 * Width \in Nat /\ 2 * Width > Width /\ Width \in Nat
    BY FramingAssumption
  <1> QED
    BY <1>1, <1>2, <1>3 DEF FrameEnd

LEMMA WrittenNatural ==
    ASSUME frames \in Seq(Frame)
    PROVE  /\ Written \in Nat
           /\ Written = NextStart(Len(frames))
           /\ Len(frames) \in Nat
  <1>1. Len(frames) \in Nat
    BY LenProperties
  <1>2. CASE frames = <<>>
    BY <1>2 DEF Written, NextStart
  <1>3. CASE frames # <<>>
    <2>1. Len(frames) \in 1 .. Len(frames) /\ Len(frames) # 0
      BY <1>3, EmptySeq
    <2> QED
      BY <1>1, <1>3, <2>1, FrameFields DEF Written, NextStart
  <1> QED
    BY <1>1, <1>2, <1>3

(* What a read returns: at least one byte, at most what is there and what  *)
(* was asked for.                                                          *)
LEMMA ReadBytes ==
    ASSUME FramingTypeOK, NEW asked \in Nat, Read(asked)
    PROVE  /\ Got(asked) \in 1 .. asked
           /\ read' = read + Got(asked) /\ read' \in 0 .. arrived
           /\ cut' = (cut \/ Got(asked) < asked) /\ cut' \in BOOLEAN
  <1>1. frames \in Seq(Frame)
    BY DEF FramingTypeOK, Frame
  <1>2. arrived \in Nat /\ read \in Nat /\ read <= arrived
    BY <1>1, WrittenNatural DEF FramingTypeOK
  <1> QED
    BY <1>2 DEF Read, Got, FramingTypeOK

(* Writing a frame leaves the others where they are.                       *)
LEMMA WriteFrameLayout ==
    ASSUME frames \in Seq(Frame), Layout, NEW length \in Lengths, WriteFrame(length)
    PROVE  /\ frames' \in Seq(Frame) /\ Layout'
           /\ Len(frames') = Len(frames) + 1 /\ Len(frames) \in Nat
           /\ \A i \in 1 .. Len(frames) : frames'[i] = frames[i]
           /\ Written <= Written' /\ Written' \in Nat
  <1> DEFINE f == [start |-> Written, length |-> length]
  <1>1. f \in Frame /\ f.start = Written /\ f.length = length
    BY WrittenNatural DEF Frame
  <1>2. frames' = Append(frames, f)
    BY DEF WriteFrame
  <1> HIDE DEF f
  <1>3. /\ frames' \in Seq(Frame) /\ Len(frames') = Len(frames) + 1
        /\ Len(frames) \in Nat
        /\ \A i \in 1 .. Len(frames) : frames'[i] = frames[i]
        /\ frames'[Len(frames) + 1] = f
    BY <1>1, <1>2, AppendProperties, LenProperties
  <1> DEFINE k == Len(frames)
  <1>4. /\ frames' # <<>> /\ Len(frames') = k + 1
        /\ k + 1 \in 1 .. k + 1 /\ (k + 1) - 1 = k
    BY <1>3, EmptySeq
  <1>5. Written' = f.start + 2 * Width + f.length
    BY <1>3, <1>4 DEF Written, FrameEnd
  <1>6. Written \in Nat /\ Written = NextStart(k) /\ length \in Nat
    BY WrittenNatural, FramingAssumption
  <1>7. Written' = Written + 2 * Width + length
    BY <1>1, <1>5
  <1>8. 2 * Width \in Nat
    BY FramingAssumption
  <1>9. Written <= Written' /\ Written' \in Nat
    BY <1>5, <1>6, <1>7, <1>8
  <1>10. \A i \in 0 .. k : NextStart(i)' = NextStart(i)
    BY <1>3 DEF NextStart, FrameEnd
  <1>11. \A i \in 1 .. k : /\ frames'[i] = frames[i]
                           /\ FrameEnd(frames[i]) \in Nat /\ frames[i].start \in Nat
                           /\ frames[i].start = NextStart(i - 1)
                           /\ FrameEnd(frames[i]) <= Written
    BY <1>3, FrameFields DEF Layout
  <1>12. ASSUME NEW i \in 1 .. Len(frames')
         PROVE  frames'[i].start = NextStart(i - 1)' /\ FrameEnd(frames'[i]) <= Written'
    <2>1. CASE i \in 1 .. k
      <3>1. i - 1 \in 0 .. k
        BY <1>3, <2>1
      <3> QED
        BY <1>6, <1>9, <1>10, <1>11, <2>1, <3>1
    <2>2. CASE i = k + 1
      <3>1. frames'[i].start = NextStart(k) /\ FrameEnd(frames'[i]) = Written'
        BY <1>1, <1>3, <1>5, <1>6, <1>7, <2>2 DEF FrameEnd
      <3>2. NextStart(i - 1)' = NextStart(k)
        BY <1>3, <1>4, <1>10, <2>2
      <3> QED
        BY <1>9, <3>1, <3>2
    <2> QED
      BY <1>3, <2>1, <2>2
  <1>13. ASSUME NEW i \in 1 .. Len(frames'), NEW j \in 1 .. Len(frames'), i < j
         PROVE  FrameEnd(frames'[i]) <= frames'[j].start
    <2>1. i \in 1 .. k
      BY <1>3, <1>13
    <2>2. CASE j \in 1 .. k
      BY <1>11, <1>13, <2>1, <2>2 DEF Layout
    <2>3. CASE j = k + 1
      <3>1. frames'[j].start = Written
        BY <1>1, <1>3, <2>3
      <3> QED
        BY <1>11, <2>1, <3>1
    <2> QED
      BY <1>3, <2>2, <2>3
  <1>14. Layout'
    BY <1>12, <1>13 DEF Layout, FrameEnd
  <1> QED
    BY <1>3, <1>9, <1>14

--------------------------------------------------------------------------------
(* Types                                                                   *)

StreamTyped == FramingTypeOK /\ Layout

LEMMA StreamTypedInit == FramingInit => StreamTyped
  <1> SUFFICES ASSUME FramingInit
               PROVE  StreamTyped
    OBVIOUS
  <1>1. frames = <<>> /\ Len(frames) = 0 /\ Written = 0
    BY DEF FramingInit, Written
  <1>2. Layout
    BY <1>1 DEF Layout
  <1>3. /\ delivered = <<>> /\ arrived = 0 /\ read = 0 /\ size = 0
        /\ 0 \in 0 .. BufferSize /\ 0 \in 0 .. 0
    BY FramingAssumption DEF FramingInit
  <1>4. frames \in Seq(Frame) /\ delivered \in Seq(Piece)
    BY <1>1, <1>3, EmptySeq
  <1>5. cut \in BOOLEAN /\ mistaken \in BOOLEAN
    BY Zenon DEF FramingInit
  <1>6. peer = "up" /\ at = "idle"
    BY DEF FramingInit
  <1>7. arrived \in 0 .. Written /\ read \in 0 .. arrived /\ size \in 0 .. BufferSize
    BY <1>1, <1>3
  <1>8. FramingTypeOK
    BY <1>4, <1>5, <1>6, <1>7 DEF FramingTypeOK, Frame, Piece
  <1> QED
    BY <1>2, <1>8 DEF StreamTyped

LEMMA StreamTypedNext == StreamTyped /\ [FramingNext]_framingVars => StreamTyped'
  <1> SUFFICES ASSUME StreamTyped, [FramingNext]_framingVars
               PROVE  StreamTyped'
    OBVIOUS
  <1>1. /\ frames \in Seq(Frame) /\ Written \in Nat
        /\ arrived \in Nat /\ arrived <= Written
        /\ read \in Nat /\ read <= arrived /\ size \in Nat /\ size <= BufferSize
        /\ delivered \in Seq(Piece)
    <2>1. /\ frames \in Seq(Frame) /\ delivered \in Seq(Piece)
          /\ arrived \in 0 .. Written /\ read \in 0 .. arrived
          /\ size \in 0 .. BufferSize
      BY DEF StreamTyped, FramingTypeOK, Frame, Piece
    <2>2. Written \in Nat
      BY <2>1, WrittenNatural
    <2> QED
      BY <2>1, <2>2, FramingAssumption
  <1>2. ASSUME UNCHANGED frames
        PROVE  Layout' /\ Written' = Written
    BY <1>2 DEF StreamTyped, Layout, NextStart, Written
  <1>3. ASSUME NEW length \in Lengths, WriteFrame(length)
        PROVE  StreamTyped'
    <2>1. /\ frames' \in Seq(Frame) /\ Layout'
          /\ Written <= Written' /\ Written' \in Nat
      BY <1>1, <1>3, WriteFrameLayout DEF StreamTyped
    <2>2. UNCHANGED <<arrived, peer, at, read, size, delivered, cut, mistaken>>
      BY <1>3 DEF WriteFrame
    <2>3. arrived' \in 0 .. Written'
      BY <1>1, <2>1, <2>2
    <2> QED
      BY <2>1, <2>2, <2>3 DEF StreamTyped, FramingTypeOK, Frame
  <1>4. CASE Arrive
    <2>1. arrived' \in arrived + 1 .. Written
          /\ UNCHANGED <<frames, peer, at, read, size, delivered, cut, mistaken>>
      BY <1>4 DEF Arrive
    <2>2. arrived' \in 0 .. Written /\ read \in 0 .. arrived'
      BY <1>1, <2>1
    <2> QED
      BY <1>2, <2>1, <2>2 DEF StreamTyped, FramingTypeOK
  <1>5. CASE ClientLeaves
    BY <1>2, <1>5 DEF ClientLeaves, StreamTyped, FramingTypeOK
  <1>6. CASE Call
    BY <1>2, <1>6 DEF Call, streamVars, StreamTyped, FramingTypeOK
  <1>7. CASE ReadMagic
    <2>1. read' \in 0 .. arrived /\ cut' \in BOOLEAN
      BY <1>7, ReadBytes, FramingAssumption DEF ReadMagic, StreamTyped
    <2>2. /\ at' \in {"size", "ended"} /\ mistaken' \in BOOLEAN
          /\ UNCHANGED <<frames, arrived, peer, size, delivered>>
      BY <1>7 DEF ReadMagic, streamVars, StreamTyped, FramingTypeOK
    <2> QED
      BY <1>2, <2>1, <2>2 DEF StreamTyped, FramingTypeOK
  <1>8. CASE ReadSize
    <2>1. read' \in 0 .. arrived /\ cut' \in BOOLEAN
      BY <1>8, ReadBytes, FramingAssumption DEF ReadSize, StreamTyped
    <2>2. UNCHANGED <<frames, arrived, peer, delivered>>
      BY <1>8 DEF ReadSize, streamVars
    <2>3. PICK n \in IF FieldOf(Width) = {} THEN 0 .. BufferSize + 1
                     ELSE {LengthOf(i) : i \in FieldOf(Width)} :
            IF FitsBuffer(n)
            THEN /\ at' = "payload" /\ size' = n
                 /\ mistaken' = (mistaken \/ FieldOf(Width) = {})
            ELSE at' = "ended" /\ UNCHANGED <<size, mistaken>>
      BY <1>8 DEF ReadSize
    <2>4. n \in Nat
      <3>1. CASE FieldOf(Width) = {}
        BY <2>3, <3>1, FramingAssumption
      <3>2. CASE FieldOf(Width) # {}
        <4>1. PICK i \in FieldOf(Width) : n = LengthOf(i)
          BY <2>3, <3>2
        <4>2. i \in 1 .. Len(frames)
          BY <1>1, <4>1, LenProperties DEF FieldOf
        <4> QED
          BY <1>1, <4>1, <4>2, FrameFields DEF LengthOf
      <3> QED
        BY <3>1, <3>2
    <2>5. /\ at' \in {"payload", "ended"} /\ size' \in 0 .. BufferSize
          /\ mistaken' \in BOOLEAN
      <3>1. CASE FitsBuffer(n)
        BY <2>3, <2>4, <3>1, FramingAssumption DEF FitsBuffer, StreamTyped, FramingTypeOK
      <3>2. CASE ~FitsBuffer(n)
        BY <2>3, <3>2 DEF StreamTyped, FramingTypeOK
      <3> QED
        BY <3>1, <3>2
    <2> QED
      BY <1>2, <2>1, <2>2, <2>5 DEF StreamTyped, FramingTypeOK
  <1>9. CASE ReadPayload
    <2>1. read' \in 0 .. arrived /\ cut' \in BOOLEAN /\ Got(size) \in 1 .. size
      BY <1>1, <1>9, ReadBytes DEF ReadPayload, StreamTyped
    <2>2. /\ delivered' = Append(delivered, [first |-> read, length |-> Got(size)])
          /\ at' = "idle" /\ size' = 0
          /\ UNCHANGED <<frames, arrived, peer, mistaken>>
      BY <1>9 DEF ReadPayload, streamVars
    <2>3. [first |-> read, length |-> Got(size)] \in Piece
      <3>1. Got(size) \in 1 .. BufferSize
        BY <1>1, <2>1, FramingAssumption
      <3> QED
        BY <1>1, <3>1 DEF Piece
    <2>4. delivered' \in Seq(Piece)
      BY <1>1, <2>2, <2>3, AppendProperties
    <2>5. size' \in 0 .. BufferSize
      BY <2>2, FramingAssumption
    <2> QED
      BY <1>2, <2>1, <2>2, <2>4, <2>5 DEF StreamTyped, FramingTypeOK, Piece
  <1>10. CASE ReadNothing
    <2>1. size' \in 0 .. BufferSize
      BY <1>10, FramingAssumption DEF ReadNothing
    <2> QED
      BY <1>2, <1>10, <2>1 DEF ReadNothing, streamVars, StreamTyped, FramingTypeOK
  <1>11. CASE UNCHANGED framingVars
    BY <1>2, <1>11 DEF framingVars, streamVars, StreamTyped, FramingTypeOK
  <1> QED
    BY <1>3, <1>4, <1>5, <1>6, <1>7, <1>8, <1>9, <1>10, <1>11
    DEF FramingNext, Listener

(* Every variable keeps its type: in particular no read goes beyond what   *)
(* has arrived and no message is larger than the buffer.                   *)
THEOREM FramingTypeCorrect == FramingSpec => []FramingTypeOK
  <1>1. StreamTyped => FramingTypeOK
    BY DEF StreamTyped
  <1> QED
    BY <1>1, StreamTypedInit, StreamTypedNext, PTL DEF FramingSpec

--------------------------------------------------------------------------------
(* Where the reads stand                                                   *)

Taken == Len(delivered)

(* The last message has all of its data.                                   *)
LastWhole == Taken = 0 \/ delivered[Taken] = Data(Taken)

Pieces ==
    /\ Taken <= Len(frames)
    /\ \A i \in 1 .. Taken :
        /\ delivered[i].first = Data(i).first
        /\ delivered[i].length <= Data(i).length
        /\ i < Taken => delivered[i] = Data(i)

(* The place of the next read, as long as no field was mistaken.           *)
Place ==
    /\ at \in {"idle", "magic"} =>
        read = IF LastWhole THEN NextStart(Taken)
               ELSE delivered[Taken].first + delivered[Taken].length
    /\ at \in {"size", "payload"} => LastWhole /\ Taken < Len(frames)
    /\ at = "size" => read = NextStart(Taken) + Width
    /\ at = "payload" =>
        read = NextStart(Taken) + 2 * Width /\ size = frames[Taken + 1].length

(* Why the connection ended, if no read was cut.                           *)
Reason ==
    at = "ended" /\ ~cut =>
        \/ peer # "up"
        \/ Taken + 1 \in 1 .. Len(frames) /\ frames[Taken + 1].length \notin 1 .. BufferSize

Standing ==
    /\ ~mistaken => Pieces /\ Place /\ (~cut => LastWhole)
    /\ mistaken => cut
    /\ Reason

(* Two frames do not begin at the same place.                              *)
LEMMA OneFrameThere ==
    ASSUME frames \in Seq(Frame), Layout,
           NEW i \in 1 .. Len(frames), NEW j \in 1 .. Len(frames),
           frames[i].start = frames[j].start
    PROVE  i = j
  <1>1. /\ frames[i].start \in Nat /\ frames[i].start < FrameEnd(frames[i])
        /\ frames[j].start \in Nat /\ frames[j].start < FrameEnd(frames[j])
        /\ FrameEnd(frames[i]) \in Nat /\ FrameEnd(frames[j]) \in Nat
    BY FrameFields, FramingAssumption
  <1>2. ~(i < j)
    BY <1>1 DEF Layout
  <1>3. ~(j < i)
    BY <1>1 DEF Layout
  <1> QED
    BY <1>2, <1>3, LenProperties

(* A field of Width bytes read at its place is that of the next frame.     *)
LEMMA FieldThere ==
    ASSUME StreamTyped, NEW offset \in Nat, NEW d \in Nat, d <= Len(frames),
           read = NextStart(d) + offset, offset <= Width
    PROVE  /\ FieldOf(offset) \subseteq {d + 1}
           /\ FieldOf(offset) # {} => d < Len(frames)
           /\ Got(Width) = Width => FieldOf(offset) = {d + 1}
  <1>1. /\ frames \in Seq(Frame) /\ DOMAIN frames = 1 .. Len(frames)
        /\ Len(frames) \in Nat /\ Written \in Nat /\ Written = NextStart(Len(frames))
        /\ read \in Nat /\ arrived \in Nat /\ arrived <= Written
    BY WrittenNatural, LenProperties DEF StreamTyped, FramingTypeOK, Frame
  <1>2. NextStart(d) \in Nat
    BY <1>1, FrameFields DEF NextStart
  <1>3. d < Len(frames) => frames[d + 1].start = NextStart(d) /\ d + 1 \in 1 .. Len(frames)
    <2> SUFFICES ASSUME d < Len(frames)
                 PROVE  frames[d + 1].start = NextStart(d) /\ d + 1 \in 1 .. Len(frames)
      OBVIOUS
    <2>1. d + 1 \in 1 .. Len(frames) /\ (d + 1) - 1 = d
      BY <1>1
    <2> QED
      BY <2>1 DEF StreamTyped, Layout
  <1>4. ASSUME NEW i \in FieldOf(offset)
        PROVE  i = d + 1 /\ d < Len(frames)
    <2>1. i \in 1 .. Len(frames) /\ frames[i].start + offset = read
      BY <1>1 DEF FieldOf
    <2>2. /\ frames[i].start \in Nat /\ FrameEnd(frames[i]) \in Nat
          /\ frames[i].start < FrameEnd(frames[i]) /\ FrameEnd(frames[i]) <= Written
      BY <1>1, <2>1, FrameFields, FramingAssumption DEF StreamTyped, Layout
    <2>3. frames[i].start = NextStart(d)
      BY <1>2, <2>1, <2>2
    <2>4. d < Len(frames)
      BY <1>1, <2>2, <2>3
    <2> QED
      BY <1>1, <1>3, <2>1, <2>3, <2>4, OneFrameThere DEF StreamTyped
  <1>5. ASSUME Got(Width) = Width
        PROVE  FieldOf(offset) = {d + 1}
    <2>1. Width \in Nat /\ Width > 0 /\ arrived - read >= Width
      BY <1>1, <1>5, FramingAssumption DEF Got
    <2>2. read < Written
      BY <1>1, <2>1
    <2>3. d < Len(frames)
      BY <1>1, <1>2, <2>2
    <2>4. d + 1 \in FieldOf(offset)
      BY <1>1, <1>3, <1>5, <2>3 DEF FieldOf
    <2> QED
      BY <1>4, <2>4
  <1> QED
    BY <1>4, <1>5

(* No frame begins inside the data of a message that was cut.              *)
LEMMA NoFrameInside ==
    ASSUME StreamTyped, Pieces, ~LastWhole,
           read = delivered[Taken].first + delivered[Taken].length
    PROVE  FieldOf(0) = {}
  <1>1. /\ frames \in Seq(Frame) /\ DOMAIN frames = 1 .. Len(frames)
        /\ delivered \in Seq(Piece) /\ Taken \in Nat /\ Taken # 0
    BY LenProperties DEF StreamTyped, FramingTypeOK, Frame, Piece, LastWhole, Taken
  <1> DEFINE d == Taken
  <1>2. d \in 1 .. d /\ d \in 1 .. Len(frames)
    BY <1>1, LenProperties DEF Pieces
  <1>3. delivered[d] \in Piece
    BY <1>1, <1>2, ElementOfSeq DEF Taken
  <1>4. /\ delivered[d].first \in Nat /\ delivered[d].length \in Nat
        /\ delivered[d].length > 0
        /\ delivered[d] = [first |-> delivered[d].first, length |-> delivered[d].length]
    BY <1>3, FramingAssumption DEF Piece
  <1>5. /\ frames[d].start \in Nat /\ frames[d].length \in Nat
        /\ FrameEnd(frames[d]) = frames[d].start + 2 * Width + frames[d].length
    BY <1>1, <1>2, FrameFields
  <1>6. /\ delivered[d].first = frames[d].start + 2 * Width
        /\ delivered[d].length <= frames[d].length
    BY <1>2 DEF Pieces, Data
  <1>7. delivered[d].length # frames[d].length
    BY <1>1, <1>4, <1>6 DEF LastWhole, Data
  <1>8. frames[d].start < read /\ read < FrameEnd(frames[d]) /\ read \in Nat
    <2>1. 2 * Width \in Nat /\ 2 * Width > 0
      BY FramingAssumption
    <2> QED
      BY <1>4, <1>5, <1>6, <1>7, <2>1
  <1>9. ASSUME NEW i \in FieldOf(0)
        PROVE  FALSE
    <2>1. i \in 1 .. Len(frames) /\ frames[i].start + 0 = read
      BY <1>1 DEF FieldOf
    <2>2. /\ frames[i].start \in Nat /\ FrameEnd(frames[i]) \in Nat
          /\ frames[i].start < FrameEnd(frames[i])
      BY <1>1, <2>1, FrameFields, FramingAssumption
    <2>3. CASE i < d
      BY <1>2, <1>5, <1>8, <2>1, <2>2, <2>3 DEF StreamTyped, Layout
    <2>4. CASE i = d
      BY <1>8, <2>1, <2>2, <2>4
    <2>5. CASE d < i
      BY <1>2, <1>5, <1>8, <2>1, <2>2, <2>5, FramingAssumption DEF StreamTyped, Layout
    <2> QED
      BY <1>2, <2>1, <2>3, <2>4, <2>5, LenProperties
  <1> QED
    BY <1>9

(* What a read of the begin tag finds: the tag of the next frame; or it    *)
(* is cut, or an earlier read was.                                         *)
LEMMA MagicField ==
    ASSUME StreamTyped, Standing, ~mistaken, at = "magic"
    PROVE  /\ FieldOf(0) # {} =>
                /\ LastWhole /\ Taken < Len(frames)
                /\ read = NextStart(Taken) /\ Got(Width) = Width
           /\ FieldOf(0) = {} => cut \/ Got(Width) # Width
  <1>1. /\ Pieces /\ (~cut => LastWhole)
        /\ read = IF LastWhole THEN NextStart(Taken)
                  ELSE delivered[Taken].first + delivered[Taken].length
    BY DEF Standing, Place
  <1>2. /\ Taken \in Nat /\ Taken <= Len(frames) /\ Len(frames) \in Nat
        /\ frames \in Seq(Frame)
    <2>1. frames \in Seq(Frame) /\ delivered \in Seq(Piece)
      BY DEF StreamTyped, FramingTypeOK, Frame, Piece
    <2> QED
      BY <1>1, <2>1, LenProperties DEF Taken, Pieces
  <1>3. CASE LastWhole
    <2>1. read = NextStart(Taken)
      BY <1>1, <1>3
    <2>2. NextStart(Taken) \in Nat
      BY <1>2, FrameFields DEF NextStart
    <2>3. 0 \in Nat /\ 0 <= Width /\ read = NextStart(Taken) + 0
      BY <2>1, <2>2, FramingAssumption
    <2>4. /\ FieldOf(0) # {} => Taken < Len(frames)
          /\ Got(Width) = Width => FieldOf(0) = {Taken + 1}
      BY <1>2, <2>3, FieldThere
    <2>5. FieldOf(0) # {} => Got(Width) = Width
      BY DEF FieldOf
    <2> QED
      BY <1>3, <2>1, <2>4, <2>5
  <1>4. CASE ~LastWhole
    <2>1. read = delivered[Taken].first + delivered[Taken].length
      BY <1>1, <1>4
    <2>2. FieldOf(0) = {}
      BY <1>1, <1>4, <2>1, NoFrameInside
    <2>3. cut
      BY <1>1, <1>4, Zenon
    <2> QED
      BY <2>2, <2>3, Zenon
  <1> QED
    BY <1>3, <1>4

(* What a read of the length finds: that of the same frame, or it is cut.  *)
LEMMA SizeField ==
    ASSUME StreamTyped, Standing, ~mistaken, at = "size"
    PROVE  /\ LastWhole /\ Taken < Len(frames) /\ Taken \in Nat
           /\ read = NextStart(Taken) + Width /\ NextStart(Taken) \in Nat
           /\ FieldOf(Width) # {} => FieldOf(Width) = {Taken + 1} /\ Got(Width) = Width
           /\ FieldOf(Width) = {} => Got(Width) # Width
  <1>1. /\ Pieces /\ LastWhole /\ Taken < Len(frames)
        /\ read = NextStart(Taken) + Width
    BY DEF Standing, Place
  <1>2. /\ Taken \in Nat /\ Taken <= Len(frames)
        /\ frames \in Seq(Frame)
    BY <1>1, LenProperties DEF StreamTyped, FramingTypeOK, Frame, Piece, Taken, Pieces
  <1>3. NextStart(Taken) \in Nat /\ Width \in Nat /\ Width <= Width
    BY <1>2, FrameFields, FramingAssumption DEF NextStart
  <1>4. /\ FieldOf(Width) \subseteq {Taken + 1}
        /\ Got(Width) = Width => FieldOf(Width) = {Taken + 1}
    BY <1>1, <1>2, <1>3, FieldThere
  <1>5. FieldOf(Width) # {} => Got(Width) = Width
    BY DEF FieldOf
  <1> QED
    BY <1>1, <1>2, <1>3, <1>4, <1>5

LEMMA StandingInit == FramingInit => Standing
  <1> SUFFICES ASSUME FramingInit
               PROVE  Standing
    OBVIOUS
  <1>1. /\ frames = <<>> /\ Len(frames) = 0 /\ at = "idle" /\ read = 0
        /\ delivered = <<>> /\ Taken = 0
    BY DEF FramingInit, Taken
  <1>2. ~mistaken
    BY Zenon DEF FramingInit
  <1>3. LastWhole /\ Pieces
    BY <1>1 DEF LastWhole, Pieces
  <1>4. Place
    BY <1>1, <1>3 DEF Place, NextStart
  <1>5. Reason
    BY <1>1 DEF Reason
  <1> QED
    BY <1>2, <1>3, <1>4, <1>5 DEF Standing

(* The sequences and numbers the steps below speak of.                     *)
LEMMA Numbers ==
    ASSUME StreamTyped
    PROVE  /\ frames \in Seq(Frame) /\ delivered \in Seq(Piece)
           /\ Taken \in Nat /\ Len(frames) \in Nat /\ DOMAIN frames = 1 .. Len(frames)
           /\ read \in Nat /\ size \in Nat /\ Width \in Nat
           /\ Taken <= Len(frames) => NextStart(Taken) \in Nat
  <1>1. frames \in Seq(Frame) /\ delivered \in Seq(Piece)
    BY DEF StreamTyped, FramingTypeOK, Frame, Piece
  <1>2. Taken \in Nat /\ Len(frames) \in Nat /\ DOMAIN frames = 1 .. Len(frames)
    BY <1>1, LenProperties DEF Taken
  <1>3. read \in Nat /\ size \in Nat /\ Width \in Nat
    <2>1. arrived \in 0 .. Written /\ read \in 0 .. arrived /\ size \in 0 .. BufferSize
      BY DEF StreamTyped, FramingTypeOK
    <2> QED
      BY <1>1, <2>1, WrittenNatural, FramingAssumption
  <1>4. Taken <= Len(frames) => NextStart(Taken) \in Nat
    BY <1>1, <1>2, FrameFields DEF NextStart
  <1> QED
    BY <1>1, <1>2, <1>3, <1>4

(* What is true of the messages and the frames stays true while neither    *)
(* changes.                                                                *)
LEMMA StandingStays ==
    ASSUME UNCHANGED <<frames, delivered>>
    PROVE  /\ Taken' = Taken /\ LastWhole' = LastWhole /\ Pieces' = Pieces
           /\ NextStart(Taken)' = NextStart(Taken)
  BY DEF Taken, LastWhole, Pieces, NextStart, Data, FrameEnd

LEMMA StandingWrite ==
    ASSUME StreamTyped, Standing, NEW length \in Lengths, WriteFrame(length)
    PROVE  Standing'
  <1>1. /\ Len(frames') = Len(frames) + 1
        /\ \A i \in 1 .. Len(frames) : frames'[i] = frames[i]
    BY Numbers, WriteFrameLayout DEF StreamTyped
  <1>2. UNCHANGED <<arrived, peer, at, read, size, delivered, cut, mistaken>>
    BY DEF WriteFrame
  <1>3. Taken' = Taken /\ Taken \in Nat /\ Len(frames) \in Nat
    BY <1>2, Numbers DEF Taken
  <1>4. \A i \in 1 .. Len(frames) : Data(i)' = Data(i)
    BY <1>1 DEF Data
  <1>5. ASSUME Pieces, Place, ~cut => LastWhole
        PROVE  Pieces' /\ Place' /\ (~cut => LastWhole)'
    <2>1. Taken <= Len(frames)
      BY <1>5 DEF Pieces
    <2>2. NextStart(Taken)' = NextStart(Taken)
      BY <1>1, <1>3, <2>1 DEF NextStart, FrameEnd
    <2>3. LastWhole' = LastWhole
      <3>1. CASE Taken = 0
        BY <1>3, <3>1 DEF LastWhole
      <3>2. CASE Taken # 0
        <4>1. Data(Taken)' = Data(Taken)
          BY <1>3, <1>4, <2>1, <3>2
        <4> HIDE DEF Data
        <4>2. LastWhole = (Taken = 0 \/ delivered[Taken] = Data(Taken))
          BY DEF LastWhole
        <4>3. LastWhole' = (Taken = 0 \/ delivered[Taken] = Data(Taken))
          BY <1>2, <1>3, <4>1 DEF LastWhole, Data
        <4> QED
          BY <4>2, <4>3
      <3> QED
        BY <3>1, <3>2
    <2>4. Pieces'
      <3>1. \A i \in 1 .. Taken : i \in 1 .. Len(frames)
        BY <1>3, <2>1
      <3> QED
        BY <1>1, <1>2, <1>3, <2>1, <3>1, <1>5 DEF Pieces, Data
    <2>5. ASSUME Taken < Len(frames)
          PROVE  /\ Taken' < Len(frames') /\ frames'[Taken + 1] = frames[Taken + 1]
      BY <1>1, <1>3, <2>5
    <2>6. Place'
      BY <1>2, <1>3, <2>2, <2>3, <2>5, <1>5 DEF Place
    <2> QED
      BY <1>2, <1>5, <2>3, <2>4, <2>6
  <1>6. Reason'
    <2>1. Taken + 1 \in 1 .. Len(frames) =>
            Taken + 1 \in 1 .. Len(frames') /\ frames'[Taken + 1] = frames[Taken + 1]
      BY <1>1, <1>3
    <2> QED
      BY <1>2, <1>3, <2>1 DEF Standing, Reason
  <1>7. mistaken' = mistaken /\ cut' = cut
    BY <1>2
  <1> QED
    BY <1>5, <1>6, <1>7 DEF Standing

LEMMA StandingMagic ==
    ASSUME StreamTyped, Standing, ReadMagic
    PROVE  Standing'
  <1>1. /\ Got(Width) \in 1 .. Width /\ read' = read + Got(Width)
        /\ cut' = (cut \/ Got(Width) < Width)
    BY Numbers, ReadBytes DEF ReadMagic, StreamTyped
  <1>2. /\ at = "magic" /\ UNCHANGED <<frames, delivered, peer>>
        /\ \/ at' = "size" /\ mistaken' = (mistaken \/ FieldOf(0) = {})
           \/ at' = "ended" /\ FieldOf(0) = {} /\ mistaken' = mistaken
    BY DEF ReadMagic, streamVars
  <1>3. Width \in Nat
    BY FramingAssumption
  <1>4. /\ Taken' = Taken /\ LastWhole' = LastWhole /\ Pieces' = Pieces
        /\ NextStart(Taken)' = NextStart(Taken)
    BY <1>2, StandingStays
  <1>5. FieldOf(0) = {} => cut'
    <2>1. Got(Width) # Width => Got(Width) < Width
      BY <1>1, <1>3
    <2>2. mistaken => cut
      BY DEF Standing
    <2>3. ~mistaken /\ FieldOf(0) = {} => cut \/ Got(Width) # Width
      BY <1>2, MagicField
    <2> QED
      BY <1>1, <2>1, <2>2, <2>3, Zenon
  <1>6. mistaken' => cut'
    BY <1>1, <1>2, <1>5 DEF Standing
  <1>7. Reason'
    BY <1>2, <1>5 DEF Reason
  <1>8. ASSUME ~mistaken'
        PROVE  Pieces' /\ Place' /\ (~cut' => LastWhole')
    <2>1. ~mistaken
      BY <1>2, <1>8
    <2>2. Pieces /\ (~cut => LastWhole)
      BY <2>1 DEF Standing
    <2>3. Place'
      <3>1. CASE at' = "ended"
        BY <3>1 DEF Place
      <3>2. CASE at' = "size"
        <4>1. FieldOf(0) # {}
          BY <1>2, <1>8, <3>2
        <4>2. /\ LastWhole /\ Taken < Len(frames)
              /\ read = NextStart(Taken) /\ Got(Width) = Width
          BY <1>2, <2>1, <4>1, MagicField
        <4> QED
          BY <1>1, <1>2, <1>4, <3>2, <4>2 DEF Place
      <3> QED
        BY <1>2, <3>1, <3>2
    <2> QED
      BY <1>1, <1>4, <2>2, <2>3
  <1> QED
    BY <1>6, <1>7, <1>8 DEF Standing

LEMMA StandingSize ==
    ASSUME StreamTyped, Standing, ReadSize
    PROVE  Standing'
  <1>1. /\ Got(Width) \in 1 .. Width /\ read' = read + Got(Width)
        /\ cut' = (cut \/ Got(Width) < Width)
    BY Numbers, ReadBytes DEF ReadSize, StreamTyped
  <1>2. at = "size" /\ UNCHANGED <<frames, delivered, peer>>
    BY DEF ReadSize, streamVars
  <1>3. PICK n \in IF FieldOf(Width) = {} THEN 0 .. BufferSize + 1
                   ELSE {LengthOf(i) : i \in FieldOf(Width)} :
          IF FitsBuffer(n)
          THEN /\ at' = "payload" /\ size' = n
               /\ mistaken' = (mistaken \/ FieldOf(Width) = {})
          ELSE at' = "ended" /\ UNCHANGED <<size, mistaken>>
    BY DEF ReadSize
  <1>4. /\ Taken' = Taken /\ LastWhole' = LastWhole /\ Pieces' = Pieces
        /\ NextStart(Taken)' = NextStart(Taken)
    BY <1>2, StandingStays
  <1>5. Width \in Nat
    BY FramingAssumption
  <1>6. FieldOf(Width) = {} => cut'
    <2>1. Got(Width) # Width => Got(Width) < Width
      BY <1>1, <1>5
    <2>2. mistaken => cut
      BY DEF Standing
    <2>3. ~mistaken /\ FieldOf(Width) = {} => cut \/ Got(Width) # Width
      BY <1>2, SizeField
    <2> QED
      BY <1>1, <2>1, <2>2, <2>3, Zenon
  <1>7. ASSUME ~mistaken, FieldOf(Width) # {}
        PROVE  /\ LastWhole /\ Taken < Len(frames) /\ Taken + 1 \in 1 .. Len(frames)
               /\ read' = NextStart(Taken) + 2 * Width
               /\ n = frames[Taken + 1].length /\ n \in Nat
    <2>1. /\ LastWhole /\ Taken < Len(frames) /\ Taken \in Nat
          /\ read = NextStart(Taken) + Width /\ NextStart(Taken) \in Nat
          /\ FieldOf(Width) = {Taken + 1} /\ Got(Width) = Width
      BY <1>2, <1>7, SizeField
    <2>2. n = frames[Taken + 1].length
      BY <1>3, <2>1 DEF LengthOf
    <2>3. Taken + 1 \in 1 .. Len(frames)
      BY <2>1, Numbers
    <2>4. frames[Taken + 1].length \in Nat
      BY <2>3, Numbers, FrameFields
    <2>5. read' = NextStart(Taken) + 2 * Width
      BY <1>1, <1>5, <2>1
    <2> QED
      BY <2>1, <2>2, <2>3, <2>4, <2>5
  <1>8. mistaken' => cut'
    BY <1>1, <1>3, <1>6 DEF Standing
  <1>9. Reason'
    <2> SUFFICES ASSUME at' = "ended", ~cut'
                 PROVE  /\ Taken + 1 \in 1 .. Len(frames)
                        /\ frames[Taken + 1].length \notin 1 .. BufferSize
      BY <1>2, <1>4 DEF Reason
    <2>1. ~mistaken /\ FieldOf(Width) # {}
      BY <1>1, <1>6 DEF Standing
    <2>2. ~FitsBuffer(n)
      BY <1>3
    <2> QED
      BY <1>7, <2>1, <2>2, FramingAssumption DEF FitsBuffer
  <1>10. ASSUME ~mistaken'
         PROVE  Pieces' /\ Place' /\ (~cut' => LastWhole')
    <2>1. ~mistaken
      BY <1>3, <1>10
    <2>2. Pieces /\ (~cut => LastWhole)
      BY <2>1 DEF Standing
    <2>3. Place'
      <3>1. CASE at' = "ended"
        BY <3>1 DEF Place
      <3>2. CASE at' = "payload"
        <4>1. FieldOf(Width) # {} /\ size' = n
          BY <1>3, <1>10, <3>2
        <4> QED
          BY <1>2, <1>4, <1>7, <2>1, <3>2, <4>1 DEF Place
      <3> QED
        BY <1>3, <3>1, <3>2
    <2> QED
      BY <1>1, <1>4, <2>2, <2>3
  <1> QED
    BY <1>8, <1>9, <1>10 DEF Standing

LEMMA StandingPayload ==
    ASSUME StreamTyped, Standing, ReadPayload
    PROVE  Standing'
  <1>1. /\ Got(size) \in 1 .. size /\ read' = read + Got(size)
        /\ cut' = (cut \/ Got(size) < size)
    BY Numbers, ReadBytes DEF ReadPayload, StreamTyped
  <1>2. /\ at = "payload" /\ at' = "idle" /\ UNCHANGED <<frames, mistaken>>
        /\ delivered' = Append(delivered, [first |-> read, length |-> Got(size)])
    BY DEF ReadPayload, streamVars
  <1> DEFINE d == Taken
             last == [first |-> read, length |-> Got(size)]
  <1>3. last.first = read /\ last.length = Got(size)
    OBVIOUS
  <1>4. last \in Piece
    <2>1. Got(size) \in 1 .. BufferSize
      <3>1. size \in 0 .. BufferSize
        BY DEF StreamTyped, FramingTypeOK
      <3> QED
        BY <1>1, <3>1, FramingAssumption
    <2> QED
      BY <2>1, Numbers DEF Piece
  <1> HIDE DEF last
  <1>5. /\ Taken' = d + 1 /\ d \in Nat /\ delivered'[d + 1] = last
        /\ \A i \in 1 .. d : delivered'[i] = delivered[i]
    BY <1>2, <1>4, Numbers, AppendProperties DEF Taken, last
  <1>6. mistaken => cut
    BY DEF Standing
  <1>7. Reason'
    BY <1>2 DEF Reason
  <1>8. ASSUME ~mistaken
        PROVE  Pieces' /\ Place' /\ (~cut' => LastWhole')
    <2>1. /\ Pieces /\ LastWhole /\ d < Len(frames)
          /\ read = NextStart(d) + 2 * Width /\ size = frames[d + 1].length
      BY <1>2, <1>8 DEF Standing, Place
    <2>2. d + 1 \in 1 .. Len(frames) /\ (d + 1) - 1 = d
      BY <1>5, <2>1, Numbers
    <2>3. frames[d + 1].start = NextStart(d)
      BY <2>2 DEF StreamTyped, Layout
    <2>4. Data(d + 1) = [first |-> read, length |-> size]
      BY <2>1, <2>3 DEF Data
    <2>5. last.first = Data(d + 1).first /\ last.length <= Data(d + 1).length
      BY <1>1, <1>3, <2>4, Numbers
    <2>6. Got(size) = size => last = Data(d + 1)
      BY <2>4 DEF last
    <2>7. last = Data(d + 1) => Got(size) = size
      BY <1>3, <2>4
    <2>8. \A i \in 1 .. d : delivered[i] = Data(i)
      BY <1>5, <2>1 DEF Pieces, LastWhole
    <2>9. \A i : Data(i)' = Data(i)
      BY <1>2 DEF Data
    <2>10. Pieces'
      <3>1. \A i \in 1 .. d + 1 : i \in 1 .. d \/ i = d + 1
        BY <1>5
      <3>2. \A i \in 1 .. d : Data(i).length <= Data(i).length
        <4>1. \A i \in 1 .. d : i \in 1 .. Len(frames)
          BY <1>5, <2>1, Numbers
        <4> QED
          BY <4>1, Numbers, FrameFields DEF Data
      <3>3. ASSUME NEW i \in 1 .. d + 1
            PROVE  /\ delivered'[i].first = Data(i).first
                   /\ delivered'[i].length <= Data(i).length
                   /\ i < d + 1 => delivered'[i] = Data(i)
        <4>1. CASE i \in 1 .. d
          BY <1>5, <2>8, <3>2, <4>1
        <4>2. CASE i = d + 1
          BY <1>5, <2>5, <4>2
        <4> QED
          BY <3>1, <4>1, <4>2
      <3>4. Taken' <= Len(frames')
        BY <1>2, <1>5, <2>2
      <3> QED
        BY <1>2, <1>5, <3>3, <3>4 DEF Pieces, Data
    <2>11. LastWhole' = (Got(size) = size)
      <3>1. LastWhole' = (last = Data(d + 1))
        <4>1. Taken' # 0 /\ delivered'[Taken'] = last
          BY <1>5
        <4> QED
          BY <1>2, <1>5, <4>1 DEF LastWhole, Data
      <3> QED
        BY <2>6, <2>7, <3>1
    <2>12. Place'
      <3>1. NextStart(Taken)' = FrameEnd(frames[d + 1])
        BY <1>2, <1>5 DEF NextStart, FrameEnd
      <3>2. FrameEnd(frames[d + 1]) = NextStart(d) + 2 * Width + size
        BY <2>1, <2>3 DEF FrameEnd
      <3>3. read' = IF LastWhole' THEN NextStart(Taken)'
                    ELSE delivered'[Taken'].first + delivered'[Taken'].length
        BY <1>1, <1>3, <1>5, <2>1, <2>11, <3>1, <3>2
      <3> QED
        BY <1>2, <3>3 DEF Place
    <2>13. ~cut' => LastWhole'
      <3>1. Got(size) # size => Got(size) < size
        BY <1>1, Numbers
      <3> QED
        BY <1>1, <2>11, <3>1, Zenon
    <2> QED
      BY <2>10, <2>12, <2>13
  <1> QED
    BY <1>1, <1>2, <1>6, <1>7, <1>8 DEF Standing

LEMMA StandingNothing ==
    ASSUME StreamTyped, Standing, ReadNothing
    PROVE  Standing'
  <1>1. /\ EndOfStream \/ (at = "payload" /\ size = 0)
        /\ at' = "ended" /\ UNCHANGED <<frames, peer, delivered, cut, mistaken>>
    BY DEF ReadNothing, streamVars
  <1>2. /\ Taken' = Taken /\ LastWhole' = LastWhole /\ Pieces' = Pieces
    BY <1>1, StandingStays
  <1>3. Place'
    BY <1>1 DEF Place
  <1>4. Reason'
    <2> SUFFICES ASSUME ~cut
                 PROVE  \/ peer # "up"
                        \/ /\ Taken + 1 \in 1 .. Len(frames)
                           /\ frames[Taken + 1].length \notin 1 .. BufferSize
      BY <1>1, <1>2 DEF Reason
    <2>1. CASE EndOfStream
      BY <2>1 DEF EndOfStream
    <2>2. CASE at = "payload" /\ size = 0
      <3>1. Taken < Len(frames) /\ size = frames[Taken + 1].length
        BY <2>2 DEF Standing, Place
      <3>2. Taken + 1 \in 1 .. Len(frames)
        BY <3>1, Numbers
      <3> QED
        BY <2>2, <3>1, <3>2, FramingAssumption
    <2> QED
      BY <1>1, <2>1, <2>2
  <1> QED
    BY <1>1, <1>2, <1>3, <1>4 DEF Standing

LEMMA StandingNext ==
    StreamTyped /\ Standing /\ [FramingNext]_framingVars => Standing'
  <1> SUFFICES ASSUME StreamTyped, Standing, [FramingNext]_framingVars
               PROVE  Standing'
    OBVIOUS
  <1>1. ASSUME UNCHANGED <<frames, at, read, size, delivered, cut, mistaken>>,
               peer = "up" \/ peer' = peer
        PROVE  Standing'
    <2>1. /\ Taken' = Taken /\ LastWhole' = LastWhole /\ Pieces' = Pieces
          /\ NextStart(Taken)' = NextStart(Taken)
      BY <1>1, StandingStays
    <2>2. Place' = Place
      BY <1>1, <2>1 DEF Place
    <2> QED
      BY <1>1, <2>1, <2>2 DEF Standing, Reason
  <1>2. CASE Arrive
    BY <1>1, <1>2 DEF Arrive
  <1>3. CASE ClientLeaves
    BY <1>1, <1>3 DEF ClientLeaves
  <1>4. CASE Call
    <2>1. /\ at = "idle" /\ at' = "magic"
          /\ UNCHANGED <<frames, peer, read, size, delivered, cut, mistaken>>
      BY <1>4 DEF Call, streamVars
    <2>2. /\ Taken' = Taken /\ LastWhole' = LastWhole /\ Pieces' = Pieces
          /\ NextStart(Taken)' = NextStart(Taken)
      BY <2>1, StandingStays
    <2>3. Place => Place'
      BY <2>1, <2>2 DEF Place
    <2>4. Reason'
      BY <2>1 DEF Reason
    <2> QED
      BY <2>1, <2>2, <2>3, <2>4 DEF Standing
  <1>5. CASE UNCHANGED framingVars
    BY <1>1, <1>5 DEF framingVars, streamVars
  <1> QED
    BY <1>2, <1>3, <1>4, <1>5, StandingWrite, StandingMagic, StandingSize,
       StandingPayload, StandingNothing DEF FramingNext, Listener

LEMMA StandsAlways == FramingSpec => [](StreamTyped /\ Standing)
  BY StreamTypedInit, StreamTypedNext, StandingInit, StandingNext, PTL DEF FramingSpec

(* Messages are whole and in order as long as no read was cut short.       *)
THEOREM WholeMessages == FramingSpec => []WholeUnlessCut
  <1>1. StreamTyped /\ Standing => WholeUnlessCut
    <2> SUFFICES ASSUME StreamTyped, Standing, ~cut
                 PROVE  /\ ~mistaken
                        /\ \A i \in DOMAIN delivered :
                            i \in DOMAIN frames /\ delivered[i] = Data(i)
      BY DEF WholeUnlessCut
    <2>1. ~mistaken /\ Pieces /\ LastWhole
      BY DEF Standing
    <2>2. DOMAIN delivered = 1 .. Taken
      BY Numbers, LenProperties DEF Taken
    <2>3. \A i \in 1 .. Taken : i \in DOMAIN frames /\ (i < Taken \/ i = Taken)
      BY <2>1, Numbers DEF Pieces
    <2> QED
      BY <2>1, <2>2, <2>3, Numbers DEF Pieces, LastWhole
  <1> QED
    BY <1>1, StandsAlways, PTL

(* Every message begins the data of its frame, and only the last one may   *)
(* lack its end, unless a wrong field was taken for a right one.           *)
THEOREM OneMessageEach == FramingSpec => []OneMessagePerFrame
  <1>1. StreamTyped /\ Standing => OneMessagePerFrame
    <2> SUFFICES ASSUME StreamTyped, Standing, ~mistaken, NEW i \in DOMAIN delivered
                 PROVE  /\ i \in DOMAIN frames
                        /\ delivered[i].first = Data(i).first
                        /\ delivered[i].length <= Data(i).length
                        /\ i < Len(delivered) => delivered[i] = Data(i)
      BY DEF OneMessagePerFrame
    <2>1. Pieces
      BY DEF Standing
    <2>2. i \in 1 .. Taken
      BY Numbers, LenProperties DEF Taken
    <2>3. i \in DOMAIN frames
      BY <2>1, <2>2, Numbers DEF Pieces
    <2> QED
      BY <2>1, <2>2, <2>3 DEF Pieces, Taken
  <1> QED
    BY <1>1, StandsAlways, PTL

(* A client that keeps to the framing and whose fields arrive in one piece *)
(* is not disconnected.                                                    *)
THEOREM GoodClientStays == FramingSpec => []GoodClientKept
  <1>1. StreamTyped /\ Standing => GoodClientKept
    <2> SUFFICES ASSUME StreamTyped, Reason
                 PROVE  GoodClientKept
      BY DEF Standing
    <2> QED
      BY Numbers DEF Reason, GoodClientKept, Taken
  <1> QED
    BY <1>1, StandsAlways, PTL
================================================================================
