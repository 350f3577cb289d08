--------------------------- MODULE Statistics_proofs ---------------------------
(***************************************************************************)
(* Proofs about Statistics for every sequence number space, every mode and *)
(* every stream of packets.                                                *)
(***************************************************************************)
EXTENDS Statistics, FiniteSetTheorems, SequenceTheorems, TLAPS

USE DEF InSequence, Lost, Throughput

(* What division by a positive number gives: rftt is a natural number.     *)
LEMMA DivisionNatural ==
    ASSUME NEW a \in Nat, NEW b \in Nat \ {0}
    PROVE  a \div b \in Nat
  OBVIOUS

(* Adding a sample to a record of sums keeps its type.                     *)
LEMMA AddSampleType ==
    ASSUME NEW s \in Samples, NEW v \in Nat
    PROVE  AddSample(s, v) \in Samples
  <1>1. v * v \in Nat
    OBVIOUS
  <1> QED
    BY <1>1 DEF AddSample, Samples

(* The fields of a packet that statistics calculates with.                 *)
LEMMA PacketFields ==
    ASSUME NEW p \in Packet
    PROVE  /\ p.sn \in SN /\ p.sn \in Nat /\ p.sent \in Nat
           /\ p.rftt \in Nat /\ p.size \in Nat
  <1>1. /\ p.sn \in SN /\ p.sent \in 0 .. MaxClock
        /\ p.rftt \in TripTimes /\ p.size \in Sizes
    BY DEF Packet
  <1>2. SN \subseteq Nat
    BY StatAssumption DEF SN
  <1>3. p.sent \in Nat
    BY <1>1
  <1>4. p.rftt \in Nat /\ p.size \in Nat
    BY <1>1, StatAssumption
  <1> QED
    BY <1>1, <1>2, <1>3, <1>4

(* The types are kept together with the throughput window: the interval    *)
(* clock - lrtime is a natural number because lrtime is in the past.       *)
TypedTimes == StatTypeOK /\ ThroughputWindow

LEMMA TypedTimesInit == StatInit => TypedTimes
  BY StatAssumption
  DEF StatInit, TypedTimes, StatTypeOK, ThroughputWindow, NoSamples, Samples, SN

LEMMA TypedTimesNext == TypedTimes /\ [StatNext]_statVars => TypedTimes'
  <1> SUFFICES ASSUME TypedTimes, [StatNext]_statVars
               PROVE  TypedTimes'
    OBVIOUS
  <1> USE StatAssumption DEF TypedTimes, StatTypeOK, ThroughputWindow
  <1>1. CASE Tick
    BY <1>1 DEF Tick, accountVars
  <1>2. ASSUME NEW p \in Packet, NotApplication(p)
        PROVE  TypedTimes'
    BY <1>2 DEF NotApplication, Arrive, accountVars, fixedVars
  <1>3. ASSUME NEW p \in Packet, Duplicate(p)
        PROVE  TypedTimes'
    <2>1. /\ UNCHANGED <<accountVars, fixedVars, sn_check, pkts_ooseq>>
          /\ pkts_invalid' = pkts_invalid + 1 /\ arrived' = arrived + 1
          /\ esn' = hrsn + 1
      BY <1>3 DEF Duplicate, Expect, Arrive
    <2>2. esn' \in Nat
      BY <2>1 DEF SN
    <2> QED
      BY <2>1, <2>2 DEF accountVars, fixedVars
  <1>4. ASSUME NEW p \in Packet, OutOfSequence(p)
        PROVE  TypedTimes'
    <2>1. /\ UNCHANGED <<accountVars, fixedVars, pkts_invalid>>
          /\ pkts_ooseq' = pkts_ooseq + 1 /\ arrived' = arrived + 1
          /\ esn' = hrsn + 1 /\ sn_check' = sn_check \cup {p.sn}
      BY <1>4 DEF OutOfSequence, Expect, Mark, Arrive
    <2>2. esn' \in Nat
      BY <2>1 DEF SN
    <2>3. sn_check' \in SUBSET SN
      BY <2>1 DEF Packet
    <2> QED
      BY <2>1, <2>2, <2>3 DEF accountVars, fixedVars
  <1>5. ASSUME NEW p \in Packet, Accept(p)
        PROVE  TypedTimes'
    <2>1. /\ p.sn \in SN /\ p.sn \in Nat /\ p.sent \in Nat
          /\ p.rftt \in Nat /\ p.size \in Nat
      BY PacketFields
    <2>2. p.sent <= clock /\ arrived' = arrived + 1 /\ esn' = hrsn + 1
      BY <1>5 DEF Accept, Expect, Arrive
    <2>3. rftt' \in Nat
      <3>1. clock - p.sent \in Nat
        BY <2>1, <2>2
      <3>2. rftt' = (clock - p.sent) \div Second
        BY <1>5 DEF Accept
      <3> QED
        BY <3>1, <3>2, DivisionNatural
    <2>4. rtt' \in Samples /\ ftt' \in Samples
      <3>1. rftt' + p.rftt \in Nat
        BY <2>1, <2>3
      <3> QED
        BY <1>5, <2>3, <3>1, AddSampleType DEF Accept
    <2>5. esn' \in Nat /\ hrsn' \in SN
      BY <1>5, <2>1, <2>2 DEF Accept, SN
    <2>6. pkts_lost' \in Nat
      <3>1. CASE useDropOutOfOrder
        <4>1. p.sn >= esn' /\ pkts_lost' = pkts_lost + (p.sn - esn')
          BY <1>5, <3>1 DEF Accept
        <4> QED
          BY <2>1, <2>5, <4>1
      <3>2. CASE ~useDropOutOfOrder
        BY <1>5, <3>2 DEF Accept
      <3> QED
        BY <3>1, <3>2
    <2>7. sn_check' \in SUBSET SN
      BY <1>5, <2>1 DEF Accept, Mark
    <2>8. /\ sumbytes' \in Nat /\ sumdt' \in Nat /\ lrtime' \in Nat
          /\ pkts_recv' \in Nat /\ sumdt' = lrtime' /\ lrtime' <= clock'
      <3>1. /\ sumbytes' = sumbytes + p.size /\ sumdt' = sumdt + (clock - lrtime)
            /\ pkts_recv' = pkts_recv + 1 /\ lrtime' = clock /\ clock' = clock
        BY <1>5 DEF Accept, fixedVars
      <3> QED
        BY <2>1, <3>1
    <2>9. forwarded' \in Seq(SN)
      BY <1>5, <2>1 DEF Accept
    <2>10. /\ drop_out_of_order' = drop_out_of_order /\ garbage' = garbage
           /\ clock' = clock /\ pkts_ooseq' = pkts_ooseq
           /\ pkts_invalid' = pkts_invalid
      BY <1>5 DEF Accept, fixedVars
    <2> QED
      BY <2>2, <2>3, <2>4, <2>5, <2>6, <2>7, <2>8, <2>9, <2>10
  <1>6. CASE UNCHANGED statVars
    BY <1>6 DEF statVars
  <1> QED
    BY <1>1, <1>2, <1>3, <1>4, <1>5, <1>6 DEF StatNext, recv

(* Every variable keeps its type, whatever packets arrive.                 *)
THEOREM StatTypeCorrect == StatSpec => []StatTypeOK
  <1>1. TypedTimes => StatTypeOK
    BY DEF TypedTimes
  <1> QED
    BY <1>1, TypedTimesInit, TypedTimesNext, PTL DEF StatSpec

--------------------------------------------------------------------------------
(* The counters and the order of what is accepted.  ForwardedIncreasing    *)
(* needs that hrsn is an upper bound of what was accepted, LossAccounting  *)
(* that hrsn itself is what the two counters add up to.                    *)
Accounting ==
    /\ EveryPacketCountedOnce
    /\ useDropOutOfOrder =>
        /\ pkts_recv + pkts_lost = hrsn
        /\ \A i \in 1 .. Len(forwarded) : forwarded[i] <= hrsn
        /\ ForwardedIncreasing

(* What the four outcomes of statistics do to the counters and the order.  *)
LEMMA DroppedPacket ==
    ASSUME NEW p \in Packet,
           NotApplication(p) \/ Duplicate(p) \/ OutOfSequence(p)
    PROVE  /\ arrived' = arrived + 1
           /\ \/ pkts_invalid' = pkts_invalid + 1 /\ pkts_ooseq' = pkts_ooseq
              \/ pkts_invalid' = pkts_invalid /\ pkts_ooseq' = pkts_ooseq + 1
           /\ UNCHANGED <<pkts_recv, pkts_lost, hrsn, forwarded,
                          drop_out_of_order, garbage>>
  <1>1. CASE NotApplication(p)
    BY <1>1 DEF NotApplication, Arrive, accountVars, fixedVars
  <1>2. CASE Duplicate(p)
    BY <1>2 DEF Duplicate, Expect, Arrive, accountVars, fixedVars
  <1>3. CASE OutOfSequence(p)
    BY <1>3 DEF OutOfSequence, Expect, Arrive, accountVars, fixedVars
  <1> QED
    BY <1>1, <1>2, <1>3

LEMMA AcceptedPacket ==
    ASSUME NEW p \in Packet, Accept(p)
    PROVE  /\ arrived' = arrived + 1
           /\ pkts_recv' = pkts_recv + 1
           /\ hrsn' = p.sn /\ forwarded' = Append(forwarded, p.sn)
           /\ useDropOutOfOrder =>
                p.sn >= hrsn + 1 /\ pkts_lost' = pkts_lost + (p.sn - (hrsn + 1))
           /\ UNCHANGED <<pkts_invalid, pkts_ooseq, drop_out_of_order, garbage>>
  BY DEF Accept, Expect, Arrive, fixedVars

(* A growing sequence of numbers goes on growing when a larger one is      *)
(* appended.                                                               *)
Increasing(s) == \A i, j \in 1 .. Len(s) : i < j => s[i] < s[j]

LEMMA AppendIncreasing ==
    ASSUME NEW S \in SUBSET Nat, NEW s \in Seq(S), NEW n \in S,
           Increasing(s), \A i \in 1 .. Len(s) : s[i] < n
    PROVE  /\ Increasing(Append(s, n))
           /\ \A i \in 1 .. Len(Append(s, n)) : Append(s, n)[i] <= n
  <1> DEFINE t == Append(s, n)
  <1>1. /\ Len(t) = Len(s) + 1
        /\ \A i \in 1 .. Len(s) : t[i] = s[i]
        /\ t[Len(s) + 1] = n
    BY AppendProperties
  <1>2. Len(s) \in Nat /\ n \in Nat
    BY LenProperties
  <1>3. \A i \in 1 .. Len(s) : s[i] \in Nat
    BY ElementOfSeq
  <1> HIDE DEF t
  <1>4. ASSUME NEW i \in 1 .. Len(t)
        PROVE  t[i] <= n
    <2>1. CASE i \in 1 .. Len(s)
      BY <1>1, <1>2, <1>3, <2>1
    <2>2. CASE i = Len(s) + 1
      BY <1>1, <1>2, <2>2
    <2> QED
      BY <1>1, <1>2, <2>1, <2>2
  <1>5. ASSUME NEW i \in 1 .. Len(t), NEW j \in 1 .. Len(t), i < j
        PROVE  t[i] < t[j]
    <2>1. i \in 1 .. Len(s)
      BY <1>1, <1>2, <1>5
    <2>2. CASE j \in 1 .. Len(s)
      BY <1>1, <1>5, <2>1, <2>2 DEF Increasing
    <2>3. CASE j = Len(s) + 1
      BY <1>1, <2>1, <2>3
    <2> QED
      BY <1>1, <1>2, <2>2, <2>3
  <1> QED
    BY <1>4, <1>5 DEF t, Increasing

LEMMA AccountingInit == StatInit => Accounting
  BY DEF StatInit, Accounting, EveryPacketCountedOnce, ForwardedIncreasing

LEMMA AccountingNext ==
    TypedTimes /\ Accounting /\ [StatNext]_statVars => Accounting'
  <1> SUFFICES ASSUME TypedTimes, Accounting, [StatNext]_statVars
               PROVE  Accounting'
    OBVIOUS
  <1>1. ASSUME UNCHANGED <<arrived, pkts_recv, pkts_lost, pkts_ooseq, pkts_invalid,
                           hrsn, forwarded, drop_out_of_order>>
        PROVE  Accounting'
    BY <1>1 DEF Accounting, EveryPacketCountedOnce, ForwardedIncreasing,
                useDropOutOfOrder
  <1>2. CASE Tick
    BY <1>1, <1>2 DEF Tick, accountVars
  <1>3. ASSUME NEW p \in Packet,
               NotApplication(p) \/ Duplicate(p) \/ OutOfSequence(p)
        PROVE  Accounting'
    <2>1. EveryPacketCountedOnce'
      BY <1>3, DroppedPacket
      DEF TypedTimes, StatTypeOK, Accounting, EveryPacketCountedOnce
    <2> QED
      BY <1>3, <2>1, DroppedPacket
      DEF Accounting, ForwardedIncreasing, useDropOutOfOrder
  <1>4. ASSUME NEW p \in Packet, Accept(p)
        PROVE  Accounting'
    <2>1. /\ arrived' = arrived + 1 /\ pkts_recv' = pkts_recv + 1
          /\ hrsn' = p.sn /\ forwarded' = Append(forwarded, p.sn)
          /\ useDropOutOfOrder =>
               p.sn >= hrsn + 1 /\ pkts_lost' = pkts_lost + (p.sn - (hrsn + 1))
          /\ pkts_invalid' = pkts_invalid /\ pkts_ooseq' = pkts_ooseq
          /\ drop_out_of_order' = drop_out_of_order
      BY <1>4, AcceptedPacket
    <2>2. SN \in SUBSET Nat /\ p.sn \in SN /\ forwarded \in Seq(SN)
      BY StatAssumption, PacketFields DEF SN, TypedTimes, StatTypeOK
    <2>3. p.sn \in Nat /\ hrsn \in Nat
      BY <2>2 DEF TypedTimes, StatTypeOK
    <2>4. /\ arrived \in Nat /\ pkts_recv \in Nat /\ pkts_lost \in Nat
          /\ pkts_ooseq \in Nat /\ pkts_invalid \in Nat
      BY DEF TypedTimes, StatTypeOK
    <2>5. EveryPacketCountedOnce'
      <3>1. Len(forwarded') = Len(forwarded) + 1
        BY <2>1, <2>2, AppendProperties
      <3> QED
        BY <2>1, <2>4, <3>1 DEF Accounting, EveryPacketCountedOnce
    <2>6. ASSUME useDropOutOfOrder'
          PROVE  /\ pkts_recv' + pkts_lost' = hrsn'
                 /\ \A i \in 1 .. Len(forwarded') : forwarded'[i] <= hrsn'
                 /\ ForwardedIncreasing'
      <3>1. /\ useDropOutOfOrder
            /\ p.sn >= hrsn + 1 /\ pkts_lost' = pkts_lost + (p.sn - (hrsn + 1))
        BY <2>1, <2>6 DEF useDropOutOfOrder
      <3>2. /\ pkts_recv + pkts_lost = hrsn
            /\ \A i \in 1 .. Len(forwarded) : forwarded[i] <= hrsn
            /\ Increasing(forwarded)
        BY <3>1 DEF Accounting, ForwardedIncreasing, Increasing
      <3>3. pkts_recv' + pkts_lost' = hrsn'
        BY <2>1, <2>3, <2>4, <3>1, <3>2
      <3>4. \A i \in 1 .. Len(forwarded) : forwarded[i] < p.sn
        <4> SUFFICES ASSUME NEW i \in 1 .. Len(forwarded)
                     PROVE  forwarded[i] < p.sn
          OBVIOUS
        <4>1. forwarded[i] \in Nat
          BY <2>2, ElementOfSeq
        <4> QED
          BY <2>3, <3>1, <3>2, <4>1
      <3>5. /\ Increasing(forwarded')
            /\ \A i \in 1 .. Len(forwarded') : forwarded'[i] <= p.sn
        BY <2>1, <2>2, <3>2, <3>4, AppendIncreasing
      <3> QED
        BY <2>1, <3>3, <3>5 DEF ForwardedIncreasing, Increasing
    <2> QED
      BY <2>5, <2>6 DEF Accounting
  <1>5. CASE UNCHANGED statVars
    BY <1>1, <1>5 DEF statVars
  <1> QED
    BY <1>2, <1>3, <1>4, <1>5 DEF StatNext, recv

THEOREM AccountingInvariant == StatSpec => [](TypedTimes /\ Accounting)
  BY TypedTimesInit, TypedTimesNext, AccountingInit, AccountingNext, PTL
  DEF StatSpec

(* Every packet is counted in exactly one counter, for any stream of       *)
(* packets and in every mode.                                              *)
THEOREM PacketsCountedOnce == StatSpec => []EveryPacketCountedOnce
  <1>1. Accounting => EveryPacketCountedOnce
    BY DEF Accounting
  <1> QED
    BY <1>1, AccountingInvariant, PTL

(* Received and lost packets add up to the highest sequence number, for    *)
(* any stream of packets, and GetPER is the share of the lost ones.        *)
THEOREM LossesAccounted == StatSpec => []LossAccounting
  <1>1. ASSUME TypedTimes, Accounting
        PROVE  LossAccounting
    <2> SUFFICES ASSUME useDropOutOfOrder
                 PROVE  /\ pkts_recv + pkts_lost = hrsn
                        /\ hrsn > 0 => GetPER = <<hrsn - Len(forwarded), hrsn>>
      BY DEF LossAccounting
    <2>1. /\ pkts_recv + pkts_lost = hrsn /\ pkts_recv = Len(forwarded)
          /\ pkts_recv \in Nat /\ pkts_lost \in Nat
      BY <1>1 DEF Accounting, EveryPacketCountedOnce, TypedTimes, StatTypeOK
    <2>2. pkts_lost = hrsn - Len(forwarded)
      BY <2>1
    <2>3. hrsn > 0 => GetPER = <<pkts_lost, pkts_recv + pkts_lost>>
      BY <2>1 DEF GetPER, useDropOutOfOrder
    <2> QED
      BY <2>1, <2>2, <2>3
  <1> QED
    BY <1>1, AccountingInvariant, PTL

(* What is passed to the application has growing sequence numbers.         *)
THEOREM AcceptedInOrder == StatSpec => []ForwardedIncreasing
  <1>1. Accounting => ForwardedIncreasing
    BY DEF Accounting, ForwardedIncreasing
  <1> QED
    BY <1>1, AccountingInvariant, PTL

(* The throughput window has no gap and no overlap.                        *)
THEOREM ThroughputOverWholeTime == StatSpec => []ThroughputWindow
  <1>1. TypedTimes => ThroughputWindow
    BY DEF TypedTimes
  <1> QED
    BY <1>1, AccountingInvariant, PTL

(* After the last sequence number nothing is accepted any more: esn is     *)
(* beyond every value of the field.                                        *)
THEOREM ExhaustedSequenceNumbers == StatSpec => NothingAfterLastSequenceNumber
  <1>1. ASSUME TypedTimes, [StatNext]_statVars, useDropOutOfOrder, hrsn = SNSpace - 1
        PROVE  forwarded' = forwarded /\ hrsn' = hrsn
    <2>1. CASE Tick
      BY <2>1 DEF Tick, accountVars
    <2>2. ASSUME NEW p \in Packet,
                 NotApplication(p) \/ Duplicate(p) \/ OutOfSequence(p)
          PROVE  forwarded' = forwarded /\ hrsn' = hrsn
      BY <2>2, DroppedPacket
    <2>3. ASSUME NEW p \in Packet, Accept(p)
          PROVE  FALSE
      <3>1. p.sn >= hrsn + 1
        BY <1>1, <2>3, AcceptedPacket
      <3>2. p.sn \in 0 .. SNSpace - 1
        BY PacketFields DEF SN
      <3> QED
        BY <1>1, <3>1, <3>2, StatAssumption
    <2>4. CASE UNCHANGED statVars
      BY <2>4 DEF statVars
    <2> QED
      BY <1>1, <2>1, <2>2, <2>3, <2>4 DEF StatNext, recv
  <1> QED
    BY <1>1, AccountingInvariant, PTL DEF StatSpec, NothingAfterLastSequenceNumber

--------------------------------------------------------------------------------
(* The marks.  MarkedOnce needs that the cell behind the array, if it was  *)
(* set, stays set: no packet is then counted for it.                       *)
Marks ==
    useDropOutOfOrder =>
        /\ garbage \subseteq sn_check
        /\ IsFiniteSet(sn_check \ garbage)
        /\ MarkedOnce
        /\ DuplicateTestSound

(* A packet that is marked was not marked before.                          *)
LEMMA MarkedPacket ==
    ASSUME NEW p \in Packet, OutOfSequence(p) \/ Accept(p), useDropOutOfOrder
    PROVE  p.sn \notin sn_check /\ sn_check' = sn_check \cup {p.sn}
  BY DEF OutOfSequence, Accept, Mark

LEMMA MarksInit == StatInit => Marks
  <1> SUFFICES ASSUME StatInit
               PROVE  Marks
    OBVIOUS
  <1>1. sn_check = garbage /\ sn_check \ garbage = {}
    BY DEF StatInit
  <1>2. pkts_recv = 0 /\ pkts_ooseq = 0
    BY DEF StatInit
  <1> QED
    BY <1>1, <1>2, FS_EmptySet DEF Marks, MarkedOnce, DuplicateTestSound

LEMMA MarksNext == TypedTimes /\ Marks /\ [StatNext]_statVars => Marks'
  <1> SUFFICES ASSUME TypedTimes, Marks, [StatNext]_statVars, useDropOutOfOrder'
               PROVE  /\ (garbage \subseteq sn_check)'
                      /\ IsFiniteSet(sn_check \ garbage)'
                      /\ MarkedOnce'
                      /\ DuplicateTestSound'
    BY DEF Marks
  <1>1. useDropOutOfOrder
    BY DEF StatNext, recv, Tick, NotApplication, Duplicate, OutOfSequence, Accept,
           fixedVars, statVars, useDropOutOfOrder
  <1>2. /\ garbage \subseteq sn_check
        /\ IsFiniteSet(sn_check \ garbage)
        /\ Cardinality(sn_check \ garbage) = pkts_recv + pkts_ooseq
        /\ \A sn \in sn_check \ garbage : sn <= hrsn
    BY <1>1 DEF Marks, MarkedOnce, DuplicateTestSound
  <1>3. ASSUME UNCHANGED <<sn_check, garbage, pkts_recv, pkts_ooseq, hrsn>>
        PROVE  /\ (garbage \subseteq sn_check)'
               /\ IsFiniteSet(sn_check \ garbage)'
               /\ MarkedOnce'
               /\ DuplicateTestSound'
    BY <1>2, <1>3 DEF MarkedOnce, DuplicateTestSound
  <1>4. CASE Tick
    BY <1>3, <1>4 DEF Tick, accountVars
  <1>5. ASSUME NEW p \in Packet, NotApplication(p) \/ Duplicate(p)
        PROVE  UNCHANGED <<sn_check, garbage, pkts_recv, pkts_ooseq, hrsn>>
    BY <1>5 DEF NotApplication, Duplicate, accountVars, fixedVars
  <1>6. ASSUME NEW p \in Packet, OutOfSequence(p) \/ Accept(p)
        PROVE  /\ (garbage \subseteq sn_check)'
               /\ IsFiniteSet(sn_check \ garbage)'
               /\ MarkedOnce'
               /\ DuplicateTestSound'
    <2>1. p.sn \notin sn_check /\ sn_check' = sn_check \cup {p.sn}
      BY <1>1, <1>6, MarkedPacket
    <2>2. garbage' = garbage
      BY <1>6 DEF OutOfSequence, Accept, fixedVars
    <2>3. sn_check' \ garbage' = (sn_check \ garbage) \cup {p.sn}
      BY <1>2, <2>1, <2>2
    <2>4. /\ IsFiniteSet(sn_check' \ garbage')
          /\ Cardinality(sn_check' \ garbage') = Cardinality(sn_check \ garbage) + 1
      <3> DEFINE old == sn_check \ garbage
      <3>1. IsFiniteSet(old) /\ p.sn \notin old
        BY <1>2, <2>1
      <3> HIDE DEF old
      <3>2. /\ IsFiniteSet(old \cup {p.sn})
            /\ Cardinality(old \cup {p.sn}) = Cardinality(old) + 1
        BY <3>1, FS_AddElement
      <3> QED
        BY <2>3, <3>2 DEF old
    <2>5. /\ pkts_recv \in Nat /\ pkts_ooseq \in Nat /\ hrsn \in Nat
          /\ p.sn \in Nat /\ sn_check \subseteq Nat
      BY StatAssumption, PacketFields DEF TypedTimes, StatTypeOK, SN
    <2>6. /\ pkts_recv' + pkts_ooseq' = pkts_recv + pkts_ooseq + 1
          /\ hrsn <= hrsn' /\ p.sn <= hrsn'
      <3>1. CASE OutOfSequence(p)
        <4>1. ~(p.sn >= esn') /\ esn' = hrsn + 1
          BY <3>1 DEF OutOfSequence, Expect
        <4> QED
          BY <2>5, <3>1, <4>1, DroppedPacket DEF OutOfSequence, accountVars
      <3>2. CASE Accept(p)
        <4>1. /\ pkts_recv' = pkts_recv + 1 /\ pkts_ooseq' = pkts_ooseq
              /\ hrsn' = p.sn /\ p.sn >= hrsn + 1
          BY <1>1, <3>2, AcceptedPacket
        <4> QED
          BY <2>5, <4>1
      <3> QED
        BY <1>6, <3>1, <3>2
    <2>7. MarkedOnce'
      BY <1>2, <2>4, <2>6 DEF MarkedOnce
    <2>8. ASSUME NEW sn \in sn_check' \ garbage'
          PROVE  sn <= hrsn'
      <3>1. CASE sn = p.sn
        BY <2>6, <3>1
      <3>2. CASE sn \in sn_check \ garbage
        <4>1. sn <= hrsn /\ sn \in Nat /\ hrsn' \in Nat
          BY <1>2, <2>5, <3>2, TypedTimesNext DEF TypedTimes, StatTypeOK, SN
        <4> QED
          BY <2>5, <2>6, <4>1
      <3> QED
        BY <2>3, <2>8, <3>1, <3>2
    <2> QED
      BY <1>2, <2>1, <2>2, <2>4, <2>7, <2>8 DEF DuplicateTestSound
  <1>7. CASE UNCHANGED statVars
    BY <1>3, <1>7 DEF statVars
  <1> QED
    BY <1>3, <1>4, <1>5, <1>6, <1>7 DEF StatNext, recv

THEOREM MarksInvariant == StatSpec => []Marks
  BY TypedTimesInit, TypedTimesNext, MarksInit, MarksNext, PTL DEF StatSpec

(* When out of order packets are dropped, each sequence number is marked   *)
(* for one received or out of sequence packet only.                        *)
THEOREM MarksCounted == StatSpec => []MarkedOnce
  <1>1. Marks => MarkedOnce
    BY DEF Marks, MarkedOnce
  <1> QED
    BY <1>1, MarksInvariant, PTL

(* The duplicate test never hides a packet that would advance hrsn.        *)
THEOREM DuplicatesBehind == StatSpec => []DuplicateTestSound
  <1>1. Marks => DuplicateTestSound
    BY DEF Marks, DuplicateTestSound
  <1> QED
    BY <1>1, MarksInvariant, PTL

--------------------------------------------------------------------------------
(* The variance of the trip times: a sample v adds                         *)
(* n v^2 - 2 S v + Q to n Q - S^2, and n times that is                     *)
(* (n v - S)^2 + (n Q - S^2).  Without a sample both sums are 0.           *)
Variance(s) == s.samples * s.sum2 - s.sum * s.sum

Spread ==
    /\ FTTVarianceNotNegative
    /\ ftt.samples = 0 => ftt.sum = 0 /\ ftt.sum2 = 0

LEMMA SquareNotNegative ==
    ASSUME NEW x \in Int
    PROVE  x * x >= 0
  OBVIOUS

LEMMA PositiveFactor ==
    ASSUME NEW n \in Nat, n > 0, NEW a \in Int, n * a >= 0
    PROVE  a >= 0
  OBVIOUS

LEMMA VarianceOfSum ==
    ASSUME NEW n \in Nat, NEW s \in Nat, NEW q \in Nat, NEW v \in Nat
    PROVE  /\ (n + 1) * (q + v * v) - (s + v) * (s + v)
                = (n * q - s * s) + (n * (v * v) - 2 * (s * v) + q)
           /\ n * (n * (v * v) - 2 * (s * v) + q)
                = (n * v - s) * (n * v - s) + (n * q - s * s)
  OBVIOUS

(* A further sample leaves the variance at 0 or above.                     *)
LEMMA AddSampleSpread ==
    ASSUME NEW r \in Samples, NEW v \in Nat, Variance(r) >= 0,
           r.samples = 0 => r.sum = 0 /\ r.sum2 = 0
    PROVE  Variance(AddSample(r, v)) >= 0 /\ AddSample(r, v).samples # 0
  <1> DEFINE n == r.samples
             s == r.sum
             q == r.sum2
             a == n * (v * v) - 2 * (s * v) + q
  <1>1. n \in Nat /\ s \in Nat /\ q \in Nat
    BY DEF Samples
  <1>2. Variance(AddSample(r, v)) = (n + 1) * (q + v * v) - (s + v) * (s + v)
    BY DEF Variance, AddSample
  <1>3. n * q - s * s >= 0 /\ (n = 0 => s = 0 /\ q = 0)
    BY DEF Variance
  <1>4. AddSample(r, v).samples # 0
    BY <1>1 DEF AddSample
  <1> HIDE DEF n, s, q
  <1>5. v * v \in Nat /\ s * v \in Nat /\ n * v \in Nat /\ n * q \in Nat /\ s * s \in Nat
    BY <1>1
  <1>6. n * (v * v) \in Nat
    BY <1>1, <1>5
  <1>7. a \in Int
    BY <1>1, <1>5, <1>6
  <1>8. CASE n = 0
    BY <1>1, <1>2, <1>3, <1>4, <1>5, <1>8
  <1>9. CASE n # 0
    <2>1. n * a = (n * v - s) * (n * v - s) + (n * q - s * s)
      BY <1>1, VarianceOfSum
    <2>2. (n * v - s) * (n * v - s) >= 0 /\ (n * v - s) * (n * v - s) \in Int
      <3>1. n * v - s \in Int
        BY <1>1, <1>5
      <3> DEFINE x == n * v - s
      <3> HIDE DEF x
      <3>2. x * x >= 0 /\ x * x \in Int
        BY <3>1, SquareNotNegative DEF x
      <3> QED
        BY <3>2 DEF x
    <2>3. (n * v - s) * (n * v - s) + (n * q - s * s) >= 0
      <3> DEFINE x == (n * v - s) * (n * v - s)
                 y == n * q - s * s
      <3>1. x \in Int /\ x >= 0 /\ y \in Int /\ y >= 0
        BY <1>3, <1>5, <2>2
      <3> HIDE DEF x, y
      <3>2. x + y >= 0
        BY <3>1
      <3> QED
        BY <3>2 DEF x, y
    <2>4. a >= 0
      <3>1. n * a >= 0
        BY <2>1, <2>3
      <3> HIDE DEF a
      <3> QED
        BY <1>1, <1>7, <1>9, <3>1, PositiveFactor
    <2>5. (n + 1) * (q + v * v) - (s + v) * (s + v) = (n * q - s * s) + a
      BY <1>1, VarianceOfSum
    <2>6. (n * q - s * s) + a >= 0
      <3> DEFINE y == n * q - s * s
      <3>1. y \in Int /\ y >= 0
        BY <1>3, <1>5
      <3> HIDE DEF y, a
      <3>2. y + a >= 0
        BY <1>7, <2>4, <3>1
      <3> QED
        BY <3>2 DEF y
    <2> QED
      BY <1>2, <1>4, <2>5, <2>6
  <1> QED
    BY <1>8, <1>9

LEMMA SpreadNext == TypedTimes /\ Spread /\ [StatNext]_statVars => Spread'
  <1> SUFFICES ASSUME TypedTimes, Spread, [StatNext]_statVars
               PROVE  Spread'
    OBVIOUS
  <1>1. CASE ftt' = ftt
    BY <1>1 DEF Spread, FTTVarianceNotNegative, FTTVariance
  <1>2. ASSUME NEW p \in Packet, Accept(p)
        PROVE  Spread'
    <2>1. ftt \in Samples /\ clock \in Nat /\ p.sent <= clock
      BY <1>2 DEF TypedTimes, StatTypeOK, Accept, Expect, Arrive
    <2>2. (clock - p.sent) \div Second \in Nat
      BY <2>1, PacketFields, DivisionNatural, StatAssumption
    <2>3. PICK v \in Nat : ftt' = AddSample(ftt, v)
      BY <1>2, <2>2 DEF Accept
    <2>4. Variance(ftt) >= 0 /\ (ftt.samples = 0 => ftt.sum = 0 /\ ftt.sum2 = 0)
      BY DEF Spread, FTTVarianceNotNegative, FTTVariance, Variance
    <2>5. Variance(ftt') >= 0 /\ ftt'.samples # 0
      BY <2>1, <2>3, <2>4, AddSampleSpread
    <2> QED
      BY <2>5 DEF Spread, FTTVarianceNotNegative, FTTVariance, Variance
  <1>3. ASSUME NEW p \in Packet, NotApplication(p) \/ Duplicate(p) \/ OutOfSequence(p)
        PROVE  ftt' = ftt
    BY <1>3 DEF NotApplication, Duplicate, OutOfSequence, accountVars
  <1>4. ASSUME Tick \/ UNCHANGED statVars
        PROVE  ftt' = ftt
    BY <1>4 DEF Tick, accountVars, statVars
  <1> QED
    BY <1>1, <1>2, <1>3, <1>4 DEF StatNext, recv

(* The sums of the forward trip times give no negative variance, for any   *)
(* number of packets and any trip times: GetFTTstd takes no root of a      *)
(* negative number.                                                        *)
THEOREM VarianceNotNegative == StatSpec => []FTTVarianceNotNegative
  <1>1. StatInit => Spread
    BY DEF StatInit, Spread, NoSamples, FTTVarianceNotNegative, FTTVariance
  <1>2. Spread => FTTVarianceNotNegative
    BY DEF Spread
  <1> QED
    BY <1>1, <1>2, TypedTimesInit, TypedTimesNext, SpreadNext, PTL DEF StatSpec
================================================================================
