--------------------------- MODULE AppNetwork_proofs ---------------------------
(***************************************************************************)
(* Proofs about AppNetwork for any number of senders and messages, both    *)
(* networks and both modes.  Every step of the network is a step of        *)
(* Statistics or leaves its variables alone, so that all that is proved of *)
(* Statistics holds here too.                                              *)
(***************************************************************************)
EXTENDS AppNetwork, Statistics_proofs

USE DEF InSequence, Lost, Throughput

(* Packets between nodes are packets recv may be called with.              *)
LEMMA DeliveredPacket ==
    ASSUME NEW s \in Senders, NEW n \in 1 .. Len(sentAt[s]), Deliver(s, n)
    PROVE  \E p \in Packet : p.data /\ p.sn = Number(n) /\ recv(p)
  BY DEF Deliver, PacketsOf

LEMMA StatisticsStep == [NetworkNext]_networkVars => [StatNext]_statVars
  <1> SUFFICES ASSUME [NetworkNext]_networkVars
               PROVE  [StatNext]_statVars
    OBVIOUS
  <1>1. ASSUME NEW s \in Senders, SendDown(s)
        PROVE  UNCHANGED statVars
    BY <1>1 DEF SendDown
  <1>2. ASSUME NEW s \in Senders, NEW n \in 1 .. Len(sentAt[s]), Deliver(s, n)
        PROVE  StatNext
    BY <1>2, DeliveredPacket DEF StatNext
  <1>3. CASE Tick
    BY <1>3 DEF StatNext
  <1>4. CASE UNCHANGED networkVars
    BY <1>4 DEF networkVars
  <1> QED
    BY <1>1, <1>2, <1>3, <1>4 DEF NetworkNext

(* The receiver of a network behaves as Statistics says.                   *)
THEOREM CarriesStatistics == NetworkSpec => StatSpec
  <1>1. NetworkInit => StatInit
    BY DEF NetworkInit
  <1> QED
    BY <1>1, StatisticsStep, PTL DEF NetworkSpec, StatSpec

--------------------------------------------------------------------------------
(* Types, and what a delivery does                                         *)

NetworkTyped == NetworkTypeOK /\ TypedTimes

(* A sender's numbers are n + 1 until they wrap.                           *)
LEMMA Numbers ==
    ASSUME NEW n \in Nat
    PROVE  /\ Number(n) \in SN /\ Number(n) \in Nat
           /\ n + 1 < SNSpace => Number(n) = n + 1
  <1>1. SNSpace \in Nat /\ SNSpace > 0
    BY StatAssumption
  <1>2. (n + 1) % SNSpace \in 0 .. SNSpace - 1
    BY <1>1
  <1>3. n + 1 < SNSpace => (n + 1) % SNSpace = n + 1
    BY <1>1
  <1> QED
    BY <1>1, <1>2, <1>3 DEF Number, SN

(* A smaller number belongs to an earlier message or to a later round.     *)
LEMMA Rounds ==
    ASSUME NEW m \in Nat, NEW n \in Nat, Number(m) < Number(n)
    PROVE  m < n \/ Abstract!Round(m) > Abstract!Round(n)
  <1> DEFINE i == (m + 1) \div SNSpace
             j == (n + 1) \div SNSpace
             a == (m + 1) % SNSpace
             b == (n + 1) % SNSpace
  <1>1. SNSpace \in Nat /\ SNSpace > 0
    BY StatAssumption
  <1>2. /\ i \in Nat /\ a \in Nat /\ m + 1 = SNSpace * i + a
        /\ j \in Nat /\ b \in Nat /\ n + 1 = SNSpace * j + b
    BY <1>1
  <1>3. a < b
    BY DEF Number
  <1> HIDE DEF i, j, a, b
  <1>4. i <= j => m < n
    <2> SUFFICES ASSUME i <= j
                 PROVE  m < n
      OBVIOUS
    <2>1. PICK k \in Nat : j = i + k
      <3>1. j - i \in Nat /\ j = i + (j - i)
        BY <1>2
      <3> QED
        BY <3>1
    <2>2. SNSpace * j = SNSpace * i + SNSpace * k /\ SNSpace * k \in Nat
          /\ SNSpace * i \in Nat
      BY <1>1, <1>2, <2>1
    <2> QED
      BY <1>2, <1>3, <2>2
  <1>5. m < n \/ i > j
    BY <1>2, <1>4
  <1> QED
    BY <1>5 DEF i, j, Abstract!Round

LEMMA AppendRange ==
    ASSUME NEW S, NEW q \in Seq(S), NEW r \in S
    PROVE  {Append(q, r)[i] : i \in DOMAIN Append(q, r)} = {q[i] : i \in DOMAIN q} \cup {r}
  <1> DEFINE t == Append(q, r)
  <1>1. /\ t \in Seq(S) /\ Len(t) = Len(q) + 1 /\ Len(q) \in Nat
        /\ \A i \in 1 .. Len(q) : t[i] = q[i]
        /\ t[Len(q) + 1] = r
    BY AppendProperties, LenProperties
  <1>2. DOMAIN t = 1 .. Len(q) + 1 /\ DOMAIN q = 1 .. Len(q)
    BY <1>1, LenProperties
  <1> HIDE DEF t
  <1>3. DOMAIN t = DOMAIN q \cup {Len(q) + 1}
    BY <1>1, <1>2
  <1>4. {t[i] : i \in DOMAIN t} = {q[i] : i \in DOMAIN q} \cup {r}
    BY <1>1, <1>2, <1>3
  <1> QED
    BY <1>4 DEF t

(* All that a delivery does to what the properties speak of.               *)
LEMMA DeliverStep ==
    ASSUME NetworkTyped, NEW s \in Senders, NEW n \in 1 .. Len(sentAt[s]), Deliver(s, n)
    PROVE  LET r == [from |-> s, n |-> n] IN
           /\ r \in Receipt /\ n \in 1 .. MaxSent /\ n \in Nat
           /\ receipts' = Append(receipts, r) /\ Came' = Came \cup {r}
           /\ network = "fifo" => ~Overtakes(s, n)
           /\ arrived' = arrived + 1 /\ esn' = hrsn + 1
           /\ UNCHANGED <<drop_out_of_order, garbage, network, sentAt>>
           /\ sn_check' = sn_check \cup {Number(n)}
           /\ \/ /\ delivered' = delivered
                 /\ UNCHANGED <<pkts_recv, pkts_lost, hrsn>>
                 /\ useDropOutOfOrder
                 /\ Number(n) \in sn_check \/ Number(n) < hrsn + 1
              \/ /\ delivered' = Append(delivered, r)
                 /\ pkts_recv' = pkts_recv + 1 /\ hrsn' = Number(n)
                 /\ useDropOutOfOrder => Number(n) >= hrsn + 1
  <1> DEFINE r == [from |-> s, n |-> n]
  <1>1. n \in 1 .. MaxSent /\ n \in Nat
    <2>1. Len(sentAt[s]) \in Nat /\ Len(sentAt[s]) <= MaxSent
      BY LenProperties DEF NetworkTyped, NetworkTypeOK
    <2> QED
      BY <2>1, SentAssumption
  <1>2. r \in Receipt
    BY <1>1 DEF Receipt
  <1>3. /\ receipts' = Append(receipts, r)
        /\ network = "fifo" => ~Overtakes(s, n)
        /\ UNCHANGED <<network, sentAt>>
        /\ delivered' = IF pkts_recv' > pkts_recv THEN Append(delivered, r) ELSE delivered
    BY DEF Deliver
  <1>4. Came' = Came \cup {r}
    <2>1. receipts \in Seq(Receipt)
      BY DEF NetworkTyped, NetworkTypeOK
    <2> HIDE DEF r
    <2>2. {Append(receipts, r)[i] : i \in DOMAIN Append(receipts, r)}
            = {receipts[i] : i \in DOMAIN receipts} \cup {r}
      BY <1>2, <2>1, AppendRange
    <2> QED
      BY <1>3, <2>2 DEF Came
  <1>5. PICK p \in Packet : p.data /\ p.sn = Number(n) /\ recv(p)
    BY DeliveredPacket
  <1>6. pkts_recv \in Nat /\ hrsn \in Nat /\ Number(n) \in Nat
    BY <1>1, Numbers, StatAssumption DEF NetworkTyped, NetworkTypeOK, StatTypeOK, SN
  <1>7. CASE Duplicate(p)
    <2>1. /\ arrived' = arrived + 1 /\ esn' = hrsn + 1 /\ sn_check' = sn_check
          /\ useDropOutOfOrder /\ p.sn \in sn_check
          /\ UNCHANGED <<pkts_recv, pkts_lost, hrsn, drop_out_of_order, garbage>>
      BY <1>7 DEF Duplicate, Expect, Arrive, accountVars, fixedVars
    <2> QED
      BY <1>1, <1>2, <1>3, <1>4, <1>5, <1>6, <2>1
  <1>8. CASE OutOfSequence(p)
    <2>1. /\ arrived' = arrived + 1 /\ esn' = hrsn + 1
          /\ sn_check' = sn_check \cup {p.sn}
          /\ useDropOutOfOrder /\ ~(p.sn >= hrsn + 1)
          /\ UNCHANGED <<pkts_recv, pkts_lost, hrsn, drop_out_of_order, garbage>>
      BY <1>8 DEF OutOfSequence, Expect, Arrive, Mark, accountVars, fixedVars
    <2> QED
      BY <1>1, <1>2, <1>3, <1>4, <1>5, <1>6, <2>1
  <1>9. CASE Accept(p)
    <2>1. /\ arrived' = arrived + 1 /\ esn' = hrsn + 1
          /\ sn_check' = sn_check \cup {p.sn}
          /\ useDropOutOfOrder => p.sn >= hrsn + 1
          /\ pkts_recv' = pkts_recv + 1 /\ hrsn' = p.sn
          /\ UNCHANGED <<drop_out_of_order, garbage>>
      BY <1>9 DEF Accept, Expect, Arrive, Mark, fixedVars
    <2> QED
      BY <1>1, <1>2, <1>3, <1>4, <1>5, <1>6, <2>1
  <1> QED
    BY <1>5, <1>7, <1>8, <1>9 DEF recv, NotApplication

(* The type invariant holds of the composition.                            *)
LEMMA NetworkTypedInit == NetworkInit => NetworkTyped
  <1> SUFFICES ASSUME NetworkInit
               PROVE  NetworkTyped
    OBVIOUS
  <1>1. TypedTimes /\ StatTypeOK /\ clock = 0
    BY TypedTimesInit DEF NetworkInit, TypedTimes, StatInit
  <1>2. \A s \in Senders : Len(sentAt[s]) = 0
    BY DEF NetworkInit
  <1>3. sentAt \in [Senders -> Seq(0 .. MaxClock)]
    BY DEF NetworkInit
  <1> QED
    BY <1>1, <1>2, <1>3, StatAssumption, SentAssumption
    DEF NetworkInit, NetworkTyped, NetworkTypeOK

LEMMA NetworkTypedNext ==
    NetworkTyped /\ [NetworkNext]_networkVars => NetworkTyped'
  <1> SUFFICES ASSUME NetworkTyped, [NetworkNext]_networkVars
               PROVE  NetworkTyped'
    OBVIOUS
  <1>1. TypedTimes' /\ StatTypeOK'
    BY StatisticsStep, TypedTimesNext DEF NetworkTyped, TypedTimes
  <1>2. ASSUME NEW s \in Senders, SendDown(s)
        PROVE  NetworkTyped'
    <2>1. /\ sentAt' = [sentAt EXCEPT ![s] = Append(@, clock)]
          /\ Len(sentAt[s]) < MaxSent
          /\ UNCHANGED <<network, receipts, delivered, clock>>
      BY <1>2 DEF SendDown, statVars
    <2>2. /\ sentAt \in [Senders -> Seq(0 .. MaxClock)] /\ clock \in 0 .. MaxClock
          /\ \A k \in Senders : Len(sentAt[k]) <= MaxSent
      BY StatAssumption DEF NetworkTyped, NetworkTypeOK, StatTypeOK
    <2>3. /\ Append(sentAt[s], clock) \in Seq(0 .. MaxClock)
          /\ Len(Append(sentAt[s], clock)) = Len(sentAt[s]) + 1
          /\ Len(sentAt[s]) \in Nat
      BY <2>2, AppendProperties, LenProperties
    <2>4. /\ sentAt' \in [Senders -> Seq(0 .. MaxClock)]
          /\ \A k \in Senders : sentAt'[k] =
                IF k = s THEN Append(sentAt[s], clock) ELSE sentAt[k]
      BY <2>1, <2>2, <2>3
    <2>5. \A k \in Senders : Len(sentAt'[k]) <= MaxSent
      BY <2>1, <2>2, <2>3, <2>4, SentAssumption
    <2> QED
      BY <1>1, <2>1, <2>4, <2>5 DEF NetworkTyped, NetworkTypeOK
  <1>3. ASSUME NEW s \in Senders, NEW n \in 1 .. Len(sentAt[s]), Deliver(s, n)
        PROVE  NetworkTyped'
    <2>1. PICK p \in Packet : recv(p)
      BY <1>3, DeliveredPacket
    <2>2. clock' = clock
      BY <2>1 DEF recv, NotApplication, Duplicate, OutOfSequence, Accept, fixedVars
    <2>3. /\ [from |-> s, n |-> n] \in Receipt
          /\ receipts' = Append(receipts, [from |-> s, n |-> n])
          /\ \/ delivered' = delivered
             \/ delivered' = Append(delivered, [from |-> s, n |-> n])
          /\ UNCHANGED <<network, sentAt>>
      BY <1>3, DeliverStep
    <2>4. receipts \in Seq(Receipt) /\ delivered \in Seq(Receipt)
      BY DEF NetworkTyped, NetworkTypeOK
    <2>5. receipts' \in Seq(Receipt) /\ delivered' \in Seq(Receipt)
      BY <2>3, <2>4, AppendProperties
    <2> QED
      BY <1>1, <2>2, <2>3, <2>5 DEF NetworkTyped, NetworkTypeOK
  <1>4. CASE Tick /\ UNCHANGED nodeVars
    <2>1. clock' <= MaxClock
      BY <1>4, StatAssumption DEF Tick, NetworkTyped, NetworkTypeOK, StatTypeOK
    <2> QED
      BY <1>1, <1>4, <2>1 DEF nodeVars, NetworkTyped, NetworkTypeOK
  <1>5. CASE UNCHANGED networkVars
    BY <1>1, <1>5 DEF networkVars, nodeVars, statVars, NetworkTyped, NetworkTypeOK
  <1> QED
    BY <1>2, <1>3, <1>4, <1>5 DEF NetworkNext

(* Every variable of the composition keeps its type.                       *)
THEOREM NetworkTypeCorrect == NetworkSpec => []NetworkTypeOK
  <1>1. NetworkTyped => NetworkTypeOK
    BY DEF NetworkTyped
  <1> QED
    BY <1>1, NetworkTypedInit, NetworkTypedNext, PTL DEF NetworkSpec

--------------------------------------------------------------------------------
(* What was delivered                                                      *)

(* The history of receipts and the counters tell the same: how many came   *)
(* and were accepted, which numbers are marked, and that hrsn is the number*)
(* of the last accepted message, above that of all others.                 *)
Deliveries ==
    /\ Len(receipts) = arrived
    /\ Len(delivered) = pkts_recv
    /\ \A i \in 1 .. Len(delivered) : delivered[i] \in Came
    /\ sn_check = garbage \cup {Number(r.n) : r \in Came}
    /\ useDropOutOfOrder =>
        /\ \A i \in 1 .. Len(delivered) : Number(delivered[i].n) <= hrsn
        /\ delivered = <<>> => hrsn = 0
        /\ delivered # <<>> => hrsn = Number(delivered[Len(delivered)].n)

LEMMA DeliveriesInit == NetworkInit => Deliveries
  <1> SUFFICES ASSUME NetworkInit
               PROVE  Deliveries
    OBVIOUS
  <1>1. receipts = <<>> /\ delivered = <<>> /\ arrived = 0 /\ pkts_recv = 0
        /\ hrsn = 0 /\ sn_check = garbage
    BY DEF NetworkInit, StatInit
  <1>2. Came = {}
    BY <1>1 DEF Came
  <1> QED
    BY <1>1, <1>2 DEF Deliveries

LEMMA DeliveriesNext ==
    NetworkTyped /\ Deliveries /\ [NetworkNext]_networkVars => Deliveries'
  <1> SUFFICES ASSUME NetworkTyped, Deliveries, [NetworkNext]_networkVars
               PROVE  Deliveries'
    OBVIOUS
  <1>1. CASE UNCHANGED <<arrived, pkts_recv, sn_check, garbage, hrsn,
                         drop_out_of_order, receipts, delivered>>
    <2>1. Came' = Came
      BY <1>1 DEF Came
    <2> QED
      BY <1>1, <2>1 DEF Deliveries, useDropOutOfOrder
  <1>2. ASSUME NEW s \in Senders, SendDown(s)
        PROVE  Deliveries'
    BY <1>1, <1>2 DEF SendDown, statVars
  <1>3. CASE Tick /\ UNCHANGED nodeVars
    BY <1>1, <1>3 DEF Tick, accountVars, nodeVars
  <1>4. CASE UNCHANGED networkVars
    BY <1>1, <1>4 DEF networkVars, nodeVars, statVars
  <1>5. ASSUME NEW s \in Senders, NEW n \in 1 .. Len(sentAt[s]), Deliver(s, n)
        PROVE  Deliveries'
    <2> DEFINE r == [from |-> s, n |-> n]
    <2>1. /\ r \in Receipt /\ n \in Nat /\ r.n = n
          /\ receipts' = Append(receipts, r) /\ Came' = Came \cup {r}
          /\ arrived' = arrived + 1
          /\ UNCHANGED <<drop_out_of_order, garbage>>
          /\ sn_check' = sn_check \cup {Number(n)}
      BY <1>5, DeliverStep
    <2>2. \/ delivered' = delivered /\ pkts_recv' = pkts_recv /\ hrsn' = hrsn
          \/ /\ delivered' = Append(delivered, r)
             /\ pkts_recv' = pkts_recv + 1 /\ hrsn' = Number(n)
             /\ useDropOutOfOrder => Number(n) >= hrsn + 1
      BY <1>5, DeliverStep
    <2>3. /\ receipts \in Seq(Receipt) /\ delivered \in Seq(Receipt)
          /\ hrsn \in Nat /\ pkts_recv \in Nat /\ arrived \in Nat
      BY StatAssumption DEF NetworkTyped, NetworkTypeOK, StatTypeOK, SN
    <2> HIDE DEF r
    <2>4. Len(receipts') = arrived'
      BY <2>1, <2>3, AppendProperties DEF Deliveries
    <2>5. sn_check' = garbage' \cup {Number(q.n) : q \in Came'}
      BY <2>1 DEF Deliveries
    <2>6. CASE delivered' = delivered /\ pkts_recv' = pkts_recv /\ hrsn' = hrsn
      BY <2>1, <2>4, <2>5, <2>6 DEF Deliveries, useDropOutOfOrder
    <2>7. CASE /\ delivered' = Append(delivered, r)
               /\ pkts_recv' = pkts_recv + 1 /\ hrsn' = Number(n)
               /\ useDropOutOfOrder => Number(n) >= hrsn + 1
      <3>1. /\ Len(delivered') = Len(delivered) + 1 /\ Len(delivered) \in Nat
            /\ delivered'[Len(delivered) + 1] = r
            /\ \A i \in 1 .. Len(delivered) : delivered'[i] = delivered[i]
        BY <2>1, <2>3, <2>7, AppendProperties, LenProperties
      <3>2. \A i \in 1 .. Len(delivered) : delivered[i] \in Came /\ delivered[i] \in Receipt
        BY <2>3, ElementOfSeq DEF Deliveries
      <3>3. \A i \in 1 .. Len(delivered') : delivered'[i] \in Came'
        BY <2>1, <3>1, <3>2
      <3>4. Len(delivered') = pkts_recv'
        BY <2>7, <3>1 DEF Deliveries
      <3>5. ASSUME useDropOutOfOrder'
            PROVE  /\ \A i \in 1 .. Len(delivered') : Number(delivered'[i].n) <= hrsn'
                   /\ delivered' # <<>>
                   /\ hrsn' = Number(delivered'[Len(delivered')].n)
        <4>1. useDropOutOfOrder
          BY <2>1, <3>5 DEF useDropOutOfOrder
        <4>2. hrsn' = Number(n) /\ hrsn < Number(n) /\ Number(n) \in Nat
          BY <2>1, <2>3, <2>7, <4>1, Numbers
        <4>3. \A i \in 1 .. Len(delivered) :
                Number(delivered[i].n) \in Nat /\ Number(delivered[i].n) <= hrsn
          <5>1. \A i \in 1 .. Len(delivered) : delivered[i].n \in Nat
            BY <3>2, SentAssumption DEF Receipt
          <5>2. \A i \in 1 .. Len(delivered) : Number(delivered[i].n) \in Nat
            BY <5>1, Numbers
          <5> QED
            BY <4>1, <5>2 DEF Deliveries
        <4>4. \A i \in 1 .. Len(delivered) : Number(delivered'[i].n) <= hrsn'
          <5> SUFFICES ASSUME NEW i \in 1 .. Len(delivered)
                       PROVE  Number(delivered'[i].n) <= hrsn'
            OBVIOUS
          <5>1. delivered'[i].n = delivered[i].n
            BY <3>1
          <5> QED
            BY <2>3, <4>2, <4>3, <5>1
        <4>5. Number(delivered'[Len(delivered')].n) = hrsn'
          BY <2>1, <3>1, <4>2
        <4>6. delivered' # <<>>
          BY <3>1, EmptySeq
        <4>7. \A i \in 1 .. Len(delivered') : Number(delivered'[i].n) <= hrsn'
          BY <3>1, <4>2, <4>4, <4>5
        <4> QED
          BY <4>5, <4>6, <4>7
      <3> QED
        BY <2>4, <2>5, <3>3, <3>4, <3>5 DEF Deliveries
    <2> QED
      BY <2>2, <2>6, <2>7
  <1> QED
    BY <1>2, <1>3, <1>4, <1>5 DEF NetworkNext

LEMMA DeliveriesInvariant == NetworkSpec => [](NetworkTyped /\ Deliveries)
  BY NetworkTypedInit, NetworkTypedNext, DeliveriesInit, DeliveriesNext, PTL
  DEF NetworkSpec

(* In drop mode the losses counted are those up to the last accepted       *)
(* message and one more.                                                   *)
THEOREM LossesOffByOne == NetworkSpec => []OneLossTooMany
  <1>1. ASSUME NetworkTyped, Deliveries, LossAccounting
        PROVE  OneLossTooMany
    <2> SUFFICES ASSUME useDropOutOfOrder, delivered # <<>>
                 PROVE  pkts_lost = ((1 + delivered[Len(delivered)].n) % SNSpace)
                                        - Len(delivered)
      BY DEF OneLossTooMany
    <2>1. pkts_recv + pkts_lost = hrsn /\ pkts_recv = Len(delivered)
          /\ hrsn = Number(delivered[Len(delivered)].n)
      BY <1>1 DEF LossAccounting, Deliveries
    <2>2. pkts_recv \in Nat /\ pkts_lost \in Nat
      BY <1>1 DEF NetworkTyped, NetworkTypeOK, StatTypeOK
    <2>3. delivered \in Seq(Receipt) /\ Len(delivered) \in 1 .. Len(delivered)
      BY <1>1, EmptySeq DEF NetworkTyped, NetworkTypeOK
    <2>4. delivered[Len(delivered)].n \in Nat
      <3>1. delivered[Len(delivered)] \in Receipt
        BY <2>3, ElementOfSeq
      <3> QED
        BY <3>1, SentAssumption DEF Receipt
    <2>5. Number(delivered[Len(delivered)].n)
            = (1 + delivered[Len(delivered)].n) % SNSpace
      BY <2>4 DEF Number
    <2>6. pkts_lost = hrsn - Len(delivered)
      BY <2>1, <2>2
    <2> QED
      BY <2>1, <2>5, <2>6
  <1> QED
    BY <1>1, DeliveriesInvariant, CarriesStatistics, LossesAccounted, PTL

(* In drop mode the packets counted as invalid are those whose number had  *)
(* come before, from whichever sender.                                     *)
THEOREM InvalidKnown == NetworkSpec => []InvalidAreKnownNumbers
  <1>1. ASSUME NetworkTyped, Deliveries, EveryPacketCountedOnce, MarkedOnce
        PROVE  InvalidAreKnownNumbers
    <2> SUFFICES ASSUME useDropOutOfOrder, garbage = {}
                 PROVE  pkts_invalid
                            = Len(receipts) - Cardinality({Number(r.n) : r \in Came})
      BY DEF InvalidAreKnownNumbers
    <2> DEFINE known == {Number(r.n) : r \in Came}
    <2>1. known = sn_check \ garbage
      BY <1>1 DEF Deliveries
    <2> HIDE DEF known
    <2>2. Cardinality(sn_check \ garbage) = pkts_recv + pkts_ooseq
      BY <1>1 DEF MarkedOnce
    <2>3. Len(receipts) = pkts_recv + pkts_ooseq + pkts_invalid
      BY <1>1 DEF Deliveries, EveryPacketCountedOnce
    <2>4. pkts_recv \in Nat /\ pkts_ooseq \in Nat /\ pkts_invalid \in Nat
      BY <1>1 DEF NetworkTyped, NetworkTypeOK, StatTypeOK
    <2>5. pkts_invalid = Len(receipts) - Cardinality(known)
      BY <2>1, <2>2, <2>3, <2>4
    <2> QED
      BY <2>5 DEF known
  <1> QED
    BY <1>1, DeliveriesInvariant, CarriesStatistics, PacketsCountedOnce,
       MarksCounted, PTL

--------------------------------------------------------------------------------
(* The refinement                                                          *)

(* A delivery is a step of OrderedDelivery, or none of its variables       *)
(* changes: a duplicate or an overtaken packet is not handed on.           *)
LEMMA DeliverRefines ==
    ASSUME NetworkTyped, Deliveries,
           NEW s \in Senders, NEW n \in 1 .. Len(sentAt[s]), Deliver(s, n)
    PROVE  Abstract!Receive(s, n) \/ UNCHANGED Abstract!deliveryVars
  <1> DEFINE r == [from |-> s, n |-> n]
  <1>1. UNCHANGED <<drop_out_of_order, network, sentAt>> /\ OrderKept' = OrderKept
    BY DeliverStep DEF OrderKept, useDropOutOfOrder
  <1>2. CASE delivered' = delivered
    BY <1>1, <1>2 DEF Abstract!deliveryVars
  <1>3. CASE /\ delivered' = Append(delivered, r) /\ hrsn' = Number(n)
             /\ useDropOutOfOrder => Number(n) >= hrsn + 1
    <2>1. n \in Nat
      BY DeliverStep
    <2>2. delivered \in Seq(Receipt) /\ hrsn \in Nat
      BY StatAssumption DEF NetworkTyped, NetworkTypeOK, StatTypeOK, SN
    <2>3. ASSUME NEW i \in 1 .. Len(delivered), delivered[i].from = s,
                 OrderKept # "never"
          PROVE  \/ delivered[i].n < n
                 \/ /\ OrderKept = "in round"
                    /\ Abstract!Round(delivered[i].n) > Abstract!Round(n)
      <3>1. delivered[i] \in Receipt /\ delivered[i] \in Came
        BY <2>2, ElementOfSeq DEF Deliveries
      <3>2. delivered[i].n \in Nat
        BY <3>1, SentAssumption DEF Receipt
      <3>3. CASE network # "fifo"
        <4>1. OrderKept = "in round" /\ useDropOutOfOrder
          BY <2>3, <3>3 DEF OrderKept
        <4> HIDE DEF r
        <4>2. Number(delivered[i].n) <= hrsn /\ Number(n) >= hrsn + 1
          BY <1>3, <4>1 DEF Deliveries
        <4>3. Number(delivered[i].n) < Number(n)
          BY <2>1, <2>2, <3>2, <4>2, Numbers
        <4>4. \/ delivered[i].n < n
              \/ Abstract!Round(delivered[i].n) > Abstract!Round(n)
          BY <2>1, <3>2, <4>3, Rounds
        <4> QED
          BY <4>1, <4>4
      <3>4. CASE network = "fifo"
        <4>1. ~Overtakes(s, n)
          BY <3>4, DeliverStep
        <4>2. PICK j \in DOMAIN receipts : delivered[i] = receipts[j]
          BY <3>1 DEF Came
        <4>3. ~(receipts[j].n >= n)
          BY <2>3, <4>1, <4>2 DEF Overtakes
        <4>4. delivered[i].n < n
          BY <2>1, <3>2, <4>2, <4>3
        <4> QED
          BY <4>4
      <3> QED
        BY <3>3, <3>4
    <2>4. DOMAIN delivered = 1 .. Len(delivered)
      BY <2>2, LenProperties
    <2>5. OrderKept # "never" => Abstract!InOrder(s, n)
      BY <2>3, <2>4 DEF Abstract!InOrder
    <2> QED
      BY <1>1, <1>3, <2>5 DEF Abstract!Receive
  <1> QED
    BY <1>2, <1>3, DeliverStep

(* The receiver hands each sender's messages on in order and once over a   *)
(* network that keeps order; in drop mode over any network, in the order   *)
(* of a round of the numbers and once.                                     *)
THEOREM RefinesOrderedDelivery == NetworkSpec => ImplementsOrderedDelivery
  <1>1. NetworkInit => Abstract!DeliveryInit
    <2> SUFFICES ASSUME NetworkInit
                 PROVE  Abstract!DeliveryInit
      OBVIOUS
    <2>1. delivered = <<>> /\ \A s \in Senders : Len(sentAt[s]) = 0
      BY DEF NetworkInit
    <2> QED
      BY <2>1 DEF Abstract!DeliveryInit, OrderKept
  <1>2. ASSUME NetworkTyped, Deliveries, [NetworkNext]_networkVars
        PROVE  [Abstract!DeliveryNext]_(Abstract!deliveryVars)
    <2>1. ASSUME NEW s \in Senders, SendDown(s)
          PROVE  Abstract!SendNext(s)
      <3>1. /\ sentAt' = [sentAt EXCEPT ![s] = Append(@, clock)]
            /\ UNCHANGED <<drop_out_of_order, network, delivered>>
        BY <2>1 DEF SendDown, statVars
      <3>2. /\ sentAt \in [Senders -> Seq(0 .. MaxClock)] /\ clock \in 0 .. MaxClock
        BY <1>2, StatAssumption DEF NetworkTyped, NetworkTypeOK, StatTypeOK
      <3>3. Len(Append(sentAt[s], clock)) = Len(sentAt[s]) + 1
        BY <3>2, AppendProperties
      <3>4. \A k \in Senders : Len(sentAt'[k]) =
                IF k = s THEN Len(sentAt[s]) + 1 ELSE Len(sentAt[k])
        BY <3>1, <3>2, <3>3
      <3>5. [k \in Senders |-> Len(sentAt'[k])] =
                [[k \in Senders |-> Len(sentAt[k])] EXCEPT ![s] = @ + 1]
        BY <3>4
      <3> QED
        BY <3>1, <3>5 DEF Abstract!SendNext, OrderKept, useDropOutOfOrder
    <2>2. ASSUME NEW s \in Senders, NEW n \in 1 .. Len(sentAt[s]), Deliver(s, n)
          PROVE  Abstract!Receive(s, n) \/ UNCHANGED Abstract!deliveryVars
      BY <1>2, <2>2, DeliverRefines
    <2>3. CASE Tick /\ UNCHANGED nodeVars
      BY <2>3 DEF Tick, nodeVars, Abstract!deliveryVars, OrderKept, useDropOutOfOrder
    <2>4. CASE UNCHANGED networkVars
      BY <2>4 DEF networkVars, nodeVars, statVars, Abstract!deliveryVars, OrderKept,
           useDropOutOfOrder
    <2> QED
      BY <1>2, <2>1, <2>2, <2>3, <2>4 DEF NetworkNext, Abstract!DeliveryNext
  <1> QED
    BY <1>1, <1>2, DeliveriesInvariant, PTL
    DEF NetworkSpec, ImplementsOrderedDelivery, Abstract!DeliverySpec

--------------------------------------------------------------------------------
(* One sender over a network that keeps the order                          *)

(* Such a packet is the newest of all that came.                           *)
LEMMA NewestOfAll ==
    ASSUME NetworkTyped, network = "fifo", OneSender',
           NEW s \in Senders, NEW n \in 1 .. Len(sentAt[s]), Deliver(s, n)
    PROVE  /\ OneSender
           /\ \A i \in 1 .. Len(receipts) :
                receipts[i].n \in 1 .. MaxSent /\ receipts[i].n < n
  <1> DEFINE r == [from |-> s, n |-> n]
  <1>1. Came' = Came \cup {r} /\ ~Overtakes(s, n) /\ n \in 1 .. MaxSent
    BY DeliverStep
  <1>2. OneSender
    BY <1>1 DEF OneSender
  <1>3. receipts \in Seq(Receipt) /\ DOMAIN receipts = 1 .. Len(receipts)
    BY LenProperties DEF NetworkTyped, NetworkTypeOK
  <1>4. ASSUME NEW i \in 1 .. Len(receipts)
        PROVE  receipts[i].n \in 1 .. MaxSent /\ receipts[i].n < n
    <2>1. receipts[i] \in Receipt
      BY <1>3, ElementOfSeq
    <2>2. receipts[i] \in Came'
      BY <1>1, <1>3 DEF Came
    <2>3. r \in Came' /\ r.from = s
      BY <1>1
    <2>4. receipts[i].from = s
      BY <2>2, <2>3 DEF OneSender
    <2>5. receipts[i].n \in 1 .. MaxSent
      BY <2>1 DEF Receipt
    <2>6. ~(receipts[i].n >= n)
      BY <1>1, <1>3, <2>4 DEF Overtakes
    <2> QED
      BY <1>1, <2>5, <2>6, SentAssumption
  <1> QED
    BY <1>2, <1>4

(* It is dropped only for the mark behind the array or after a wrap.       *)
LEMMA NewestAccepted ==
    ASSUME NetworkTyped, Deliveries, network = "fifo", OneSender',
           NEW s \in Senders, NEW n \in 1 .. Len(sentAt[s]), Deliver(s, n),
           useDropOutOfOrder => Number(n) \notin garbage /\ n + 1 < SNSpace
    PROVE  /\ delivered' = Append(delivered, [from |-> s, n |-> n])
           /\ pkts_recv' = pkts_recv + 1
  <1>1. /\ n \in 1 .. MaxSent
        /\ \/ useDropOutOfOrder /\ (Number(n) \in sn_check \/ Number(n) < hrsn + 1)
           \/ /\ delivered' = Append(delivered, [from |-> s, n |-> n])
              /\ pkts_recv' = pkts_recv + 1
    BY DeliverStep
  <1> SUFFICES ASSUME useDropOutOfOrder
               PROVE  Number(n) \notin sn_check /\ ~(Number(n) < hrsn + 1)
    BY <1>1
  <1>2. n \in Nat /\ Number(n) = n + 1 /\ n + 1 < SNSpace
    BY <1>1, DeliverStep, Numbers
  <1>3. \A i \in 1 .. Len(receipts) :
            receipts[i].n \in 1 .. MaxSent /\ receipts[i].n < n
    BY NewestOfAll
  <1>4. receipts \in Seq(Receipt) /\ delivered \in Seq(Receipt) /\ hrsn \in Nat
    BY StatAssumption DEF NetworkTyped, NetworkTypeOK, StatTypeOK, SN
  <1>5. \A q \in Came : q.n \in 1 .. MaxSent /\ q.n < n
    <2>1. DOMAIN receipts = 1 .. Len(receipts)
      BY <1>4, LenProperties
    <2> QED
      BY <1>3, <2>1 DEF Came
  <1>6. \A q \in Came : Number(q.n) # Number(n)
    <2> SUFFICES ASSUME NEW q \in Came
                 PROVE  Number(q.n) # Number(n)
      OBVIOUS
    <2>1. q.n \in 1 .. MaxSent /\ q.n < n
      BY <1>5
    <2>2. q.n \in Nat
      BY <2>1, SentAssumption
    <2>3. q.n + 1 < SNSpace
      BY <1>2, <2>1, <2>2, StatAssumption
    <2> QED
      BY <1>2, <2>1, <2>2, <2>3, Numbers
  <1>7. Number(n) \notin sn_check
    BY <1>6 DEF Deliveries
  <1>8. ~(Number(n) < hrsn + 1)
    <2>1. CASE delivered = <<>>
      BY <1>2, <2>1 DEF Deliveries
    <2>2. CASE delivered # <<>>
      <3>1. Len(delivered) \in 1 .. Len(delivered)
        BY <1>4, <2>2, EmptySeq
      <3>2. /\ delivered[Len(delivered)] \in Came
            /\ hrsn = Number(delivered[Len(delivered)].n)
        BY <2>2, <3>1 DEF Deliveries
      <3>3. delivered[Len(delivered)].n < n /\ delivered[Len(delivered)].n \in Nat
        BY <1>5, <3>2, SentAssumption
      <3>4. hrsn = delivered[Len(delivered)].n + 1
        BY <1>2, <3>2, <3>3, Numbers, StatAssumption
      <3> QED
        BY <1>2, <1>4, <3>3, <3>4
    <2> QED
      BY <2>1, <2>2
  <1> QED
    BY <1>7, <1>8

(* The parts of NothingDroppedInOrder.                                     *)
Dropped(q) == useDropOutOfOrder /\ (Number(q.n) \in garbage \/ q.n + 1 >= SNSpace)
HandedOn(q) == \E i \in DOMAIN delivered : delivered[i] = q

LEMMA NothingDroppedNext ==
    NetworkTyped /\ Deliveries /\ NothingDroppedInOrder /\ [NetworkNext]_networkVars
        => NothingDroppedInOrder'
  <1> SUFFICES ASSUME NetworkTyped, Deliveries, NothingDroppedInOrder,
                      [NetworkNext]_networkVars
               PROVE  NothingDroppedInOrder'
    OBVIOUS
  <1>1. CASE UNCHANGED <<garbage, drop_out_of_order, network, receipts, delivered>>
    <2>1. Came' = Came /\ OneSender' = OneSender
      BY <1>1 DEF Came, OneSender
    <2> QED
      BY <1>1, <2>1 DEF NothingDroppedInOrder, useDropOutOfOrder
  <1>2. ASSUME NEW s \in Senders, SendDown(s)
        PROVE  NothingDroppedInOrder'
    BY <1>1, <1>2 DEF SendDown, statVars
  <1>3. CASE Tick /\ UNCHANGED nodeVars
    BY <1>1, <1>3 DEF Tick, nodeVars
  <1>4. CASE UNCHANGED networkVars
    BY <1>1, <1>4 DEF networkVars, nodeVars, statVars
  <1>5. ASSUME NEW s \in Senders, NEW n \in 1 .. Len(sentAt[s]), Deliver(s, n)
        PROVE  NothingDroppedInOrder'
    <2> DEFINE r == [from |-> s, n |-> n]
    <2> SUFFICES ASSUME network' = "fifo", OneSender', NEW q \in Came'
                 PROVE  HandedOn(q)' \/ Dropped(q)'
      BY DEF NothingDroppedInOrder, HandedOn, Dropped
    <2>1. /\ r \in Receipt /\ Came' = Came \cup {r} /\ r.n = n
          /\ UNCHANGED <<garbage, drop_out_of_order, network>>
          /\ delivered' = delivered \/ delivered' = Append(delivered, r)
      BY <1>5, DeliverStep
    <2>2. network = "fifo"
      BY <2>1
    <2>3. OneSender
      BY <1>5, <2>2, NewestOfAll
    <2>4. Dropped(q)' = Dropped(q)
      BY <2>1 DEF Dropped, useDropOutOfOrder
    <2>5. delivered \in Seq(Receipt)
      BY DEF NetworkTyped, NetworkTypeOK
    <2> HIDE DEF r
    <2>6. CASE q \in Came
      <3>1. HandedOn(q) \/ Dropped(q)
        BY <2>2, <2>3, <2>6 DEF NothingDroppedInOrder, HandedOn, Dropped
      <3>2. HandedOn(q) => HandedOn(q)'
        <4>1. CASE delivered' = delivered
          BY <4>1 DEF HandedOn
        <4>2. CASE delivered' = Append(delivered, r)
          <5>1. {delivered'[i] : i \in DOMAIN delivered'}
                    = {delivered[i] : i \in DOMAIN delivered} \cup {r}
            BY <2>1, <2>5, <4>2, AppendRange
          <5> QED
            BY <5>1 DEF HandedOn
        <4> QED
          BY <2>1, <4>1, <4>2
      <3> QED
        BY <2>4, <3>1, <3>2
    <2>7. CASE q = r /\ ~Dropped(q)
      <3>1. useDropOutOfOrder => Number(n) \notin garbage /\ n + 1 < SNSpace
        BY <1>5, <2>1, <2>7, DeliverStep, StatAssumption DEF Dropped
      <3>2. delivered' = Append(delivered, r)
        BY <1>5, <2>2, <3>1, NewestAccepted DEF r
      <3>3. {delivered'[i] : i \in DOMAIN delivered'}
                = {delivered[i] : i \in DOMAIN delivered} \cup {r}
        BY <2>1, <2>5, <3>2, AppendRange
      <3> QED
        BY <2>7, <3>3 DEF HandedOn
    <2> QED
      BY <2>1, <2>4, <2>6, <2>7
  <1> QED
    BY <1>2, <1>3, <1>4, <1>5 DEF NetworkNext

(* Nothing of a single sender is dropped over a network that keeps order.  *)
THEOREM NothingDropped == NetworkSpec => []NothingDroppedInOrder
  <1>1. NetworkInit => NothingDroppedInOrder
    <2> SUFFICES ASSUME NetworkInit
                 PROVE  NothingDroppedInOrder
      OBVIOUS
    <2>1. Came = {}
      BY DEF NetworkInit, Came
    <2> QED
      BY <2>1 DEF NothingDroppedInOrder
  <1> QED
    BY <1>1, NothingDroppedNext, DeliveriesInvariant, PTL DEF NetworkSpec

(* What esn and hrsn are when nothing is dropped: esn is one above the     *)
(* number of the last receipt but one.                                     *)
EsnLags ==
    LET k == Len(receipts) IN
    network = "fifo" /\ OneSender /\ drop_out_of_order = 0 =>
        /\ pkts_recv = k
        /\ k = 0 => hrsn = 0 /\ esn = 0
        /\ k = 1 => esn = 1
        /\ k > 1 => esn = Number(receipts[k - 1].n) + 1
        /\ k > 0 => hrsn = Number(receipts[k].n)

LEMMA EsnLagsNext ==
    NetworkTyped /\ Deliveries /\ EsnLags /\ [NetworkNext]_networkVars => EsnLags'
  <1> SUFFICES ASSUME NetworkTyped, Deliveries, EsnLags, [NetworkNext]_networkVars
               PROVE  EsnLags'
    OBVIOUS
  <1>1. CASE UNCHANGED <<network, drop_out_of_order, receipts, pkts_recv, hrsn, esn>>
    <2>1. OneSender' = OneSender
      BY <1>1 DEF Came, OneSender
    <2> QED
      BY <1>1, <2>1 DEF EsnLags
  <1>2. ASSUME NEW s \in Senders, SendDown(s)
        PROVE  EsnLags'
    BY <1>1, <1>2 DEF SendDown, statVars
  <1>3. CASE Tick /\ UNCHANGED nodeVars
    BY <1>1, <1>3 DEF Tick, nodeVars, accountVars
  <1>4. CASE UNCHANGED networkVars
    BY <1>1, <1>4 DEF networkVars, nodeVars, statVars
  <1>5. ASSUME NEW s \in Senders, NEW n \in 1 .. Len(sentAt[s]), Deliver(s, n)
        PROVE  EsnLags'
    <2> DEFINE r == [from |-> s, n |-> n]
    <2> DEFINE k == Len(receipts)
    <2> SUFFICES ASSUME network' = "fifo", OneSender', drop_out_of_order' = 0
                 PROVE  LET j == Len(receipts') IN
                        /\ pkts_recv' = j
                        /\ j = 0 => hrsn' = 0 /\ esn' = 0
                        /\ j = 1 => esn' = 1
                        /\ j > 1 => esn' = Number(receipts'[j - 1].n) + 1
                        /\ j > 0 => hrsn' = Number(receipts'[j].n)
      BY DEF EsnLags
    <2>1. /\ r \in Receipt /\ r.n = n /\ n \in 1 .. MaxSent
          /\ receipts' = Append(receipts, r)
          /\ UNCHANGED <<drop_out_of_order, network>>
          /\ esn' = hrsn + 1
      BY <1>5, DeliverStep
    <2>2. network = "fifo" /\ drop_out_of_order = 0
      BY <2>1
    <2>3. OneSender /\ \A i \in 1 .. k :
            receipts[i].n \in 1 .. MaxSent /\ receipts[i].n < n
      BY <1>5, <2>2, NewestOfAll
    <2>4. ~useDropOutOfOrder
      BY <2>2 DEF useDropOutOfOrder
    <2>5. pkts_recv' = pkts_recv + 1 /\ hrsn' = Number(n)
      BY <1>5, <2>4, DeliverStep
    <2>6. receipts \in Seq(Receipt)
      BY DEF NetworkTyped, NetworkTypeOK
    <2> HIDE DEF r
    <2>7. /\ k \in Nat /\ Len(receipts') = k + 1
          /\ receipts'[k + 1] = r
          /\ \A i \in 1 .. k : receipts'[i] = receipts[i]
      BY <2>1, <2>6, AppendProperties, LenProperties
    <2>8. /\ pkts_recv = k
          /\ k = 0 => hrsn = 0
          /\ k > 0 => hrsn = Number(receipts[k].n)
      BY <2>2, <2>3 DEF EsnLags
    <2> HIDE DEF k
    <2>9. k = 0 => esn' = 1
      BY <2>1, <2>8
    <2>10. k > 0 => esn' = Number(receipts'[k].n) + 1
      BY <2>1, <2>7, <2>8
    <2>11. (k + 1) - 1 = k /\ (k + 1 = 1 => k = 0) /\ (k + 1 > 1 => k > 0) /\ k + 1 # 0
      BY <2>7
    <2> QED
      BY <2>1, <2>5, <2>7, <2>8, <2>9, <2>10, <2>11
  <1> QED
    BY <1>2, <1>3, <1>4, <1>5 DEF NetworkNext

(* The error rate without dropping is that of the receipts before the last.*)
THEOREM ErrorRateMeaning == NetworkSpec => []ErrorRateLagsBehind
  <1>1. NetworkInit => EsnLags
    <2> SUFFICES ASSUME NetworkInit
                 PROVE  EsnLags
      OBVIOUS
    <2>1. Len(receipts) = 0 /\ pkts_recv = 0 /\ hrsn = 0 /\ esn = 0
      BY DEF NetworkInit, StatInit
    <2> QED
      BY <2>1 DEF EsnLags
  <1>2. ASSUME NetworkTyped, EsnLags
        PROVE  ErrorRateLagsBehind
    <2> DEFINE k == Len(receipts)
    <2> DEFINE before == (receipts[k - 1].n + 1) % SNSpace
    <2> SUFFICES ASSUME network = "fifo", OneSender, drop_out_of_order = 0
                 PROVE  GetPER = IF k < 2 \/ before = 0 THEN <<0, 1>>
                                 ELSE <<before - k, before>>
      BY DEF ErrorRateLagsBehind
    <2>1. receipts \in Seq(Receipt) /\ k \in Nat
      BY <1>2, LenProperties DEF NetworkTyped, NetworkTypeOK
    <2>2. /\ pkts_recv = k
          /\ k = 0 => esn = 0
          /\ k = 1 => esn = 1
          /\ k > 1 => esn = before + 1
      BY <1>2 DEF EsnLags, Number
    <2>3. k > 1 => before \in Nat
      <3> SUFFICES ASSUME k > 1
                   PROVE  before \in Nat
        OBVIOUS
      <3>1. receipts[k - 1] \in Receipt
        BY <2>1, ElementOfSeq
      <3>2. receipts[k - 1].n \in Nat
        BY <3>1, SentAssumption DEF Receipt
      <3> QED
        BY <3>2, Numbers DEF Number
    <2> HIDE DEF before, k
    <2>4. CASE k < 2
      <3>1. ~(esn > 1)
        BY <2>1, <2>2, <2>4
      <3> QED
        BY <2>4, <3>1 DEF GetPER
    <2>5. CASE k > 1
      <3>1. /\ esn > 1 <=> before # 0
            /\ esn - 1 = before
            /\ ~(k < 2)
        BY <2>1, <2>2, <2>3, <2>5
      <3> QED
        BY <2>2, <3>1 DEF GetPER
    <2> QED
      BY <2>1, <2>4, <2>5
  <1> QED
    BY <1>1, <1>2, EsnLagsNext, DeliveriesInvariant, PTL DEF NetworkSpec
================================================================================
