------------------------------- MODULE Statistics -------------------------------
(***************************************************************************)
(* The receiving half of uwAppNetModule: recv and statistics, the counters *)
(* they keep and the values the TCL getters compute from them.  Any packet *)
(* may come at any time: the layers below may lose, repeat and reorder     *)
(* packets and several nodes may send to this one.                         *)
(*                                                                         *)
(* Times are counted in ticks, Second of them in a second.  The handler is *)
(* split into one action per way it ends; it runs in the simulator thread  *)
(* alone, so each is one step.                                             *)
(***************************************************************************)
EXTENDS Integers, Sequences, FiniteSets

CONSTANTS
    SNSpace,            \* number of values of the 16 bit field sn_
    Second,             \* ticks in a second
    Modes,              \* the values a script gives to drop_out_of_order_
    Sizes,              \* the payload sizes of packets
    TripTimes,          \* the values of the field rftt_ of packets
    MaxArrivals,        \* bound: packets that arrive
    MaxClock            \* bound: ticks

ASSUME StatAssumption ==
    /\ SNSpace \in Nat \ {0}
    /\ Second \in Nat \ {0}
    /\ Modes \subseteq Nat
    /\ Sizes \subseteq Nat
    /\ TripTimes \subseteq Nat
    /\ MaxArrivals \in Nat
    /\ MaxClock \in Nat

VARIABLES
    drop_out_of_order,  \* set by the script, here for good
    sn_check,           \* the sequence numbers marked as processed
    garbage,            \* history: what sn_check held before the first packet
    esn, hrsn,
    pkts_recv, pkts_lost, pkts_ooseq, pkts_invalid,
    rftt,               \* seconds: the member is an int
    ftt, rtt,           \* [samples, sum, sum2]
    sumbytes, sumdt, lrtime,
    clock,              \* Scheduler::clock()
    arrived,            \* history: how many packets recv was called with
    forwarded           \* history: the sequence numbers of accepted packets

statVars == <<drop_out_of_order, sn_check, garbage, esn, hrsn, pkts_recv,
              pkts_lost, pkts_ooseq, pkts_invalid, rftt, ftt, rtt, sumbytes,
              sumdt, lrtime, clock, arrived, forwarded>>

SN == 0 .. SNSpace - 1

Packet == [data : BOOLEAN, sn : SN, sent : 0 .. MaxClock, rftt_valid : BOOLEAN,
           rftt : TripTimes, size : Sizes]

Samples == [samples : Nat, sum : Nat, sum2 : Nat]

StatTypeOK ==
    /\ drop_out_of_order \in Modes
    /\ sn_check \in SUBSET SN
    /\ garbage \in SUBSET {SNSpace - 1}
    /\ esn \in Nat /\ hrsn \in SN
    /\ pkts_recv \in Nat /\ pkts_lost \in Nat
    /\ pkts_ooseq \in Nat /\ pkts_invalid \in Nat
    /\ rftt \in Nat /\ ftt \in Samples /\ rtt \in Samples
    /\ sumbytes \in Nat /\ sumdt \in Nat /\ lrtime \in Nat
    /\ clock \in Nat /\ arrived \in Nat
    /\ forwarded \in Seq(SN)

NoSamples == [samples |-> 0, sum |-> 0, sum2 |-> 0]

(* sn_check has USHRT_MAX cells, one less than there are sequence numbers: *)
(* the cell of the last one lies behind the array, with whatever is there. *)
StatInit ==
    /\ drop_out_of_order \in Modes
    /\ garbage \in SUBSET {SNSpace - 1}
    /\ sn_check = garbage
    /\ esn = 0 /\ hrsn = 0
    /\ pkts_recv = 0 /\ pkts_lost = 0 /\ pkts_ooseq = 0 /\ pkts_invalid = 0
    /\ rftt = 0 /\ ftt = NoSamples /\ rtt = NoSamples
    /\ sumbytes = 0 /\ sumdt = 0 /\ lrtime = 0
    /\ clock = 0 /\ arrived = 0
    /\ forwarded = <<>>

useDropOutOfOrder == drop_out_of_order = 1

AddSampleUncounted(s, v) ==     \* variant: the number of samples is not kept
    [samples |-> s.samples, sum |-> s.sum + v, sum2 |-> s.sum2 + v * v]

AddSample(s, v) ==
    [samples |-> s.samples + 1, sum |-> s.sum + v, sum2 |-> s.sum2 + v * v]

--------------------------------------------------------------------------------
(* statistics, one action per outcome                                      *)

Arrive(p) ==
    /\ arrived < MaxArrivals
    /\ p.sent <= clock
    /\ arrived' = arrived + 1

accountVars == <<hrsn, pkts_recv, pkts_lost, rftt, ftt, rtt, sumbytes, sumdt,
                 lrtime, forwarded>>
fixedVars == <<drop_out_of_order, garbage, clock>>

NotApplication(p) ==
    /\ Arrive(p)
    /\ ~p.data
    /\ pkts_invalid' = pkts_invalid + 1
    /\ UNCHANGED <<sn_check, esn, pkts_ooseq, accountVars, fixedVars>>

ExpectWrapped(p) ==             \* variant: the expected number wraps
    /\ Arrive(p)
    /\ p.data
    /\ esn' = (hrsn + 1) % SNSpace

(* The expected number is hrsn + 1 from here on, also for what is dropped. *)
Expect(p) ==
    /\ Arrive(p)
    /\ p.data
    /\ esn' = hrsn + 1

Duplicate(p) ==
    /\ Expect(p)
    /\ useDropOutOfOrder /\ p.sn \in sn_check
    /\ pkts_invalid' = pkts_invalid + 1
    /\ UNCHANGED <<sn_check, pkts_ooseq, accountVars, fixedVars>>

MarkExpected(p) ==              \* variant: the expected number is marked
    /\ useDropOutOfOrder => p.sn \notin sn_check
    /\ sn_check' = sn_check \cup {esn'}

Mark(p) ==
    /\ useDropOutOfOrder => p.sn \notin sn_check
    /\ sn_check' = sn_check \cup {p.sn}

AnySequence(p) == TRUE           \* variant: no test of the order

AfterExpected(p) ==             \* variant: the expected number is too early
    useDropOutOfOrder => p.sn > esn'

InSequence(p) == useDropOutOfOrder => p.sn >= esn'

OutOfSequenceInvalid(p) ==      \* variant: counted as invalid too
    /\ Expect(p)
    /\ Mark(p)
    /\ ~InSequence(p)
    /\ pkts_ooseq' = pkts_ooseq + 1
    /\ pkts_invalid' = pkts_invalid + 1
    /\ UNCHANGED <<accountVars, fixedVars>>

OutOfSequence(p) ==
    /\ Expect(p)
    /\ Mark(p)
    /\ ~InSequence(p)
    /\ pkts_ooseq' = pkts_ooseq + 1
    /\ UNCHANGED <<pkts_invalid, accountVars, fixedVars>>

(* The flag of a round trip time is divided where the time was meant.      *)
RttSample(p) == (IF p.rftt_valid THEN 1 ELSE 0) \div 10000 # 0

LostInAnyMode(p) == p.sn - esn'  \* variant: no test of the mode

LostFromHighest(p) ==           \* variant: counted from hrsn, not from esn
    IF useDropOutOfOrder THEN p.sn - hrsn ELSE 0

(* How many packets are lost before this one.                              *)
Lost(p) == IF useDropOutOfOrder THEN p.sn - esn' ELSE 0

ThroughputFromStart(p) ==       \* variant: the interval begins at 0
    /\ sumbytes' = sumbytes + p.size
    /\ sumdt' = sumdt + clock
    /\ lrtime' = clock

Throughput(p) ==
    /\ sumbytes' = sumbytes + p.size
    /\ sumdt' = sumdt + (clock - lrtime)
    /\ lrtime' = clock

Accept(p) ==
    /\ Expect(p)
    /\ Mark(p)
    /\ InSequence(p)
    /\ rftt' = (clock - p.sent) \div Second
    /\ rtt' = IF RttSample(p) THEN AddSample(rtt, rftt' + p.rftt) ELSE rtt
    /\ ftt' = AddSample(ftt, rftt')
    /\ hrsn' = p.sn
    /\ pkts_lost' = pkts_lost + Lost(p)
    /\ Throughput(p)
    /\ pkts_recv' = pkts_recv + 1
    /\ forwarded' = Append(forwarded, p.sn)
    /\ UNCHANGED <<pkts_ooseq, pkts_invalid, fixedVars>>

recv(p) == NotApplication(p) \/ Duplicate(p) \/ OutOfSequence(p) \/ Accept(p)

Tick ==
    /\ clock < MaxClock
    /\ clock' = clock + 1
    /\ UNCHANGED <<drop_out_of_order, sn_check, garbage, esn, pkts_ooseq,
                   pkts_invalid, accountVars, arrived>>

StatNext == Tick \/ \E p \in Packet : recv(p)

StatSpec == StatInit /\ [][StatNext]_statVars

--------------------------------------------------------------------------------
(* The getters, as fractions <<numerator, denominator>>; 0/1 is their 0.   *)

GetPER ==
    IF drop_out_of_order # 0
    THEN IF pkts_recv + pkts_lost > 0
         THEN <<pkts_lost, pkts_recv + pkts_lost>> ELSE <<0, 1>>
    ELSE IF esn > 1 THEN <<(esn - 1) - pkts_recv, esn - 1>> ELSE <<0, 1>>

GetTHR == IF sumdt # 0 THEN <<sumbytes * 8, sumdt>> ELSE <<0, 1>>

(* The variance GetFTTstd takes the root of, samples * (samples - 1) times.*)
FTTVariance == ftt.samples * ftt.sum2 - ftt.sum * ftt.sum

--------------------------------------------------------------------------------
(* Properties                                                              *)

(* Every packet recv is called with is counted in exactly one of the three *)
(* counters of received, out of sequence and invalid packets, and exactly  *)
(* the received ones were accepted.                                        *)
EveryPacketCountedOnce ==
    /\ arrived = pkts_recv + pkts_ooseq + pkts_invalid
    /\ pkts_recv = Len(forwarded)

(* When out of order packets are dropped, what was received and what is    *)
(* counted as lost add up to the highest sequence number seen, whatever is *)
(* lost, repeated or reordered below: the error rate of GetPER is the      *)
(* share of 1 .. hrsn that did not come in order.                          *)
LossAccounting ==
    useDropOutOfOrder =>
        /\ pkts_recv + pkts_lost = hrsn
        /\ hrsn > 0 => GetPER = <<hrsn - Len(forwarded), hrsn>>

(* When out of order packets are dropped the application sees sequence     *)
(* numbers that only grow: no packet twice, none after a later one.        *)
ForwardedIncreasing ==
    useDropOutOfOrder =>
        \A i, j \in 1 .. Len(forwarded) : i < j => forwarded[i] < forwarded[j]

(* Each sequence number is marked for one packet that is accepted or out   *)
(* of sequence and never again: the marks tell those two counters, the     *)
(* cell behind the array (garbage) left aside.                             *)
MarkedOnce ==
    useDropOutOfOrder =>
        Cardinality(sn_check \ garbage) = pkts_recv + pkts_ooseq

(* The duplicate test never drops a packet that would advance hrsn: every  *)
(* mark is at or below it, but for the cell behind the array.              *)
DuplicateTestSound ==
    useDropOutOfOrder => \A sn \in sn_check \ garbage : sn <= hrsn

(* The throughput is taken over the whole time up to the last accepted     *)
(* packet: the intervals updateThroughput adds up leave no gap and do not  *)
(* overlap, however many packets are dropped between.                      *)
ThroughputWindow == sumdt = lrtime /\ lrtime <= clock

(* The sums updateFTT keeps give no negative variance.                     *)
FTTVarianceNotNegative == FTTVariance >= 0

(* The field sn_ wraps and hrsn does not: once the last sequence number    *)
(* was accepted, no packet is ever accepted again.                         *)
NothingAfterLastSequenceNumber ==
    [][useDropOutOfOrder /\ hrsn = SNSpace - 1 =>
        forwarded' = forwarded /\ hrsn' = hrsn]_statVars
================================================================================
