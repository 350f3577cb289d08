------------------------------- MODULE AppNetwork -------------------------------
(***************************************************************************)
(* Several nodes and one receiver: what init_Packet_TCP of each sender     *)
(* gives to sendDown crosses the layers below and comes to recv of the     *)
(* receiver, whose counters are those of Statistics.  The sender is here   *)
(* what SentPacketsCounted says of it: its n-th message has number n + 1.  *)
(* The layers below are not part of this repository; they are one of two   *)
(* networks:                                                               *)
(*   "fifo"  packets of a sender come once, in order, or are lost          *)
(*   "any"   packets come any number of times, at any time, or not at all  *)
(***************************************************************************)
EXTENDS Statistics

CONSTANTS
    Senders,            \* the other nodes
    MaxSent             \* bound: messages of a sender

(* Nothing is assumed of it and SNSpace: a sender's numbers may wrap.      *)
ASSUME SentAssumption == MaxSent \in Nat

VARIABLES
    network,            \* "fifo" or "any"
    sentAt,             \* sentAt[s][n]: when s sent its n-th message
    receipts,           \* history: the messages that came, as [from, n]
    delivered           \* history: those that statistics accepted

nodeVars == <<network, sentAt, receipts, delivered>>
networkVars == <<statVars, nodeVars>>

Receipt == [from : Senders, n : 1 .. MaxSent]

NetworkTypeOK ==
    /\ StatTypeOK /\ clock <= MaxClock
    /\ network \in {"fifo", "any"}
    /\ sentAt \in [Senders -> Seq(0 .. MaxClock)]
    /\ \A s \in Senders : Len(sentAt[s]) <= MaxSent
    /\ receipts \in Seq(Receipt) /\ delivered \in Seq(Receipt)

NetworkInit ==
    /\ StatInit
    /\ network \in {"fifo", "any"}
    /\ sentAt = [s \in Senders |-> <<>>]
    /\ receipts = <<>> /\ delivered = <<>>

FirstNumberOne(n) == n % SNSpace    \* variant: txsn++ in place of ++txsn

(* sn_ of the n-th message of a node: txsn starts at 1 and is incremented  *)
(* before it is used.                                                      *)
Number(n) == (n + 1) % SNSpace

SendDown(s) ==
    /\ Len(sentAt[s]) < MaxSent
    /\ sentAt' = [sentAt EXCEPT ![s] = Append(@, clock)]
    /\ UNCHANGED <<statVars, network, receipts, delivered>>

(* The packet of the n-th message of s.  A sender's rftt is never negative,*)
(* so that it always says it is valid.                                     *)
PacketsOf(s, n) ==
    {p \in Packet : p.data /\ p.rftt_valid /\ p.sn = Number(n) /\ p.sent = sentAt[s][n]}

Overtakes(s, n) == \E i \in DOMAIN receipts : receipts[i].from = s /\ receipts[i].n >= n

Deliver(s, n) ==
    /\ network = "fifo" => ~Overtakes(s, n)
    /\ \E p \in PacketsOf(s, n) : recv(p)
    /\ receipts' = Append(receipts, [from |-> s, n |-> n])
    /\ delivered' = IF pkts_recv' > pkts_recv
                    THEN Append(delivered, [from |-> s, n |-> n]) ELSE delivered
    /\ UNCHANGED <<network, sentAt>>

NetworkNext ==
    \/ \E s \in Senders : SendDown(s) \/ \E n \in 1 .. Len(sentAt[s]) : Deliver(s, n)
    \/ Tick /\ UNCHANGED nodeVars

NetworkSpec == NetworkInit /\ [][NetworkNext]_networkVars

--------------------------------------------------------------------------------
(* Properties                                                              *)

(* Refinement: over a network that keeps the order the application gets    *)
(* each sender's messages in order and once; with drop_out_of_order_ over  *)
(* any network, as long as the numbers do not wrap between two of them,    *)
(* and once in any case.                                                   *)
OrderKept == IF network = "fifo" THEN "always"
             ELSE IF useDropOutOfOrder THEN "in round" ELSE "never"

Abstract == INSTANCE OrderedDelivery
            WITH Numbers <- SNSpace, order <- OrderKept,
                 sent <- [s \in Senders |-> Len(sentAt[s])],
                 received <- delivered

ImplementsOrderedDelivery == Abstract!DeliverySpec

Came == {receipts[i] : i \in DOMAIN receipts}

(* Messages of a single sender: the others have not been heard.            *)
OneSender == \A r, q \in Came : r.from = q.from

(* The losses the receiver counts are the messages up to the last accepted *)
(* one that were not accepted, and one more: the first message of a node   *)
(* has number 2.  So it is whatever is lost, late or repeated; with several*)
(* senders each hides the losses of the others, and a number that wrapped  *)
(* hides those of the rounds before.                                       *)
OneLossTooMany ==
    useDropOutOfOrder /\ delivered # <<>> =>
        pkts_lost = ((1 + delivered[Len(delivered)].n) % SNSpace) - Len(delivered)

(* In drop mode pkts_invalid counts the packets whose number had come      *)
(* before: a repeated packet, whether its first copy was accepted or came  *)
(* late, and also the first packet with that number of another sender or   *)
(* of a later round.                                                       *)
InvalidAreKnownNumbers ==
    useDropOutOfOrder /\ garbage = {} =>
        pkts_invalid = Len(receipts) - Cardinality({Number(r.n) : r \in Came})

(* Over a network that keeps the order nothing of a single sender is       *)
(* dropped, except the packet whose mark lies behind sn_check and those    *)
(* sent after the numbers wrapped.                                         *)
NothingDroppedInOrder ==
    network = "fifo" /\ OneSender =>
        \A r \in Came :
            \/ \E i \in DOMAIN delivered : delivered[i] = r
            \/ useDropOutOfOrder
               /\ (Number(r.n) \in garbage \/ r.n + 1 >= SNSpace)

(* What the error rate means without dropping, with one sender and an      *)
(* order that is kept: the messages lost up to the last receipt but one,   *)
(* over one more than had been sent then.  It is 0 if nothing is lost: that*)
(* the first number is 2 and that esn lags behind cancel.  After a wrap the*)
(* messages sent count from the wrap, and the rate falls below 0.          *)
ErrorRateLagsBehind ==
    LET k == Len(receipts)
        before == (receipts[k - 1].n + 1) % SNSpace IN
    network = "fifo" /\ OneSender /\ drop_out_of_order = 0 =>
        GetPER = IF k < 2 \/ before = 0 THEN <<0, 1>> ELSE <<before - k, before>>
================================================================================
