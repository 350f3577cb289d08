----------------------------- MODULE OrderedDelivery -----------------------------
(***************************************************************************)
(* What the receiving half of uwAppNetModule promises about the messages   *)
(* of several senders: what it hands on was sent, and then, by the order   *)
(* that is kept,                                                           *)
(*   "always"    each sender's messages come in the order in which they    *)
(*               were sent and none of them twice                          *)
(*   "in round"  none comes twice, and those of one round of the sequence  *)
(*               numbers come in order: one that was sent a round later    *)
(*               may come first, since its number is small again           *)
(*   "never"     nothing more                                              *)
(* Messages may be lost in any case.                                       *)
(***************************************************************************)
EXTENDS Naturals, Sequences

CONSTANTS
    Senders,
    Numbers         \* how many sequence numbers there are

VARIABLES
    order,          \* which order is kept, here for good
    sent,           \* sent[s]: how many messages s has sent
    received        \* the messages handed on, as [from, n]

deliveryVars == <<order, sent, received>>

DeliveryInit ==
    /\ order \in {"always", "in round", "never"}
    /\ sent = [s \in Senders |-> 0]
    /\ received = <<>>

SendNext(s) ==
    /\ sent' = [sent EXCEPT ![s] = @ + 1]
    /\ UNCHANGED <<order, received>>

(* The round of the n-th message: the first one has number 2.              *)
Round(n) == (n + 1) \div Numbers

(* The n-th message of s comes after all that were received of s, but for  *)
(* those of later rounds if the order is that of a round.                  *)
InOrder(s, n) ==
    \A i \in DOMAIN received : received[i].from = s =>
        \/ received[i].n < n
        \/ order = "in round" /\ Round(received[i].n) > Round(n)

Receive(s, n) ==
    /\ n \in 1 .. sent[s]
    /\ order # "never" => InOrder(s, n)
    /\ received' = Append(received, [from |-> s, n |-> n])
    /\ UNCHANGED <<order, sent>>

DeliveryNext == \E s \in Senders : SendNext(s) \/ \E n \in 1 .. sent[s] : Receive(s, n)

DeliverySpec == DeliveryInit /\ [][DeliveryNext]_deliveryVars
================================================================================
