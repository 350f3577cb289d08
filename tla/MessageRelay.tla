------------------------------ MODULE MessageRelay ------------------------------
(***************************************************************************)
(* What the sending half of uwAppNetModule promises to its clients: the    *)
(* messages of a client go down the stack in the order in which the client *)
(* sent them, each once, without a gap.  Whatever ends the relaying (the   *)
(* client leaves, a malformed message, stop) loses only a suffix.          *)
(***************************************************************************)
EXTENDS Naturals, Sequences, FiniteSets

CONSTANT Conns

VARIABLES
    submitted,      \* submitted[c]: messages client c has begun to send
    relayed         \* the messages sent down, as [conn, seq]

relayVars == <<submitted, relayed>>

RelayedOf(c) == Cardinality({i \in DOMAIN relayed : relayed[i].conn = c})

RelayInit ==
    /\ submitted = [c \in Conns |-> 0]
    /\ relayed = <<>>

Submit(c) ==
    /\ submitted' = [submitted EXCEPT ![c] = @ + 1]
    /\ UNCHANGED relayed

Relay(c) ==
    /\ RelayedOf(c) < submitted[c]
    /\ relayed' = Append(relayed, [conn |-> c, seq |-> RelayedOf(c) + 1])
    /\ UNCHANGED submitted

RelayNext == \E c \in Conns : Submit(c) \/ Relay(c)

RelaySpec == RelayInit /\ [][RelayNext]_relayVars
================================================================================
