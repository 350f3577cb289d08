------------------------------ MODULE MCAppNetwork ------------------------------
(* A small instance of AppNetwork.                                         *)
EXTENDS AppNetwork, TLC

Symmetry == Permutations(Senders)
================================================================================
