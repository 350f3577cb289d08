-------------------------------- MODULE MCAppNet --------------------------------
(* Small instances of AppNetModule.                                        *)
EXTENDS AppNetModule, TLC

Symmetry == Permutations(Listeners) \cup Permutations(Conns)
================================================================================
