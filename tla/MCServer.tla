------------------------------ MODULE MCServer ------------------------------
(* Instances of module Server for TLC.                                     *)
EXTENDS Server, TLC

Symmetry == Permutations(Threads) \cup Permutations(Sockets \ Silent)
==============================================================================
