------------------------------ MODULE MCSessions ------------------------------
(* A small instance of Sessions for TLC.                                   *)
EXTENDS Sessions, TLC

Symmetry == Permutations(Sessions) \cup Permutations(Families) \cup Permutations(Requests)
=============================================================================
