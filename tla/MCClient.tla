------------------------------ MODULE MCClient ------------------------------
(* A small instance of Client for TLC.                                     *)
EXTENDS Client

CONSTANT hello

MCConnects == 1..2
MCLoops == 3..5
MCCallers == 1..5
MCSockets == 1..2
MCOf == [l \in MCLoops |-> hello]
=============================================================================
