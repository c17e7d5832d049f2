------------------------------ MODULE MCSyncLog ------------------------------
(* A small instance of SyncLog for TLC.                                    *)
EXTENDS SyncLog, TLC

Symmetry == Permutations(Writers) \cup Permutations(Mine)
=============================================================================
