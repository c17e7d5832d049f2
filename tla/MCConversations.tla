--------------------------- MODULE MCConversations ---------------------------
(* A small instance of Conversations for TLC.                              *)
EXTENDS Conversations, TLC

CONSTANTS alice, bob, carol

Symmetry == Permutations(Requests) \cup Permutations({bob, carol})
=============================================================================
