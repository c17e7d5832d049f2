------------------------------ MODULE MCUploads ------------------------------
(* A small instance of Uploads for TLC: the owner's two conversations, with *)
(* one other reader each.                                                   *)
EXTENDS Uploads

CONSTANTS alice, bob, carol, c1, c2

MCUploadSet == 1..2
MCRequests == 1..3
MCConversations == {c1, c2}
MCTargets == [u \in MCUploadSet |-> IF u = 1 THEN {c1} ELSE MCConversations]
MCUsers == {alice, bob, carol}
MCReaders == [c \in MCConversations |-> {alice, IF c = c1 THEN bob ELSE carol}]
=============================================================================
