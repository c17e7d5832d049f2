----------------------------- MODULE MCMessages -----------------------------
(* A small instance of Messages for TLC.                                   *)
EXTENDS MessagesLog

CONSTANTS alice, bob, photo, hello

MCOwner == [a \in Attachments |-> alice]

(* A text, and a photo without a caption.                                  *)
MCPayloads == {[body |-> hello, files |-> {}], [body |-> None, files |-> {photo}]}
=============================================================================
