----------------------------- MODULE UploadLife -----------------------------
(***************************************************************************)
(* What an upload goes through, without requests, rows or locks: it is     *)
(* granted, found to be what it should be, shown by a message, or, before  *)
(* that and only then, removed.                                            *)
(***************************************************************************)
CONSTANT Uploads
VARIABLE stage    \* [Uploads -> Stage]

Stage == {"none", "pending", "ready", "shown", "removed"}

Move(from, to) ==
  \E S \in SUBSET Uploads :
    /\ \A u \in S : stage[u] \in from
    /\ stage' = [u \in Uploads |-> IF u \in S THEN to ELSE stage[u]]

LifeInit == stage = [u \in Uploads |-> "none"]

LifeNext ==
  \/ Move({"none"}, "pending")
  \/ Move({"pending"}, "ready")
  \/ Move({"ready"}, "shown")
  \/ Move({"pending", "ready"}, "removed")

LifeSpec == LifeInit /\ [][LifeNext]_stage
=============================================================================
