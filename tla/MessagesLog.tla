----------------------------- MODULE MessagesLog -----------------------------
(* The refinement mapping from the requests, rows and locks of Messages to *)
(* the log of ConversationLog.                                             *)
EXTENDS Messages

Identity(m) == <<message[m].sender, message[m].key>>

entries ==
  [c \in Conversations |->
     [i \in 1..Len(events[c]) |->
        [type |-> events[c][i].type, id |-> Identity(events[c][i].message)]]]

positions == [c \in Conversations |-> {e.seq : e \in published[c]}]

Told(r) == reply[r] # None /\ reply[r].status \in {"created", "existing"}

identities ==
  [c \in Conversations |->
     {<<ctx[r].user, ctx[r].key>> : r \in {s \in Requests : Told(s) /\ ctx[s].conv = c}}]

Log == INSTANCE ConversationLog
  WITH Identities <- Users \X Keys,
       log <- entries, told <- positions, confirmed <- identities

(* The message service implements the append-only, duplicate-free log: a   *)
(* retry adds nothing, edits and deletions follow the send they are about, *)
(* publications and acknowledgements only speak of committed entries.      *)
ImplementsLog == Log!LogSpec
=============================================================================
