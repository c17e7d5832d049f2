--------------------------- MODULE ConversationLog ---------------------------
(***************************************************************************)
(* What the message service promises, without requests, locks or rows:     *)
(* every conversation is one append-only log.  A message is known by the   *)
(* sender and the client_msg_id its client chose, and enters the log once; *)
(* later entries edit or delete messages that are in the log.  Members are *)
(* told only of entries of the log, and a sender is told of success only   *)
(* for a message that is in it.                                            *)
(***************************************************************************)
EXTENDS Naturals, Sequences

CONSTANTS Conversations, Identities

VARIABLES
  log,        \* [Conversations -> Seq(Entry)]
  told,       \* per conversation, the positions members have been told of
  confirmed   \* per conversation, the identities whose sender was told of success

logVars == <<log, told, confirmed>>

Entry == [type : {"send", "edit", "delete"}, id : Identities]

LogTypeOK ==
  /\ log \in [Conversations -> Seq(Entry)]
  /\ told \in [Conversations -> SUBSET Nat]
  /\ confirmed \in [Conversations -> SUBSET Identities]

LogInit ==
  /\ log = [c \in Conversations |-> <<>>]
  /\ told = [c \in Conversations |-> {}]
  /\ confirmed = [c \in Conversations |-> {}]

Present(c, id) == \E i \in DOMAIN log[c] : log[c][i] = [type |-> "send", id |-> id]

Extend(c, type, id) ==
  /\ (type = "send") <=> ~Present(c, id)
  /\ log' = [log EXCEPT ![c] = Append(@, [type |-> type, id |-> id])]
  /\ UNCHANGED <<told, confirmed>>

(* One answer may both publish an entry and confirm its message.           *)
Inform ==
  /\ UNCHANGED log
  /\ \A c \in Conversations :
       /\ told[c] \subseteq told'[c] /\ told'[c] \subseteq DOMAIN log[c]
       /\ confirmed[c] \subseteq confirmed'[c]
       /\ \A id \in confirmed'[c] : Present(c, id)

LogNext ==
  \/ \E c \in Conversations, type \in {"send", "edit", "delete"}, id \in Identities :
       Extend(c, type, id)
  \/ Inform

LogSpec == LogInit /\ [][LogNext]_logVars
=============================================================================
