-------------------------------- MODULE Authz --------------------------------
(***************************************************************************)
(* resolve_access of app/services/authz.py: what a user may do in a        *)
(* conversation, from the membership row, the conversation's policies, the *)
(* block between the two people of a direct chat and the platform role.    *)
(*                                                                         *)
(* A membership m is a record [role, state, left, restrained], or None;    *)
(* restrained says that muted_until or restricted_until lies ahead.  A     *)
(* conversation c has kind, visibility, archived and policy.               *)
(***************************************************************************)
EXTENDS Integers

CONSTANT None   \* no membership row

Rank == [SUBSCRIBER |-> 0, MEMBER |-> 1, MODERATOR |-> 2, ADMIN |-> 3, OWNER |-> 4]

Roles == {"SUBSCRIBER", "MEMBER", "MODERATOR", "ADMIN", "OWNER"}

Platform == {"VIEW_REPORTS", "MODERATE_CONTENT", "MANAGE_USERS", "MANAGE_SYSTEM"}

Writing == {"READ_MESSAGES", "SEND_MESSAGE", "EDIT_OWN_MESSAGE", "DELETE_OWN_MESSAGE"}

Moderating == Writing \cup {"DELETE_ANY_MESSAGE", "PIN_MESSAGE"}

Administering ==
  Moderating \cup {"ADD_MEMBER", "REMOVE_MEMBER", "BAN_MEMBER", "MANAGE_CONVERSATION",
                   "MANAGE_INVITES"}

Permissions == Administering \cup {"MANAGE_ROLES", "TRANSFER_OWNERSHIP"} \cup Platform

Grants ==
  [SUBSCRIBER |-> {"READ_MESSAGES"}, MEMBER |-> Writing, MODERATOR |-> Moderating,
   ADMIN |-> Administering, OWNER |-> Permissions \ Platform]

SystemGrants ==
  [USER |-> {}, MODERATOR |-> {"VIEW_REPORTS", "MODERATE_CONTENT"},
   ADMIN |-> {"VIEW_REPORTS", "MODERATE_CONTENT", "MANAGE_USERS"},
   SUPER_ADMIN |-> Platform]

(* The policy of the conversation that a permission is held against.       *)
Threshold ==
  [SEND_MESSAGE |-> "send", PIN_MESSAGE |-> "pin", ADD_MEMBER |-> "invite",
   MANAGE_INVITES |-> "invite", MANAGE_CONVERSATION |-> "edit_info"]

Guarded == {"SEND_MESSAGE", "PIN_MESSAGE", "ADD_MEMBER", "MANAGE_INVITES",
            "MANAGE_CONVERSATION"}

Policies == [{"send", "pin", "invite", "edit_info"} -> Roles]

Membership ==
  [role : Roles, state : {"ACTIVE", "MUTED", "RESTRICTED", "BANNED"},
   left : BOOLEAN, restrained : BOOLEAN]

Joined(m) == m # None /\ ~m.left

(* Anything else is answered as if there were no such conversation.        *)
Visible(m, c) ==
  IF Joined(m) THEN m.state # "BANNED" ELSE c.visibility = "PUBLIC"

Restrained(m) == m.state \in {"MUTED", "RESTRICTED"} \/ m.restrained

MeetsPolicy(role, p, policy) == p \in Guarded => Rank[policy[Threshold[p]]] <= Rank[role]

OfMember(m, c) ==
  {p \in Grants[m.role] :
     /\ MeetsPolicy(m.role, p, c.policy)
     /\ Restrained(m) =>
          p \notin {"SEND_MESSAGE", "EDIT_OWN_MESSAGE", "PIN_MESSAGE", "ADD_MEMBER"}}

Unarchived(m, c) ==
  (IF Joined(m) THEN OfMember(m, c) ELSE {"READ_MESSAGES"})
    \ (IF c.archived THEN {"SEND_MESSAGE", "EDIT_OWN_MESSAGE"} ELSE {})

(* "blocked": either person of a direct chat has blocked the other.        *)
Local(m, c, blocked) ==
  LET granted == Unarchived(m, c) IN
    IF c.kind = "DIRECT" /\ "SEND_MESSAGE" \in granted /\ blocked
    THEN granted \ {"SEND_MESSAGE", "EDIT_OWN_MESSAGE", "PIN_MESSAGE"}
    ELSE granted

(* The permissions of a visible conversation.                              *)
Access(m, c, blocked, system) == Local(m, c, blocked) \cup SystemGrants[system]
=============================================================================
