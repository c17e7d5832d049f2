---------------------------- MODULE Conversations ----------------------------
(***************************************************************************)
(* app/services/conversations.py and the blocks of app/api/v1/moderation.py *)
(* over PostgreSQL at READ COMMITTED: direct chats, groups and channels,    *)
(* their members and roles, invite links, and who has blocked whom.         *)
(*                                                                          *)
(* A step is one statement or the commit.  The rows a request inserts are   *)
(* flushed by its commit, so a unique index decides there; a request that   *)
(* would wait there for another's uncommitted row is the same request       *)
(* committing later.  Conversations and invites are named by the request    *)
(* that inserted them.                                                      *)
(*                                                                          *)
(* Nothing in the code archives or deletes a conversation, changes its      *)
(* policies, bans, mutes or removes a member or revokes an invite: those    *)
(* columns keep their defaults, and a membership row is its role.  Titles,  *)
(* slugs, expiry of invites and rate limits are Fail.  No route calls       *)
(* add_member and change_role yet; they run here beside the others.         *)
(***************************************************************************)
EXTENDS Authz, FiniteSets

CONSTANTS
  Users,
  Requests,
  Founded,       \* a group that exists from the start, and its invite
  Founder,       \* the group's owner
  MemberLimit,   \* conversations.member_limit of a group
  MaxUses,       \* bound on invite_links.max_uses
  Kinds,         \* the kinds create_group is asked for
  Offered        \* the roles add_member and change_role are asked for

ASSUME ConversationsAssumption ==
  /\ Founder \in Users /\ Founded \notin Requests /\ IsFiniteSet(Requests)
  /\ MemberLimit \in Nat /\ MaxUses \in Nat \ {0}
  /\ Offered \subseteq Roles /\ Kinds \subseteq {"GROUP", "CHANNEL"}
  /\ None \notin Requests \cup {Founded} \cup Users \cup Roles \cup Nat

VARIABLES
  conversation,  \* conversations, with the pair of direct_conversation_keys
  member,        \* conversation_members.role
  invite,        \* invite_links
  inviteLock,    \* row locks of invite_links
  blocks,        \* blocked_users, <<blocker, blocked>>
  pc, ctx, reply

vars == <<conversation, member, invite, inviteLock, blocks, pc, ctx, reply>>
tables == <<conversation, member, invite, inviteLock, blocks>>

Names == Requests \cup {Founded}
Pairs == {{u, v} : u, v \in Users}

(* What max_uses may be asked for; None is no limit.                       *)
Limits == 1..MaxUses \cup {None}

Row == [kind : {"DIRECT", "GROUP", "CHANNEL"}, visibility : {"PRIVATE", "PUBLIC"},
        archived : BOOLEAN, policy : Policies, pair : Pairs \cup {{}}]

(* max is None if the invite is unlimited.                                 *)
Invite == [conv : Names, max : Nat \cup {None}, uses : Nat]

(* name: the invite presented, or the conversation acted in; wanted: who   *)
(* is still to be looked at, or asked for; found: those not blocked; seen: *)
(* the role read of the member the request is about.                       *)
Context ==
  [op : {"direct", "group", "invite", "redeem", "add", "role", "block", "unblock"},
   user : Users, other : Users, name : Names, kind : {"GROUP", "CHANNEL"},
   role : Roles, wanted : SUBSET Users, found : SUBSET Users,
   max : Nat \cup {None},
   seen : Roles \cup {None}]

PC == {"idle", "blocks", "lookup", "create", "relookup", "seed", "invite", "membership",
       "join", "count", "existing", "add", "target", "rerole", "block", "unblock", "done"}

Reply == [status : {"ok", "refused", "error"}, conv : Names \cup {None}]

ASSUME NullAssumption == None \notin Row \cup Invite \cup Context \cup Reply

TypeOK ==
  /\ conversation \in [Names -> Row \cup {None}]
  /\ member \in [Names -> [Users -> Roles \cup {None}]]
  /\ invite \in [Names -> Invite \cup {None}]
  /\ inviteLock \in [Names -> Requests \cup {None}]
  /\ blocks \subseteq Users \X Users
  /\ pc \in [Requests -> PC]
  /\ ctx \in [Requests -> Context \cup {None}]
  /\ reply \in [Requests -> Reply \cup {None}]

(* The column defaults; a channel's send_policy is ADMIN.                  *)
NewRow(kind, pair) ==
  [kind |-> kind, visibility |-> "PRIVATE", archived |-> FALSE, pair |-> pair,
   policy |-> [send |-> IF kind = "CHANNEL" THEN "ADMIN" ELSE "MEMBER", pin |-> "ADMIN",
               invite |-> "ADMIN", edit_info |-> "ADMIN"]]

Init ==
  /\ conversation = [c \in Names |-> IF c = Founded THEN NewRow("GROUP", {}) ELSE None]
  /\ member = [c \in Names |-> [u \in Users |->
                 IF c = Founded /\ u = Founder THEN "OWNER" ELSE None]]
  /\ invite \in {[i \in Names |-> IF i = Founded
                                  THEN [conv |-> Founded, max |-> n, uses |-> 0]
                                  ELSE None] : n \in Limits}
  /\ inviteLock = [i \in Names |-> None]
  /\ blocks = {}
  /\ pc = [r \in Requests |-> "idle"]
  /\ ctx = [r \in Requests |-> None]
  /\ reply = [r \in Requests |-> None]

-----------------------------------------------------------------------------
Goto(r, label) == pc' = [pc EXCEPT ![r] = label]

Answer(r, status, c) ==
  /\ reply' = [reply EXCEPT ![r] = [status |-> status, conv |-> c]]
  /\ Goto(r, "done")

Unlock(r) ==
  inviteLock' = [i \in Names |-> IF inviteLock[i] = r THEN None ELSE inviteLock[i]]

(* Mutant: the request is about nobody until somebody is named.            *)
BlankNobody(op, u) ==
  [op |-> op, user |-> u, other |-> None, name |-> Founded, kind |-> "GROUP",
   role |-> "MEMBER", wanted |-> {}, found |-> {}, max |-> 0, seen |-> None]

Blank(op, u) ==
  [op |-> op, user |-> u, other |-> u, name |-> Founded, kind |-> "GROUP",
   role |-> "MEMBER", wanted |-> {}, found |-> {}, max |-> 0, seen |-> None]

Begin(r, label, x) ==
  /\ pc[r] = "idle"
  /\ ctx' = [ctx EXCEPT ![r] = x]
  /\ Goto(r, label)
  /\ UNCHANGED <<tables, reply>>

(* blocking_state: in either direction.                                    *)
Blocked(u, v) == <<u, v>> \in blocks \/ <<v, u>> \in blocks

Stored(c) == conversation[c] # None

MembersOf(c) == {u \in Users : member[c][u] # None}

MembershipOf(c, u) ==
  IF member[c][u] = None THEN None
  ELSE [role |-> member[c][u], state |-> "ACTIVE", left |-> FALSE, restrained |-> FALSE]

(* What resolve_access lets u do in c, for a user without a platform role. *)
Allowed(c, u, permission) ==
  LET m == MembershipOf(c, u) IN
    /\ Stored(c)
    /\ Visible(m, conversation[c])
    /\ permission \in Access(m, conversation[c],
                             \E v \in conversation[c].pair \ {u} : Blocked(u, v), "USER")

(* A request that is refused at once: a user it may not see, an invalid    *)
(* argument, a permission it lacks.                                        *)
Denied(r) ==
  /\ pc[r] = "idle"
  /\ Answer(r, "refused", None)
  /\ UNCHANGED <<tables, ctx>>

-----------------------------------------------------------------------------
(* get_or_create_direct                                                    *)

OpenDirect(r, u, v) ==
  u # v /\ Begin(r, "blocks", [Blank("direct", u) EXCEPT !.other = v])

CheckBlocks(r) ==
  /\ pc[r] = "blocks"
  /\ IF Blocked(ctx[r].user, ctx[r].other)
     THEN Answer(r, "refused", None)
     ELSE Goto(r, "lookup") /\ UNCHANGED reply
  /\ UNCHANGED <<tables, ctx>>

PairOf(r) == {ctx[r].user, ctx[r].other}

(* Mutant: the key is not an ordered pair.                                 *)
KeyedAsAsked(r) ==
  {c \in Names : Stored(c) /\ conversation[c].pair = PairOf(r) /\ c \in Requests
                 /\ ctx[c].user = ctx[r].user}

(* The conversation that has the pair in direct_conversation_keys.         *)
Keyed(r) == {c \in Names : Stored(c) /\ conversation[c].pair = PairOf(r)}

LookUpDirect(r) ==
  /\ pc[r] = "lookup"
  /\ IF Keyed(r) = {}
     THEN Goto(r, "create") /\ UNCHANGED reply
     ELSE \E c \in Keyed(r) : Answer(r, "ok", c)
  /\ UNCHANGED <<tables, ctx>>

CommitDirect(r) ==
  /\ pc[r] = "create" /\ Keyed(r) = {}
  /\ conversation' = [conversation EXCEPT ![r] = NewRow("DIRECT", PairOf(r))]
  /\ member' = [member EXCEPT ![r] =
                  [u \in Users |-> IF u \in PairOf(r) THEN "MEMBER" ELSE None]]
  /\ Answer(r, "ok", r)
  /\ UNCHANGED <<invite, inviteLock, blocks, ctx>>

(* UNIQUE (user_lo, user_hi), and the rollback.                            *)
DirectDuplicate(r) ==
  /\ pc[r] = "create" /\ Keyed(r) # {}
  /\ Goto(r, "relookup")
  /\ UNCHANGED <<tables, ctx, reply>>

(* The winner's row: lo and hi are values, not attributes of a row.        *)
TakeWinner(r) ==
  /\ pc[r] = "relookup"
  /\ \E c \in Keyed(r) : Answer(r, "ok", c)
  /\ UNCHANGED <<tables, ctx>>

-----------------------------------------------------------------------------
(* create_group                                                            *)

CreateGroup(r, u, kind, invitees) ==
  Begin(r, "seed", [Blank("group", u) EXCEPT !.kind = kind, !.wanted = invitees])

(* One query for each: who has blocked the creator, or is blocked by them, *)
(* is passed over.                                                         *)
ConsiderInvitee(r, v) ==
  /\ pc[r] = "seed" /\ v \in ctx[r].wanted
  /\ ctx' = [ctx EXCEPT ![r].wanted = @ \ {v},
                        ![r].found = IF Blocked(ctx[r].user, v) THEN @ ELSE @ \cup {v}]
  /\ UNCHANGED <<tables, pc, reply>>

RoleOfNewcomer(kind) == IF kind = "CHANNEL" THEN "SUBSCRIBER" ELSE "MEMBER"

CommitGroup(r) ==
  /\ pc[r] = "seed" /\ ctx[r].wanted = {}
  /\ conversation' = [conversation EXCEPT ![r] = NewRow(ctx[r].kind, {})]
  /\ member' = [member EXCEPT ![r] =
                  [u \in Users |-> IF u = ctx[r].user THEN "OWNER"
                                   ELSE IF u \in ctx[r].found
                                   THEN RoleOfNewcomer(ctx[r].kind)
                                   ELSE None]]
  /\ Answer(r, "ok", r)
  /\ UNCHANGED <<invite, inviteLock, blocks, ctx>>

-----------------------------------------------------------------------------
(* create_invite and redeem_invite                                         *)

CreateInvite(r, u, c, n) ==
  /\ Allowed(c, u, "MANAGE_INVITES")
  /\ Begin(r, "invite", [Blank("invite", u) EXCEPT !.name = c, !.max = n])

CommitInvite(r) ==
  /\ pc[r] = "invite"
  /\ invite' = [invite EXCEPT ![r] = [conv |-> ctx[r].name, max |-> ctx[r].max, uses |-> 0]]
  /\ Answer(r, "ok", ctx[r].name)
  /\ UNCHANGED <<conversation, member, inviteLock, blocks, ctx>>

UsesLeft(i) ==
  invite[i] # None /\ (invite[i].max # None => invite[i].uses < invite[i].max)

(* Mutant: SELECT without FOR UPDATE.                                      *)
PresentInviteUnlocked(r, u, i) ==
  /\ pc[r] = "idle"
  /\ UsesLeft(i)
  /\ ctx' = [ctx EXCEPT ![r] = [Blank("redeem", u) EXCEPT !.name = i]]
  /\ Goto(r, "membership")
  /\ UNCHANGED <<tables, reply>>

(* SELECT ... FOR UPDATE of an invite that has uses left; the others are   *)
(* Denied.                                                                 *)
PresentInvite(r, u, i) ==
  /\ pc[r] = "idle"
  /\ UsesLeft(i)
  /\ inviteLock[i] = None
  /\ inviteLock' = [inviteLock EXCEPT ![i] = r]
  /\ ctx' = [ctx EXCEPT ![r] = [Blank("redeem", u) EXCEPT !.name = i]]
  /\ Goto(r, "membership")
  /\ UNCHANGED <<conversation, member, invite, blocks, reply>>

ReadMembership(r) ==
  /\ pc[r] = "membership"
  /\ ctx' = [ctx EXCEPT ![r].seen = member[invite[ctx[r].name].conv][ctx[r].user]]
  /\ Goto(r, "join")
  /\ UNCHANGED <<tables, reply>>

(* Mutant: an upsert of the role.                                          *)
JoinUpsert(r) ==
  /\ pc[r] = "join"
  /\ LET c == invite[ctx[r].name].conv IN
       /\ member' = [member EXCEPT ![c][ctx[r].user] =
                       RoleOfNewcomer(conversation[c].kind)]
       /\ Answer(r, "ok", c)
  /\ invite' = [invite EXCEPT ![ctx[r].name].uses = @ + 1]
  /\ Unlock(r)
  /\ UNCHANGED <<conversation, blocks, ctx>>

(* A member who redeems again spends a use and keeps the row.              *)
Join(r) ==
  /\ pc[r] = "join"
  /\ LET c == invite[ctx[r].name].conv IN
       /\ ctx[r].seen = None => member[c][ctx[r].user] = None
       /\ member' = IF ctx[r].seen = None
                    THEN [member EXCEPT ![c][ctx[r].user] =
                            RoleOfNewcomer(conversation[c].kind)]
                    ELSE member
       /\ Answer(r, "ok", c)
  /\ invite' = [invite EXCEPT ![ctx[r].name].uses = @ + 1]
  /\ Unlock(r)
  /\ UNCHANGED <<conversation, blocks, ctx>>

(* The primary key refuses a second row of one member: the whole           *)
(* redemption rolls back.                                                  *)
JoinConflict(r) ==
  /\ pc[r] = "join" /\ ctx[r].seen = None
  /\ member[invite[ctx[r].name].conv][ctx[r].user] # None
  /\ Unlock(r)
  /\ Answer(r, "error", None)
  /\ UNCHANGED <<conversation, member, invite, blocks, ctx>>

-----------------------------------------------------------------------------
(* add_member                                                              *)

AddMember(r, u, c, v, role) ==
  /\ Allowed(c, u, "ADD_MEMBER") /\ role # "OWNER"
  /\ Begin(r, "count", [Blank("add", u) EXCEPT !.name = c, !.other = v, !.role = role])

LimitOf(c) == IF conversation[c].kind = "DIRECT" THEN 2 ELSE MemberLimit

CountMembers(r) ==
  /\ pc[r] = "count"
  /\ IF LimitOf(ctx[r].name) <= Cardinality(MembersOf(ctx[r].name))
     THEN Answer(r, "refused", None)
     ELSE Goto(r, "existing") /\ UNCHANGED reply
  /\ UNCHANGED <<tables, ctx>>

FindMember(r) ==
  /\ pc[r] = "existing"
  /\ ctx' = [ctx EXCEPT ![r].seen = member[ctx[r].name][ctx[r].other]]
  /\ Goto(r, "add")
  /\ UNCHANGED <<tables, reply>>

(* Whoever is a member already keeps the role.                             *)
CommitMember(r) ==
  /\ pc[r] = "add"
  /\ LET c == ctx[r].name IN
       /\ ctx[r].seen = None => member[c][ctx[r].other] = None
       /\ member' = IF ctx[r].seen = None
                    THEN [member EXCEPT ![c][ctx[r].other] = ctx[r].role]
                    ELSE member
       /\ Answer(r, "ok", c)
  /\ UNCHANGED <<conversation, invite, inviteLock, blocks, ctx>>

MemberConflict(r) ==
  /\ pc[r] = "add" /\ ctx[r].seen = None
  /\ member[ctx[r].name][ctx[r].other] # None
  /\ Answer(r, "error", None)
  /\ UNCHANGED <<tables, ctx>>

-----------------------------------------------------------------------------
(* change_role                                                             *)

(* The actor's rank is taken from the membership that resolve_access read; *)
(* it is kept in max.                                                      *)
ChangeRole(r, u, c, v, role) ==
  /\ Allowed(c, u, "MANAGE_ROLES")
  /\ Rank[role] < Rank[member[c][u]]
  /\ Begin(r, "target", [Blank("role", u) EXCEPT
                           !.name = c, !.other = v, !.role = role,
                           !.max = Rank[member[c][u]]])

(* Mutant: a peer or superior may be changed.                              *)
FindTargetAny(r) ==
  /\ pc[r] = "target"
  /\ LET held == member[ctx[r].name][ctx[r].other] IN
       /\ ctx' = [ctx EXCEPT ![r].seen = held]
       /\ IF held = None THEN Answer(r, "refused", None)
                         ELSE Goto(r, "rerole") /\ UNCHANGED reply
  /\ UNCHANGED tables

FindTarget(r) ==
  /\ pc[r] = "target"
  /\ LET held == member[ctx[r].name][ctx[r].other] IN
       /\ ctx' = [ctx EXCEPT ![r].seen = held]
       /\ IF held = None \/ (held # None /\ ctx[r].max <= Rank[held])
          THEN Answer(r, "refused", None)
          ELSE Goto(r, "rerole") /\ UNCHANGED reply
  /\ UNCHANGED tables

(* The UPDATE leaves the role out if it is the one that was read.          *)
CommitRole(r) ==
  /\ pc[r] = "rerole"
  /\ member' = [member EXCEPT ![ctx[r].name][ctx[r].other] =
                  IF ctx[r].role = ctx[r].seen THEN @ ELSE ctx[r].role]
  /\ Answer(r, "ok", ctx[r].name)
  /\ UNCHANGED <<conversation, invite, inviteLock, blocks, ctx>>

-----------------------------------------------------------------------------
(* block_user and unblock_user                                             *)

BlockUser(r, u, v) ==
  /\ u # v /\ <<u, v>> \notin blocks
  /\ Begin(r, "block", [Blank("block", u) EXCEPT !.other = v])

(* Two of them at once: the primary key refuses the second.                *)
CommitBlock(r) ==
  /\ pc[r] = "block"
  /\ blocks' = blocks \cup {<<ctx[r].user, ctx[r].other>>}
  /\ Answer(r, IF <<ctx[r].user, ctx[r].other>> \in blocks THEN "error" ELSE "ok", None)
  /\ UNCHANGED <<conversation, member, invite, inviteLock, ctx>>

UnblockUser(r, u, v) ==
  /\ <<u, v>> \in blocks
  /\ Begin(r, "unblock", [Blank("unblock", u) EXCEPT !.other = v])

CommitUnblock(r) ==
  /\ pc[r] = "unblock"
  /\ blocks' = blocks \ {<<ctx[r].user, ctx[r].other>>}
  /\ Answer(r, "ok", None)
  /\ UNCHANGED <<conversation, member, invite, inviteLock, ctx>>

(* What is already as asked: nothing is written.                           *)
BlockUnneeded(r) ==
  /\ pc[r] = "idle"
  /\ Answer(r, "ok", None)
  /\ UNCHANGED <<tables, ctx>>

-----------------------------------------------------------------------------
(* Any error on the way: get_db rolls back.                                *)
Fail(r) ==
  /\ pc[r] \notin {"idle", "done"}
  /\ Unlock(r)
  /\ Answer(r, "error", None)
  /\ UNCHANGED <<conversation, member, invite, blocks, ctx>>

Arrive(r, u) ==
  /\ pc[r] = "idle"
  /\ \/ \E v \in Users : OpenDirect(r, u, v) \/ BlockUser(r, u, v) \/ UnblockUser(r, u, v)
     \/ \E kind \in Kinds, others \in SUBSET (Users \ {u}) : CreateGroup(r, u, kind, others)
     \/ \E i \in Names : PresentInvite(r, u, i)
     \/ \E c \in Names, n \in Limits : CreateInvite(r, u, c, n)
     \/ \E c \in Names, v \in Users, role \in Offered :
           AddMember(r, u, c, v, role) \/ ChangeRole(r, u, c, v, role)

Proceed(r) ==
  \/ CheckBlocks(r) \/ LookUpDirect(r)
  \/ CommitDirect(r) \/ DirectDuplicate(r) \/ TakeWinner(r)
  \/ (\E v \in Users : ConsiderInvitee(r, v)) \/ CommitGroup(r)
  \/ CommitInvite(r)
  \/ ReadMembership(r) \/ Join(r) \/ JoinConflict(r)
  \/ CountMembers(r) \/ FindMember(r) \/ CommitMember(r) \/ MemberConflict(r)
  \/ FindTarget(r) \/ CommitRole(r)
  \/ CommitBlock(r) \/ CommitUnblock(r)

Finished == (\A r \in Requests : pc[r] = "done") /\ UNCHANGED vars

Next ==
  \/ \E r \in Requests :
       (\E u \in Users : Arrive(r, u)) \/ Denied(r) \/ BlockUnneeded(r) \/ Proceed(r) \/ Fail(r)
  \/ Finished

Spec == Init /\ [][Next]_vars

-----------------------------------------------------------------------------
Answered(r, op) == ctx[r] # None /\ ctx[r].op = op /\ reply[r] # None /\ reply[r].status = "ok"

(* Two people who open a chat with each other, however concurrently, are   *)
(* given one conversation, and it has those two as its members for good.   *)
DirectChatsConverge ==
  /\ \A r, s \in Requests :
       Answered(r, "direct") /\ Answered(s, "direct") /\ PairOf(r) = PairOf(s)
         => reply[r].conv = reply[s].conv
  /\ \A c \in Names : Stored(c) /\ conversation[c].kind = "DIRECT"
       => MembersOf(c) = conversation[c].pair

(* An invite admits as many redemptions as it counts, and never more than  *)
(* it was made for.                                                        *)
InviteUsesExact ==
  \A i \in Names : invite[i] # None =>
    /\ invite[i].uses =
         Cardinality({r \in Requests : Answered(r, "redeem") /\ ctx[r].name = i})
    /\ invite[i].max # None => invite[i].uses <= invite[i].max

(* A group or channel has one owner at any time, the person who made it.   *)
OwnerOf(c) == IF c = Founded THEN Founder ELSE ctx[c].user

OneOwner ==
  \A c \in Names : Stored(c) /\ conversation[c].kind # "DIRECT"
    => {u \in Users : member[c][u] = "OWNER"} = {OwnerOf(c)}

(* The role somebody holds changes only by a change_role that the owner of *)
(* the conversation asked for: no second redemption or addition resets it. *)
RolesAreTheOwners ==
  [][\A c \in Names, u \in Users :
       member[c][u] \in Roles /\ member'[c][u] # member[c][u] =>
         /\ member'[c][u] # None
         /\ \E r \in Requests :
              /\ Answered(r, "role")' /\ ~Answered(r, "role")
              /\ ctx[r].user = OwnerOf(c) /\ ctx[r].other = u]_vars
=============================================================================
