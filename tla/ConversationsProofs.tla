------------------------- MODULE ConversationsProofs -------------------------
(***************************************************************************)
(* The safety properties of Conversations, proved for any users, requests  *)
(* and limits.  The invariant has three parts: what a request knows at each *)
(* of its steps (Control), what the rows say of each other (Tables), and    *)
(* who holds the row of an invite (Redeeming).                              *)
(***************************************************************************)
EXTENDS Conversations, FiniteSetTheorems, TLAPS

(* The conversations that invites, additions and role changes are about.   *)
Shared(c) == Stored(c) /\ conversation[c].kind # "DIRECT"

(* What each step may rely on of its own request.                          *)
ControlOf(r) ==
  /\ pc[r] = "idle" => ctx[r] = None
  /\ pc[r] # "done" => reply[r] = None
  /\ pc[r] \notin {"idle", "done"} => ctx[r] \in Context
  /\ pc[r] \in {"blocks", "lookup", "create", "relookup"} => ctx[r].op = "direct"
  /\ pc[r] = "seed" => ctx[r].op = "group"
  /\ pc[r] = "invite" => ctx[r].op = "invite" /\ Shared(ctx[r].name)
  /\ pc[r] \in {"membership", "join"} => ctx[r].op = "redeem" /\ invite[ctx[r].name] # None
  /\ pc[r] \in {"count", "existing", "add"} =>
       ctx[r].op = "add" /\ Shared(ctx[r].name) /\ ctx[r].role # "OWNER"
  /\ pc[r] \in {"target", "rerole"} =>
       /\ ctx[r].op = "role" /\ Shared(ctx[r].name)
       /\ ctx[r].role # "OWNER" /\ ctx[r].max = 4
       /\ ctx[r].user = OwnerOf(ctx[r].name)
  /\ pc[r] = "rerole" => ctx[r].other # OwnerOf(ctx[r].name)
  /\ pc[r] \in {"block", "unblock"} => ctx[r].op \in {"block", "unblock"}
  /\ Answered(r, "direct") =>
       /\ reply[r].conv \in Names /\ Stored(reply[r].conv)
       /\ conversation[reply[r].conv].pair = PairOf(r)

Control == \A r \in Requests : ControlOf(r)

(* What a conversation's rows say, by its kind.                            *)
RowsOf(c) ==
  /\ ~Stored(c) => \A u \in Users : member[c][u] = None
  /\ Stored(c) /\ c \in Requests => pc[c] = "done" /\ ctx[c] \in Context
  /\ Stored(c) => /\ conversation[c].visibility = "PRIVATE"
                  /\ conversation[c].kind = "DIRECT" <=> conversation[c].pair # {}
  /\ Stored(c) /\ conversation[c].kind = "DIRECT" =>
       \A u \in Users :
         member[c][u] = IF u \in conversation[c].pair THEN "MEMBER" ELSE None
  /\ Shared(c) => \A u \in Users : member[c][u] = "OWNER" <=> u = OwnerOf(c)

PairsUnique ==
  \A c, d \in Names :
    Stored(c) /\ Stored(d) /\ conversation[c].pair # {}
      /\ conversation[c].pair = conversation[d].pair => c = d

InvitesShared == \A i \in Names : invite[i] # None => Shared(invite[i].conv)

Tables == (\A c \in Names : RowsOf(c)) /\ PairsUnique /\ InvitesShared

Inv == TypeOK /\ Control /\ Tables

-----------------------------------------------------------------------------
(* The parts every step is made of.                                        *)

LEMMA Distinct ==
  /\ None \notin Roles /\ None \notin Users /\ None \notin Names /\ None \notin Nat
  /\ None \notin Row /\ None \notin Invite /\ None \notin Context /\ None \notin Reply
BY ConversationsAssumption, NullAssumption DEF Names

LEMMA NewRowIsRow ==
  ASSUME NEW kind \in {"DIRECT", "GROUP", "CHANNEL"}, NEW pair \in Pairs \cup {{}}
  PROVE  NewRow(kind, pair) \in Row
<1>1. NewRow(kind, pair).policy \in Policies
  BY DEF NewRow, Policies, Roles
<1>2. QED
  BY <1>1 DEF NewRow, Row

LEMMA GotoStep ==
  ASSUME TypeOK, NEW r \in Requests, NEW label \in PC, Goto(r, label)
  PROVE  /\ pc' \in [Requests -> PC]
         /\ pc'[r] = label
         /\ \A s \in Requests \ {r} : pc'[s] = pc[s]
BY DEF TypeOK, Goto

LEMMA AnswerStep ==
  ASSUME TypeOK, NEW r \in Requests, NEW c \in Names \cup {None},
         NEW status \in {"ok", "refused", "error"}, Answer(r, status, c)
  PROVE  /\ pc' \in [Requests -> PC]
         /\ pc'[r] = "done"
         /\ \A s \in Requests \ {r} : pc'[s] = pc[s]
         /\ reply' \in [Requests -> Reply \cup {None}]
         /\ reply'[r] \in Reply
         /\ reply'[r].status = status /\ reply'[r].conv = c
         /\ \A s \in Requests \ {r} : reply'[s] = reply[s]
<1> DEFINE x == [status |-> status, conv |-> c]
<1>1. x \in Reply /\ x.status = status /\ x.conv = c
  BY DEF Reply
<1> HIDE DEF x
<1>2. reply' = [reply EXCEPT ![r] = x] /\ Goto(r, "done") /\ "done" \in PC
  BY DEF Answer, PC, x
<1>3. QED
  BY <1>1, <1>2, GotoStep DEF TypeOK

LEMMA ContextStep ==
  ASSUME TypeOK, NEW r \in Requests, NEW x \in Context, ctx' = [ctx EXCEPT ![r] = x]
  PROVE  /\ ctx' \in [Requests -> Context \cup {None}]
         /\ ctx'[r] = x
         /\ \A s \in Requests \ {r} : ctx'[s] = ctx[s]
BY DEF TypeOK

(* What the permission table says of a member of a private conversation:   *)
(* nobody who is not a member may do more than read, and a member may do   *)
(* what the role grants.                                                   *)
LEMMA AllowedByRole ==
  ASSUME Inv, NEW c \in Names, NEW u \in Users, NEW p \in Permissions \ {"READ_MESSAGES"},
         Allowed(c, u, p)
  PROVE  Stored(c) /\ member[c][u] \in Roles /\ p \in Grants[member[c][u]]
<1> DEFINE m == MembershipOf(c, u)
           b == \E v \in conversation[c].pair \ {u} : Blocked(u, v)
<1>1. Stored(c) /\ conversation[c].visibility = "PRIVATE"
  BY DEF Allowed, Inv, Tables, RowsOf
<1>2. Joined(m) /\ m.role = member[c][u] /\ member[c][u] \in Roles
  <2>1. Visible(m, conversation[c])
    BY DEF Allowed
  <2>2. Joined(m)
    BY <1>1, <2>1 DEF Visible
  <2>3. member[c][u] # None
    BY <2>2 DEF Joined, MembershipOf
  <2>4. QED
    BY <2>2, <2>3 DEF MembershipOf, Inv, TypeOK
<1>3. p \in Access(m, conversation[c], b, "USER")
  BY DEF Allowed
<1> HIDE DEF m, b
<1>4. p \in Local(m, conversation[c], b)
  BY <1>3 DEF Access, SystemGrants
<1>5. p \in Unarchived(m, conversation[c])
  BY <1>4 DEF Local
<1>6. p \in OfMember(m, conversation[c])
  BY <1>2, <1>5 DEF Unarchived
<1>7. QED
  BY <1>1, <1>2, <1>6 DEF OfMember

(* Managing invites, members and roles is for groups and channels, since   *)
(* the people of a direct chat are plain members; roles are for the owner. *)
LEMMA OnlyShared ==
  ASSUME Inv, NEW c \in Names, NEW u \in Users,
         NEW p \in {"MANAGE_INVITES", "ADD_MEMBER", "MANAGE_ROLES"}, Allowed(c, u, p)
  PROVE  /\ Shared(c)
         /\ p = "MANAGE_ROLES" => member[c][u] = "OWNER" /\ u = OwnerOf(c)
<1>1. p \in Permissions \ {"READ_MESSAGES"}
  BY DEF Permissions, Administering, Moderating, Writing
<1>2. Stored(c) /\ member[c][u] \in Roles /\ p \in Grants[member[c][u]]
  BY <1>1, AllowedByRole
<1>3. member[c][u] # "MEMBER"
  BY <1>2 DEF Grants, Writing
<1>4. Shared(c)
  BY <1>2, <1>3, Distinct DEF Shared, Inv, Tables, RowsOf
<1>5. p = "MANAGE_ROLES" => member[c][u] = "OWNER"
  BY <1>2 DEF Grants, Roles, Administering, Moderating, Writing
<1>6. QED
  BY <1>4, <1>5 DEF Inv, Tables, RowsOf

-----------------------------------------------------------------------------
(* A step of r leaves the other requests where they are, and drops or      *)
(* renames nothing; only r's own name may come into use.                   *)
Own(r) ==
  \A s \in Requests \ {r} : pc'[s] = pc[s] /\ ctx'[s] = ctx[s] /\ reply'[s] = reply[s]

KeepsNames(r) ==
  /\ \A c \in Names : Stored(c) => conversation'[c] = conversation[c]
  /\ \A c \in Names \ {r} : ~Stored(c) => conversation'[c] = None
  /\ \A i \in Names : invite[i] # None =>
       invite'[i] # None /\ invite'[i].conv = invite[i].conv

LEMMA OwnerKept ==
  ASSUME Inv, NEW r \in Requests, pc[r] # "done", Own(r), KeepsNames(r),
         NEW c \in Names, Stored(c)
  PROVE  /\ Stored(c)' /\ conversation'[c] = conversation[c]
         /\ OwnerOf(c)' = OwnerOf(c)
         /\ Shared(c)' <=> Shared(c)
<1>1. conversation'[c] = conversation[c]
  BY DEF KeepsNames
<1>2. c = Founded \/ (c \in Requests /\ pc[c] = "done" /\ c # r)
  BY DEF Inv, Tables, RowsOf, Names
<1>3. OwnerOf(c)' = OwnerOf(c)
  BY <1>2 DEF OwnerOf, Own
<1>4. QED
  BY <1>1, <1>3 DEF Stored, Shared

LEMMA ControlFrame ==
  ASSUME Inv, NEW r \in Requests, pc[r] # "done", Own(r), KeepsNames(r), ControlOf(r)'
  PROVE  Control'
<1> SUFFICES ASSUME NEW s \in Requests \ {r} PROVE ControlOf(s)'
  BY DEF Control
<1>1. ControlOf(s)
  BY DEF Inv, Control
<1>2. pc'[s] = pc[s] /\ ctx'[s] = ctx[s] /\ reply'[s] = reply[s]
  BY DEF Own
<1>3. pc[s] \notin {"idle", "done"} => ctx[s].name \in Names
  BY <1>1 DEF ControlOf, Context
<1>4. pc[s] \notin {"idle", "done"} /\ Shared(ctx[s].name) =>
        Shared(ctx[s].name)' /\ OwnerOf(ctx[s].name)' = OwnerOf(ctx[s].name)
  BY <1>2, <1>3, OwnerKept DEF Shared
<1>5. pc[s] \in {"membership", "join"} => invite'[ctx[s].name] # None
  BY <1>1, <1>3 DEF ControlOf, KeepsNames
<1>6. Answered(s, "direct")' => Answered(s, "direct")
  BY <1>2 DEF Answered
<1>7. Answered(s, "direct") =>
        /\ reply[s].conv \in Names /\ conversation'[reply[s].conv] # None
        /\ conversation'[reply[s].conv].pair = PairOf(s)
  BY <1>1 DEF ControlOf, KeepsNames, Stored
<1>8. PairOf(s)' = PairOf(s)
  BY <1>2 DEF PairOf
<1>9. QED
  BY <1>1, <1>2, <1>4, <1>5, <1>6, <1>7, <1>8 DEF ControlOf, Stored

LEMMA SameTables ==
  ASSUME Inv, NEW r \in Requests, pc[r] # "done", Own(r),
         UNCHANGED <<conversation, member, invite>>
  PROVE  KeepsNames(r) /\ Tables'
<1>1. KeepsNames(r)
  BY DEF KeepsNames, Stored
<1>2. ASSUME NEW c \in Names PROVE RowsOf(c)'
  <2>1. RowsOf(c)
    BY DEF Inv, Tables
  <2>2. CASE Stored(c)
    <3>1. c \in Requests => c # r
      BY <2>1, <2>2 DEF RowsOf
    <3>2. QED
      BY <1>1, <2>1, <2>2, <3>1, OwnerKept DEF RowsOf, Stored, Shared, Own
  <2>3. CASE ~Stored(c)
    BY <2>1, <2>3 DEF RowsOf, Stored, Shared
  <2>4. QED
    BY <2>2, <2>3
<1>3. PairsUnique' /\ InvitesShared'
  BY DEF Inv, Tables, PairsUnique, InvitesShared, Stored, Shared
<1>4. QED
  BY <1>1, <1>2, <1>3 DEF Tables

(* A step that writes no row of a conversation, a member or an invite.     *)
LEMMA PlainStep ==
  ASSUME Inv, NEW r \in Requests, pc[r] # "done", Own(r), ControlOf(r)', TypeOK',
         UNCHANGED <<conversation, member, invite>>
  PROVE  Inv'
BY SameTables, ControlFrame DEF Inv

(* An answer that does not open a direct chat.                             *)
LEMMA Finish ==
  ASSUME Inv, NEW r \in Requests, pc[r] # "done", NEW c \in Names \cup {None},
         NEW status \in {"ok", "refused", "error"}, Answer(r, status, c), UNCHANGED ctx,
         status # "ok" \/ ctx[r] = None \/ ctx[r].op # "direct"
  PROVE  /\ pc' \in [Requests -> PC] /\ ctx' \in [Requests -> Context \cup {None}]
         /\ reply' \in [Requests -> Reply \cup {None}]
         /\ Own(r) /\ ControlOf(r)'
<1>1. TypeOK
  BY DEF Inv
<1>2. /\ pc' \in [Requests -> PC] /\ pc'[r] = "done"
      /\ \A s \in Requests \ {r} : pc'[s] = pc[s]
      /\ reply' \in [Requests -> Reply \cup {None}]
      /\ reply'[r].status = status
      /\ \A s \in Requests \ {r} : reply'[s] = reply[s]
  BY <1>1, AnswerStep
<1>3. ~Answered(r, "direct")'
  BY <1>2 DEF Answered
<1>4. ControlOf(r)'
  BY <1>2, <1>3 DEF ControlOf
<1>5. QED
  BY <1>1, <1>2, <1>4 DEF TypeOK, Own

LEMMA BeginStep ==
  ASSUME Inv, NEW r \in Requests, NEW label \in PC \ {"idle", "done"}, NEW x \in Context,
         Begin(r, label, x)
  PROVE  /\ pc[r] = "idle" /\ TypeOK' /\ Own(r)
         /\ pc'[r] = label /\ ctx'[r] = x /\ reply'[r] = None
         /\ KeepsNames(r) /\ UNCHANGED tables
<1>1. TypeOK /\ pc[r] = "idle" /\ reply[r] = None
  BY DEF Begin, Inv, Control, ControlOf
<1>2. Own(r) /\ TypeOK' /\ pc'[r] = label /\ ctx'[r] = x /\ reply'[r] = None
  BY <1>1, GotoStep, ContextStep DEF Begin, Own, TypeOK, tables
<1>3. UNCHANGED tables
  BY DEF Begin
<1>4. QED
  BY <1>1, <1>2, <1>3, SameTables DEF tables

LEMMA BlankIsContext ==
  ASSUME NEW op \in {"direct", "group", "invite", "redeem", "add", "role", "block", "unblock"},
         NEW u \in Users
  PROVE  Blank(op, u) \in Context
BY DEF Blank, Context, Roles, Names

(* The requests that arrive without a lock.                                *)
LEMMA BeginPlain ==
  ASSUME Inv, NEW r \in Requests, NEW label \in {"blocks", "seed", "block", "unblock"},
         NEW x \in Context, Begin(r, label, x),
         label = "blocks" => x.op = "direct",
         label = "seed" => x.op = "group",
         label \in {"block", "unblock"} => x.op = label
  PROVE  Inv'
<1>1. label \in PC \ {"idle", "done"}
  BY DEF PC
<1>2. ControlOf(r)'
  BY <1>1, BeginStep, Distinct DEF ControlOf, Answered
<1>3. QED
  BY <1>1, <1>2, BeginStep, PlainStep DEF tables

LEMMA BeginShared ==
  ASSUME Inv, NEW r \in Requests, NEW label \in {"invite", "count", "target"},
         NEW x \in Context, Begin(r, label, x), Shared(x.name),
         label = "invite" => x.op = "invite",
         label = "count" => x.op = "add",
         label = "target" => x.op = "role",
         label # "invite" => x.role # "OWNER",
         label = "target" => x.max = 4 /\ x.user = OwnerOf(x.name)
  PROVE  Inv'
<1>1. label \in PC \ {"idle", "done"} /\ x.name \in Names
  BY DEF PC, Context
<1>2. Shared(x.name)' /\ OwnerOf(x.name)' = OwnerOf(x.name)
  BY <1>1, BeginStep, OwnerKept DEF Shared
<1>3. ControlOf(r)'
  BY <1>1, <1>2, BeginStep, Distinct DEF ControlOf, Answered
<1>4. QED
  BY <1>1, <1>3, BeginStep, PlainStep DEF tables

-----------------------------------------------------------------------------
(* The writes to the tables.                                               *)

LEMMA InvitesKept ==
  ASSUME Inv, NEW r \in Requests, pc[r] # "done", Own(r), KeepsNames(r),
         \A i \in Names : invite[i] = None => invite'[i] = None
  PROVE  InvitesShared'
<1> SUFFICES ASSUME NEW i \in Names, invite'[i] # None
             PROVE  Shared(invite[i].conv)' /\ invite'[i].conv = invite[i].conv
  BY DEF InvitesShared
<1>1. invite[i] # None /\ Shared(invite[i].conv) /\ invite'[i].conv = invite[i].conv
  BY DEF Inv, Tables, InvitesShared, KeepsNames
<1>2. invite[i].conv \in Names
  BY <1>1 DEF Inv, TypeOK, Invite
<1>3. conversation'[invite[i].conv] = conversation[invite[i].conv]
  BY <1>1, <1>2 DEF KeepsNames, Shared
<1>4. QED
  BY <1>1, <1>3 DEF Shared, Stored

(* Somebody who is not the owner is given a role below the owner's.        *)
LEMMA MemberChange ==
  ASSUME Inv, NEW r \in Requests, pc[r] # "done", Own(r), UNCHANGED conversation,
         \A i \in Names : invite[i] = None => invite'[i] = None, KeepsNames(r),
         NEW c \in Names, Shared(c), NEW u \in Users, u # OwnerOf(c),
         NEW role \in Roles, role # "OWNER",
         member' = [member EXCEPT ![c][u] = role]
  PROVE  member' \in [Names -> [Users -> Roles \cup {None}]] /\ Tables'
<1>1. /\ member' \in [Names -> [Users -> Roles \cup {None}]]
      /\ \A d \in Names \ {c} : member'[d] = member[d]
      /\ member'[c][u] = role
      /\ \A v \in Users \ {u} : member'[c][v] = member[c][v]
  BY DEF Inv, TypeOK
<1>2. ASSUME NEW d \in Names PROVE RowsOf(d)'
  <2>1. RowsOf(d)
    BY DEF Inv, Tables
  <2>2. CASE Stored(d)
    <3>1. /\ Stored(d)' /\ conversation'[d] = conversation[d]
          /\ OwnerOf(d)' = OwnerOf(d) /\ (Shared(d)' <=> Shared(d))
      BY <2>2, OwnerKept
    <3>2. d \in Requests => pc'[d] = "done" /\ ctx'[d] \in Context
      BY <2>1, <2>2 DEF RowsOf, Own
    <3>3. CASE d = c
      BY <1>1, <2>1, <2>2, <3>1, <3>2, <3>3 DEF RowsOf, Shared
    <3>4. CASE d # c
      <4>1. member'[d] = member[d]
        BY <1>1, <3>4
      <4>2. QED
        BY <2>1, <2>2, <3>1, <3>2, <4>1 DEF RowsOf
    <3>5. QED
      BY <3>3, <3>4
  <2>3. CASE ~Stored(d)
    <3>1. d # c /\ ~Stored(d)'
      BY <2>3 DEF Shared, Stored
    <3>2. QED
      BY <1>1, <2>1, <2>3, <3>1 DEF RowsOf, Shared
  <2>4. QED
    BY <2>2, <2>3
<1>3. PairsUnique'
  BY DEF Inv, Tables, PairsUnique, Stored
<1>4. QED
  BY <1>1, <1>2, <1>3, InvitesKept DEF Tables

(* A request writes the conversation it is named for.                      *)
LEMMA NewConversation ==
  ASSUME Inv, NEW r \in Requests, pc[r] \notin {"idle", "done"}, Own(r), pc'[r] = "done",
         NEW kind \in {"DIRECT", "GROUP", "CHANNEL"}, NEW pair \in Pairs \cup {{}},
         NEW m \in [Users -> Roles \cup {None}],
         conversation' = [conversation EXCEPT ![r] = NewRow(kind, pair)],
         member' = [member EXCEPT ![r] = m],
         UNCHANGED <<invite, ctx>>,
         kind = "DIRECT" <=> pair # {},
         kind = "DIRECT" => /\ \A u \in Users : m[u] = IF u \in pair THEN "MEMBER" ELSE None
                            /\ \A c \in Names : Stored(c) => conversation[c].pair # pair,
         kind # "DIRECT" => \A u \in Users : m[u] = "OWNER" <=> u = ctx[r].user
  PROVE  /\ conversation' \in [Names -> Row \cup {None}]
         /\ member' \in [Names -> [Users -> Roles \cup {None}]]
         /\ KeepsNames(r) /\ Tables'
         /\ Stored(r)' /\ conversation'[r].pair = pair
<1> DEFINE row == NewRow(kind, pair)
<1>1. /\ row \in Row /\ row.kind = kind /\ row.pair = pair /\ row.visibility = "PRIVATE"
  BY NewRowIsRow DEF NewRow
<1> HIDE DEF row
<1>2. r \in Names /\ r # Founded /\ ~Stored(r)
  BY ConversationsAssumption DEF Inv, Tables, RowsOf, Names
<1>3. conversation' = [conversation EXCEPT ![r] = row]
  BY DEF row
<1>4. /\ conversation' \in [Names -> Row \cup {None}]
      /\ conversation'[r] = row
      /\ \A c \in Names \ {r} : conversation'[c] = conversation[c]
  BY <1>1, <1>2, <1>3 DEF Inv, TypeOK
<1>5. /\ member' \in [Names -> [Users -> Roles \cup {None}]]
      /\ member'[r] = m
      /\ \A c \in Names \ {r} : member'[c] = member[c]
  BY <1>2 DEF Inv, TypeOK
<1>6. KeepsNames(r)
  BY <1>2, <1>4 DEF KeepsNames, Stored
<1>7. Stored(r)' /\ conversation'[r].pair = pair
  BY <1>1, <1>4, Distinct DEF Stored
<1>8. ASSUME NEW d \in Names PROVE RowsOf(d)'
  <2>1. RowsOf(d)
    BY DEF Inv, Tables
  <2>2. CASE d = r
    <3>1. ctx'[r] = ctx[r] /\ ctx[r] \in Context /\ OwnerOf(r)' = ctx[r].user
      BY <1>2 DEF Inv, Control, ControlOf, OwnerOf
    <3>2. Shared(r)' <=> kind # "DIRECT"
      BY <1>1, <1>4, <1>7 DEF Shared
    <3>3. QED
      BY <1>1, <1>4, <1>5, <1>7, <2>2, <3>1, <3>2 DEF RowsOf
  <2>3. CASE d # r /\ Stored(d)
    <3>1. /\ Stored(d)' /\ conversation'[d] = conversation[d]
          /\ OwnerOf(d)' = OwnerOf(d) /\ (Shared(d)' <=> Shared(d))
      BY <1>6, <2>3, OwnerKept
    <3>2. member'[d] = member[d]
      BY <1>5, <2>3
    <3>3. d \in Requests => pc'[d] = "done" /\ ctx'[d] \in Context
      BY <2>1, <2>3 DEF RowsOf, Own
    <3>4. QED
      BY <2>1, <2>3, <3>1, <3>2, <3>3 DEF RowsOf
  <2>4. CASE d # r /\ ~Stored(d)
    <3>1. ~Stored(d)' /\ member'[d] = member[d]
      BY <1>4, <1>5, <2>4 DEF Stored
    <3>2. QED
      BY <2>1, <2>4, <3>1 DEF RowsOf, Shared
  <2>5. QED
    BY <2>2, <2>3, <2>4
<1>9. PairsUnique'
  <2> SUFFICES ASSUME NEW c \in Names, NEW d \in Names, Stored(c)', Stored(d)',
                      conversation'[c].pair # {},
                      conversation'[c].pair = conversation'[d].pair
               PROVE  c = d
    BY DEF PairsUnique
  <2>1. \A e \in Names \ {r} : Stored(e)' => Stored(e) /\ conversation'[e] = conversation[e]
    BY <1>4 DEF Stored
  <2>2. CASE c # r /\ d # r
    BY <2>1, <2>2 DEF Inv, Tables, PairsUnique
  <2>3. CASE c = r \/ d = r
    BY <1>7, <2>1, <2>3
  <2>4. QED
    BY <2>2, <2>3
<1>10. InvitesShared'
  BY <1>6, InvitesKept
<1>11. QED
  BY <1>4, <1>5, <1>6, <1>7, <1>8, <1>9, <1>10 DEF Tables

-----------------------------------------------------------------------------
LEMMA InitInv == Init => Inv
<1> SUFFICES ASSUME Init PROVE Inv
  OBVIOUS
<1> DEFINE founded == NewRow("GROUP", {})
<1>1. /\ founded \in Row /\ founded.kind = "GROUP" /\ founded.pair = {}
      /\ founded.visibility = "PRIVATE" /\ founded # None
  <2>1. founded \in Row
    BY NewRowIsRow
  <2>2. QED
    BY <2>1, Distinct DEF NewRow
<1> HIDE DEF founded
<1>2. conversation = [c \in Names |-> IF c = Founded THEN founded ELSE None]
  BY DEF Init, founded
<1>3. Founded \in Names /\ \A c \in Names : Stored(c) <=> c = Founded
  BY <1>1, <1>2 DEF Names, Stored
<1>4. TypeOK
  <2>1. conversation \in [Names -> Row \cup {None}]
    BY <1>1, <1>2
  <2>2. member \in [Names -> [Users -> Roles \cup {None}]]
    BY DEF Init, Roles
  <2>3. invite \in [Names -> Invite \cup {None}]
    BY <1>3, ConversationsAssumption DEF Init, Invite, Limits
  <2>4. QED
    BY <2>1, <2>2, <2>3 DEF Init, TypeOK, PC
<1>5. Control
  BY Distinct DEF Init, Control, ControlOf, Answered
<1>6. ASSUME NEW c \in Names PROVE RowsOf(c)
  <2>1. CASE c = Founded
    <3>1. conversation[c] = founded /\ Stored(c) /\ c \notin Requests /\ OwnerOf(c) = Founder
      BY <1>2, <1>3, <2>1, ConversationsAssumption DEF OwnerOf
    <3>2. \A u \in Users : member[c][u] = IF u = Founder THEN "OWNER" ELSE None
      BY <1>3, <2>1 DEF Init
    <3>3. None # "OWNER"
      BY Distinct DEF Roles
    <3>4. QED
      BY <1>1, <3>1, <3>2, <3>3 DEF RowsOf, Shared
  <2>2. CASE c # Founded
    BY <1>3, <2>2 DEF RowsOf, Shared, Init
  <2>3. QED
    BY <2>1, <2>2
<1>7. PairsUnique
  BY <1>3 DEF PairsUnique
<1>8. InvitesShared
  <2>1. Shared(Founded)
    BY <1>1, <1>2, <1>3 DEF Shared
  <2>2. QED
    BY <2>1 DEF InvitesShared, Init
<1>9. QED
  BY <1>4, <1>5, <1>6, <1>7, <1>8 DEF Inv, Tables

(* The steps with which a request arrives.                                 *)
LEMMA ArriveInv ==
  ASSUME Inv, NEW r \in Requests, NEW u \in Users, Arrive(r, u)
  PROVE  Inv'
<1>1. CASE \E v \in Users : OpenDirect(r, u, v)
  <2>1. PICK v \in Users : OpenDirect(r, u, v)
    BY <1>1
  <2> DEFINE x == [Blank("direct", u) EXCEPT !.other = v]
  <2>2. x \in Context /\ x.op = "direct"
    BY BlankIsContext DEF Blank, Context
  <2>3. Begin(r, "blocks", x)
    BY <2>1 DEF OpenDirect
  <2> HIDE DEF x
  <2>4. QED
    BY <2>2, <2>3, BeginPlain
<1>2. CASE \E v \in Users : BlockUser(r, u, v)
  <2>1. PICK v \in Users : BlockUser(r, u, v)
    BY <1>2
  <2> DEFINE x == [Blank("block", u) EXCEPT !.other = v]
  <2>2. x \in Context /\ x.op = "block"
    BY BlankIsContext DEF Blank, Context
  <2>3. Begin(r, "block", x)
    BY <2>1 DEF BlockUser
  <2> HIDE DEF x
  <2>4. QED
    BY <2>2, <2>3, BeginPlain
<1>3. CASE \E v \in Users : UnblockUser(r, u, v)
  <2>1. PICK v \in Users : UnblockUser(r, u, v)
    BY <1>3
  <2> DEFINE x == [Blank("unblock", u) EXCEPT !.other = v]
  <2>2. x \in Context /\ x.op = "unblock"
    BY BlankIsContext DEF Blank, Context
  <2>3. Begin(r, "unblock", x)
    BY <2>1 DEF UnblockUser
  <2> HIDE DEF x
  <2>4. QED
    BY <2>2, <2>3, BeginPlain
<1>4. CASE \E kind \in Kinds, others \in SUBSET (Users \ {u}) : CreateGroup(r, u, kind, others)
  <2>1. PICK kind \in Kinds, others \in SUBSET (Users \ {u}) : CreateGroup(r, u, kind, others)
    BY <1>4
  <2> DEFINE x == [Blank("group", u) EXCEPT !.kind = kind, !.wanted = others]
  <2>2. x \in Context /\ x.op = "group"
    <3>1. kind \in {"GROUP", "CHANNEL"} /\ others \in SUBSET Users
      BY ConversationsAssumption
    <3>2. QED
      BY <3>1 DEF Blank, Context, Roles, Names
  <2>3. Begin(r, "seed", x)
    BY <2>1 DEF CreateGroup
  <2> HIDE DEF x
  <2>4. QED
    BY <2>2, <2>3, BeginPlain
<1>5. CASE \E i \in Names : PresentInvite(r, u, i)
  <2>1. PICK i \in Names : PresentInvite(r, u, i)
    BY <1>5
  <2> DEFINE x == [Blank("redeem", u) EXCEPT !.name = i]
  <2>2. x \in Context /\ x.op = "redeem" /\ x.name = i
    BY BlankIsContext DEF Blank, Context
  <2>3. /\ ctx' = [ctx EXCEPT ![r] = x] /\ Goto(r, "membership") /\ "membership" \in PC
        /\ TypeOK /\ pc[r] = "idle" /\ reply[r] = None
    BY <2>1 DEF PresentInvite, Inv, Control, ControlOf, PC
  <2> HIDE DEF x
  <2>4. /\ Own(r) /\ pc'[r] = "membership" /\ ctx'[r] = x /\ reply'[r] = None
        /\ pc' \in [Requests -> PC] /\ ctx' \in [Requests -> Context \cup {None}]
    BY <2>1, <2>2, <2>3, GotoStep, ContextStep, ZenonT(60) DEF PresentInvite, Own
  <2>5. TypeOK'
    BY <2>1, <2>4 DEF PresentInvite, Inv, TypeOK
  <2>6. invite'[i] # None
    BY <2>1 DEF PresentInvite, UsesLeft
  <2>7. ControlOf(r)'
    BY <2>2, <2>4, <2>6 DEF ControlOf, Answered
  <2>8. QED
    BY <2>1, <2>3, <2>4, <2>5, <2>7, PlainStep DEF PresentInvite
<1>6. CASE \E c \in Names, n \in Limits : CreateInvite(r, u, c, n)
  <2>1. PICK c \in Names, n \in Limits : CreateInvite(r, u, c, n)
    BY <1>6
  <2> DEFINE x == [Blank("invite", u) EXCEPT !.name = c, !.max = n]
  <2>2. x \in Context /\ x.op = "invite" /\ x.name = c
    <3>1. n \in Nat \cup {None}
      BY ConversationsAssumption DEF Limits
    <3>2. QED
      BY <3>1 DEF Blank, Context, Roles, Names
  <2>3. Begin(r, "invite", x) /\ Shared(c)
    BY <2>1, OnlyShared DEF CreateInvite
  <2> HIDE DEF x
  <2>4. QED
    BY <2>2, <2>3, BeginShared
<1>7. CASE \E c \in Names, v \in Users, role \in Offered : AddMember(r, u, c, v, role)
  <2>1. PICK c \in Names, v \in Users, role \in Offered : AddMember(r, u, c, v, role)
    BY <1>7
  <2> DEFINE x == [Blank("add", u) EXCEPT !.name = c, !.other = v, !.role = role]
  <2>2. x \in Context /\ x.op = "add" /\ x.name = c /\ x.role = role
    <3>1. role \in Roles
      BY ConversationsAssumption
    <3>2. QED
      BY <3>1 DEF Blank, Context, Names
  <2>3. Begin(r, "count", x) /\ Shared(c) /\ role # "OWNER"
    BY <2>1, OnlyShared DEF AddMember
  <2> HIDE DEF x
  <2>4. QED
    BY <2>2, <2>3, BeginShared
<1>8. CASE \E c \in Names, v \in Users, role \in Offered : ChangeRole(r, u, c, v, role)
  <2>1. PICK c \in Names, v \in Users, role \in Offered : ChangeRole(r, u, c, v, role)
    BY <1>8
  <2>2. Shared(c) /\ member[c][u] = "OWNER" /\ u = OwnerOf(c) /\ role \in Roles
    BY <2>1, OnlyShared, ConversationsAssumption DEF ChangeRole
  <2>3. Rank[member[c][u]] = 4 /\ role # "OWNER"
    BY <2>1, <2>2 DEF ChangeRole, Rank
  <2> DEFINE x == [Blank("role", u) EXCEPT !.name = c, !.other = v, !.role = role,
                                           !.max = Rank[member[c][u]]]
  <2>4. /\ x \in Context /\ x.op = "role" /\ x.name = c /\ x.role = role
        /\ x.max = 4 /\ x.user = u
    <3>1. ASSUME NEW n \in Nat, NEW y,
                 y = [Blank("role", u) EXCEPT !.name = c, !.other = v, !.role = role,
                                              !.max = n]
          PROVE  /\ y \in Context /\ y.op = "role" /\ y.name = c /\ y.role = role
                 /\ y.max = n /\ y.user = u
      BY <2>2, <3>1 DEF Blank, Context, Names
    <3>2. QED
      BY <2>3, <3>1
  <2>5. Begin(r, "target", x)
    BY <2>1 DEF ChangeRole
  <2> HIDE DEF x
  <2>6. QED
    BY <2>2, <2>3, <2>4, <2>5, BeginShared
<1>9. QED
  BY <1>1, <1>2, <1>3, <1>4, <1>5, <1>6, <1>7, <1>8 DEF Arrive

(* An answer that leaves the tables alone; the lock may be given up.       *)
LEMMA PlainFinish ==
  ASSUME Inv, NEW r \in Requests, pc[r] # "done", NEW c \in Names \cup {None},
         NEW status \in {"ok", "refused", "error"}, Answer(r, status, c),
         status # "ok" \/ ctx[r] = None \/ ctx[r].op # "direct",
         UNCHANGED <<conversation, member, invite, ctx>>,
         blocks' \in SUBSET (Users \X Users),
         Unlock(r) \/ UNCHANGED inviteLock
  PROVE  Inv'
<1>1. inviteLock' \in [Names -> Requests \cup {None}]
  BY DEF Unlock, Inv, TypeOK
<1>2. TypeOK' /\ Own(r) /\ ControlOf(r)'
  BY <1>1, Finish DEF Inv, TypeOK
<1>3. QED
  BY <1>2, PlainStep

(* The steps that only read, and go on.                                    *)
LEMMA ReadStep ==
  ASSUME Inv, NEW r \in Requests, NEW label \in PC, Goto(r, label),
         pc[r] # "done", label \notin {"idle", "done"},
         UNCHANGED <<tables, reply>>, ctx' \in [Requests -> Context \cup {None}],
         \A s \in Requests \ {r} : ctx'[s] = ctx[s], ControlOf(r)'
  PROVE  Inv'
<1>1. TypeOK' /\ Own(r)
  BY GotoStep DEF Inv, TypeOK, Own, tables
<1>2. QED
  BY <1>1, PlainStep DEF tables

LEMMA DirectInv ==
  ASSUME Inv, NEW r \in Requests,
         CheckBlocks(r) \/ LookUpDirect(r) \/ CommitDirect(r) \/ DirectDuplicate(r)
           \/ TakeWinner(r)
  PROVE  Inv'
<1>1. /\ TypeOK /\ pc[r] \in {"blocks", "lookup", "create", "relookup"}
      /\ ctx[r] \in Context /\ ctx[r].op = "direct" /\ reply[r] = None /\ pc[r] # "done"
  BY DEF CheckBlocks, LookUpDirect, CommitDirect, DirectDuplicate, TakeWinner, Inv, Control,
     ControlOf
<1>2. ASSUME NEW label \in {"lookup", "create", "relookup"}, Goto(r, label),
             UNCHANGED <<tables, ctx, reply>>
      PROVE  Inv'
  <2>1. label \in PC /\ pc'[r] = label /\ ctx'[r] = ctx[r] /\ reply'[r] = None
    BY <1>1, <1>2, GotoStep DEF PC
  <2>2. ControlOf(r)'
    BY <1>1, <2>1, Distinct DEF ControlOf, Answered
  <2>3. QED
    BY <1>1, <1>2, <2>1, <2>2, ReadStep DEF TypeOK
<1>3. ASSUME NEW c \in Keyed(r), Answer(r, "ok", c), UNCHANGED <<tables, ctx>>
      PROVE  Inv'
  <2>1. c \in Names /\ Stored(c) /\ conversation[c].pair = PairOf(r)
    BY DEF Keyed
  <2>2. /\ pc' \in [Requests -> PC] /\ pc'[r] = "done"
        /\ reply' \in [Requests -> Reply \cup {None}] /\ reply'[r].conv = c
        /\ \A s \in Requests \ {r} : pc'[s] = pc[s] /\ reply'[s] = reply[s]
    BY <1>1, <1>3, <2>1, AnswerStep
  <2>3. /\ c \in Names /\ conversation'[c] # None /\ conversation'[c].pair = PairOf(r)
        /\ PairOf(r)' = PairOf(r)
    BY <1>3, <2>1 DEF tables, Stored, PairOf
  <2>4. ControlOf(r)'
    BY <2>2, <2>3 DEF ControlOf, Stored
  <2>5. TypeOK' /\ Own(r)
    BY <1>1, <1>3, <2>2 DEF TypeOK, Own, tables
  <2>6. QED
    BY <1>1, <1>3, <2>4, <2>5, PlainStep DEF tables
<1>4. CASE CheckBlocks(r)
  <2>1. CASE Goto(r, "lookup") /\ UNCHANGED reply
    BY <1>2, <1>4, <2>1 DEF CheckBlocks
  <2>2. CASE Answer(r, "refused", None)
    BY <1>1, <1>4, <2>2, PlainFinish DEF CheckBlocks, tables, TypeOK
  <2>3. QED
    BY <1>4, <2>1, <2>2 DEF CheckBlocks
<1>5. CASE LookUpDirect(r)
  BY <1>2, <1>3, <1>5 DEF LookUpDirect
<1>6. CASE DirectDuplicate(r)
  BY <1>2, <1>6 DEF DirectDuplicate
<1>7. CASE TakeWinner(r)
  BY <1>3, <1>7 DEF TakeWinner
<1>8. CASE CommitDirect(r)
  <2> DEFINE m == [u \in Users |-> IF u \in PairOf(r) THEN "MEMBER" ELSE None]
  <2>1. PairOf(r) \in Pairs /\ PairOf(r) # {}
    BY <1>1 DEF PairOf, Pairs, Context
  <2>2. m \in [Users -> Roles \cup {None}]
    BY DEF Roles
  <2>3. \A c \in Names : Stored(c) => conversation[c].pair # PairOf(r)
    BY <1>8 DEF CommitDirect, Keyed
  <2>4. r \in Names
    BY DEF Names
  <2>5. /\ pc' \in [Requests -> PC] /\ pc'[r] = "done"
        /\ reply' \in [Requests -> Reply \cup {None}] /\ reply'[r].conv = r
        /\ \A s \in Requests \ {r} : pc'[s] = pc[s] /\ reply'[s] = reply[s]
    BY <1>1, <1>8, <2>4, AnswerStep DEF CommitDirect
  <2>6. Own(r)
    BY <1>8, <2>5 DEF Own, CommitDirect
  <2>7. /\ conversation' = [conversation EXCEPT ![r] = NewRow("DIRECT", PairOf(r))]
        /\ member' = [member EXCEPT ![r] = m]
        /\ UNCHANGED <<invite, inviteLock, blocks, ctx>>
    BY <1>8 DEF CommitDirect
  <2>8. \A u \in Users : m[u] = IF u \in PairOf(r) THEN "MEMBER" ELSE None
    OBVIOUS
  <2> HIDE DEF m
  <2>9. /\ conversation' \in [Names -> Row \cup {None}]
        /\ member' \in [Names -> [Users -> Roles \cup {None}]]
        /\ KeepsNames(r) /\ Tables'
        /\ Stored(r)' /\ conversation'[r].pair = PairOf(r)
    BY <1>1, <2>1, <2>2, <2>3, <2>5, <2>6, <2>7, <2>8, NewConversation
  <2>10. ControlOf(r)'
    <3>1. PairOf(r)' = PairOf(r)
      BY <2>7 DEF PairOf
    <3>2. QED
      BY <2>4, <2>5, <2>9, <3>1 DEF ControlOf, Stored
  <2>11. TypeOK'
    BY <1>1, <2>5, <2>7, <2>9 DEF TypeOK
  <2>12. QED
    BY <1>1, <2>6, <2>9, <2>10, <2>11, ControlFrame DEF Inv
<1>9. QED
  BY <1>4, <1>5, <1>6, <1>7, <1>8

LEMMA GroupInv ==
  ASSUME Inv, NEW r \in Requests,
         (\E v \in Users : ConsiderInvitee(r, v)) \/ CommitGroup(r)
  PROVE  Inv'
<1>1. TypeOK /\ pc[r] = "seed" /\ ctx[r] \in Context /\ ctx[r].op = "group" /\ reply[r] = None
  BY DEF ConsiderInvitee, CommitGroup, Inv, Control, ControlOf
<1>2. CASE \E v \in Users : ConsiderInvitee(r, v)
  <2>1. PICK v \in Users : ConsiderInvitee(r, v)
    BY <1>2
  <2>2. PICK w \in SUBSET Users, f \in SUBSET Users :
          ctx' = [ctx EXCEPT ![r] = [@ EXCEPT !.wanted = w, !.found = f]]
    <3> DEFINE f == IF Blocked(ctx[r].user, v) THEN ctx[r].found ELSE ctx[r].found \cup {v}
               w == ctx[r].wanted \ {v}
    <3>1. w \in SUBSET Users /\ f \in SUBSET Users
      BY <1>1 DEF Context
    <3>2. ctx' = [ctx EXCEPT ![r] = [@ EXCEPT !.wanted = w, !.found = f]]
      BY <1>1, <2>1 DEF ConsiderInvitee, TypeOK, Context
    <3>3. QED
      BY <3>1, <3>2
  <2> DEFINE x == [ctx[r] EXCEPT !.wanted = w, !.found = f]
  <2>3. x \in Context /\ x.op = "group"
    BY <1>1 DEF Context
  <2> HIDE DEF x
  <2>4. /\ ctx' \in [Requests -> Context \cup {None}] /\ ctx'[r] = x
        /\ \A s \in Requests \ {r} : ctx'[s] = ctx[s]
    BY <1>1, <2>2, <2>3, ContextStep DEF x, TypeOK
  <2>5. UNCHANGED <<tables, pc, reply>>
    BY <2>1 DEF ConsiderInvitee
  <2>6. ControlOf(r)'
    BY <1>1, <2>3, <2>4, <2>5, Distinct DEF ControlOf, Answered
  <2>7. TypeOK' /\ Own(r)
    BY <1>1, <2>4, <2>5 DEF TypeOK, Own, tables
  <2>8. QED
    BY <1>1, <2>5, <2>6, <2>7, PlainStep DEF tables
<1>3. CASE CommitGroup(r)
  <2> DEFINE m == [u \in Users |-> IF u = ctx[r].user THEN "OWNER"
                             ELSE IF u \in ctx[r].found THEN RoleOfNewcomer(ctx[r].kind)
                             ELSE None]
             kind == ctx[r].kind
  <2>1. kind \in {"GROUP", "CHANNEL"} /\ ctx[r].user \in Users
    BY <1>1 DEF Context
  <2>2. RoleOfNewcomer(kind) \in Roles \ {"OWNER"} /\ "OWNER" \in Roles
    BY DEF RoleOfNewcomer, Roles
  <2>3. /\ m \in [Users -> Roles \cup {None}]
        /\ \A u \in Users : m[u] = "OWNER" <=> u = ctx[r].user
    <3>1. \A u \in Users :
            /\ u = ctx[r].user => m[u] = "OWNER"
            /\ u # ctx[r].user => m[u] = RoleOfNewcomer(kind) \/ m[u] = None
      OBVIOUS
    <3>2. m \in [Users -> {m[u] : u \in Users}]
      OBVIOUS
    <3> HIDE DEF m
    <3>3. QED
      BY <2>2, <3>1, <3>2, Distinct
  <2>4. r \in Names
    BY DEF Names
  <2>5. /\ conversation' = [conversation EXCEPT ![r] = NewRow(kind, {})]
        /\ member' = [member EXCEPT ![r] = m]
        /\ UNCHANGED <<invite, inviteLock, blocks, ctx>> /\ Answer(r, "ok", r)
    BY <1>3 DEF CommitGroup
  <2> HIDE DEF m, kind
  <2>6. /\ pc' \in [Requests -> PC] /\ reply' \in [Requests -> Reply \cup {None}]
        /\ Own(r) /\ ControlOf(r)' /\ pc'[r] = "done"
    BY <1>1, <2>4, <2>5, Finish, AnswerStep
  <2>7. /\ conversation' \in [Names -> Row \cup {None}]
        /\ member' \in [Names -> [Users -> Roles \cup {None}]]
        /\ KeepsNames(r) /\ Tables'
    BY <1>1, <2>1, <2>3, <2>5, <2>6, NewConversation
  <2>8. TypeOK'
    BY <1>1, <2>5, <2>6, <2>7 DEF TypeOK
  <2>9. QED
    BY <1>1, <2>6, <2>7, <2>8, ControlFrame DEF Inv
<1>4. QED
  BY <1>2, <1>3

LEMMA SeenIsContext ==
  ASSUME NEW x \in Context, NEW held \in Roles \cup {None}
  PROVE  /\ [x EXCEPT !.seen = held] \in Context
         /\ \A f \in {"op", "user", "other", "name", "role", "max"} :
              [x EXCEPT !.seen = held][f] = x[f]
         /\ [x EXCEPT !.seen = held].seen = held
BY DEF Context

LEMMA InviteInv ==
  ASSUME Inv, NEW r \in Requests, CommitInvite(r)
  PROVE  Inv'
<1> DEFINE x == [conv |-> ctx[r].name, max |-> ctx[r].max, uses |-> 0]
<1>1. /\ TypeOK /\ pc[r] = "invite" /\ ctx[r] \in Context /\ ctx[r].op = "invite"
      /\ Shared(ctx[r].name) /\ ctx[r].name \in Names
  BY DEF CommitInvite, Inv, Control, ControlOf, Context
<1>2. x \in Invite /\ x.conv = ctx[r].name /\ x # None /\ r \in Names
  BY <1>1, Distinct DEF Invite, Context, Names
<1>3. /\ invite' = [invite EXCEPT ![r] = x] /\ Answer(r, "ok", ctx[r].name)
      /\ UNCHANGED <<conversation, member, inviteLock, blocks, ctx>>
  BY DEF CommitInvite
<1> HIDE DEF x
<1>4. /\ pc' \in [Requests -> PC] /\ reply' \in [Requests -> Reply \cup {None}]
      /\ Own(r) /\ ControlOf(r)'
  BY <1>1, <1>3, Finish
<1>5. /\ invite' \in [Names -> Invite \cup {None}] /\ invite'[r] = x
      /\ \A i \in Names \ {r} : invite'[i] = invite[i]
  BY <1>1, <1>2, <1>3 DEF TypeOK
<1>6. TypeOK'
  BY <1>1, <1>3, <1>4, <1>5 DEF TypeOK
(* Whether the name of the invite was free does not matter here.           *)
<1>7. ASSUME NEW s \in Requests \ {r} PROVE ControlOf(s)'
  <2>1. ControlOf(s) /\ pc'[s] = pc[s] /\ ctx'[s] = ctx[s] /\ reply'[s] = reply[s]
    BY <1>4 DEF Inv, Control, Own
  <2>2. pc[s] \in {"membership", "join"} => invite'[ctx[s].name] # None
    BY <1>2, <1>5, <2>1 DEF ControlOf, Context
  <2>3. /\ Shared(ctx[s].name)' <=> Shared(ctx[s].name)
        /\ OwnerOf(ctx[s].name)' = OwnerOf(ctx[s].name)
    BY <1>3 DEF OwnerOf, Shared, Stored
  <2>4. Answered(s, "direct")' => Answered(s, "direct")
    BY <2>1 DEF Answered
  <2>5. Answered(s, "direct") =>
          /\ reply[s].conv \in Names /\ conversation'[reply[s].conv] # None
          /\ conversation'[reply[s].conv].pair = PairOf(s)
    BY <1>3, <2>1 DEF ControlOf, Stored
  <2>6. PairOf(s)' = PairOf(s)
    BY <2>1 DEF PairOf
  <2>7. QED
    BY <2>1, <2>2, <2>3, <2>4, <2>5, <2>6 DEF ControlOf, Stored
<1>8. Control'
  BY <1>4, <1>7 DEF Control
<1>9. ASSUME NEW c \in Names PROVE RowsOf(c)'
  <2>1. RowsOf(c)
    BY DEF Inv, Tables
  <2>2. Stored(c) /\ c \in Requests => c # r
    BY <1>1, <2>1 DEF RowsOf
  <2>3. QED
    BY <1>3, <1>4, <2>1, <2>2 DEF RowsOf, Own, Stored, Shared, OwnerOf
<1>10. PairsUnique'
  BY <1>3 DEF Inv, Tables, PairsUnique, Stored
<1>11. InvitesShared'
  BY <1>1, <1>2, <1>3, <1>5 DEF Inv, Tables, InvitesShared, Shared, Stored
<1>12. QED
  BY <1>6, <1>8, <1>9, <1>10, <1>11 DEF Inv, Tables

LEMMA RedeemInv ==
  ASSUME Inv, NEW r \in Requests, ReadMembership(r) \/ Join(r) \/ JoinConflict(r)
  PROVE  Inv'
<1> DEFINE i == ctx[r].name
           c == invite[i].conv
           u == ctx[r].user
<1>1. /\ TypeOK /\ pc[r] \in {"membership", "join"} /\ ctx[r] \in Context
      /\ ctx[r].op = "redeem" /\ reply[r] = None /\ i \in Names /\ u \in Users
      /\ invite[i] # None
  BY DEF ReadMembership, Join, JoinConflict, Inv, Control, ControlOf, Context
<1>2. c \in Names /\ Shared(c) /\ invite[i] \in Invite
  BY <1>1 DEF TypeOK, Invite, Inv, Tables, InvitesShared
<1>3. CASE ReadMembership(r)
  <2> DEFINE x == [ctx[r] EXCEPT !.seen = member[c][u]]
  <2>1. x \in Context /\ x.op = "redeem" /\ x.name = i
    <3>1. member[c][u] \in Roles \cup {None}
      BY <1>1, <1>2 DEF TypeOK
    <3>2. QED
      BY <1>1, <3>1, SeenIsContext
  <2>2. ctx' = [ctx EXCEPT ![r] = x] /\ Goto(r, "join") /\ UNCHANGED <<tables, reply>>
    BY <1>3 DEF ReadMembership
  <2> HIDE DEF x
  <2>3. /\ ctx' \in [Requests -> Context \cup {None}] /\ ctx'[r] = x
        /\ \A s \in Requests \ {r} : ctx'[s] = ctx[s]
        /\ pc'[r] = "join" /\ "join" \in PC
    BY <1>1, <2>1, <2>2, ContextStep, GotoStep DEF PC
  <2>4. reply'[r] = None /\ invite' = invite
    BY <1>1, <2>2 DEF tables
  <2>5. ControlOf(r)'
    BY <1>1, <2>1, <2>3, <2>4 DEF ControlOf, Answered
  <2>6. QED
    BY <1>1, <2>2, <2>3, <2>5, ReadStep
<1>4. CASE Join(r)
  <2>1. /\ invite' = [invite EXCEPT ![i].uses = @ + 1] /\ Answer(r, "ok", c) /\ Unlock(r)
        /\ UNCHANGED <<conversation, blocks, ctx>>
    BY <1>4 DEF Join
  <2>2. /\ pc' \in [Requests -> PC] /\ reply' \in [Requests -> Reply \cup {None}]
        /\ Own(r) /\ ControlOf(r)'
    BY <1>1, <1>2, <2>1, Finish
  <2>3. /\ invite' \in [Names -> Invite \cup {None}]
        /\ \A j \in Names : invite[j] = None <=> invite'[j] = None
        /\ \A j \in Names : invite[j] # None => invite'[j].conv = invite[j].conv
    <3> DEFINE y == [invite[i] EXCEPT !.uses = @ + 1]
    <3>1. y \in Invite /\ y.conv = invite[i].conv /\ y # None
      BY <1>2, Distinct DEF Invite
    <3>2. invite' = [invite EXCEPT ![i] = y]
      BY <1>2, <2>1
    <3> HIDE DEF y
    <3>3. QED
      BY <1>1, <3>1, <3>2 DEF TypeOK
  <2>4. KeepsNames(r)
    BY <2>1, <2>3 DEF KeepsNames, Stored
  <2>5. inviteLock' \in [Names -> Requests \cup {None}]
    BY <1>1, <2>1 DEF Unlock, TypeOK
  <2>6. member' \in [Names -> [Users -> Roles \cup {None}]] /\ Tables'
    <3>1. CASE ctx[r].seen = None
      <4>1. /\ member[c][u] = None
            /\ member' = [member EXCEPT ![c][u] = RoleOfNewcomer(conversation[c].kind)]
        BY <1>4, <3>1 DEF Join
      <4>2. u # OwnerOf(c)
        BY <1>1, <1>2, <4>1, Distinct DEF Inv, Tables, RowsOf, Roles
      <4>3. RoleOfNewcomer(conversation[c].kind) \in Roles \ {"OWNER"}
        BY DEF RoleOfNewcomer, Roles
      <4> HIDE DEF c, u
      <4>4. QED
        BY <1>1, <1>2, <2>1, <2>2, <2>3, <2>4, <4>1, <4>2, <4>3, MemberChange DEF Roles
    <3>2. CASE ctx[r].seen # None
      <4>1. member' = member
        BY <1>4, <3>2 DEF Join
      <4>2. InvitesShared'
        BY <1>1, <2>2, <2>3, <2>4, InvitesKept
      <4>3. ASSUME NEW d \in Names PROVE RowsOf(d)'
        <5>1. RowsOf(d)
          BY DEF Inv, Tables
        <5>2. Stored(d) /\ d \in Requests => d # r
          BY <1>1, <5>1 DEF RowsOf
        <5>3. QED
          BY <2>1, <2>2, <4>1, <5>1, <5>2 DEF RowsOf, Own, Stored, Shared, OwnerOf
      <4>4. PairsUnique'
        BY <2>1 DEF Inv, Tables, PairsUnique, Stored
      <4>5. QED
        BY <1>1, <4>1, <4>2, <4>3, <4>4 DEF Tables, TypeOK
    <3>3. QED
      BY <3>1, <3>2
  <2>7. TypeOK'
    BY <1>1, <2>1, <2>2, <2>3, <2>5, <2>6 DEF TypeOK
  <2>8. QED
    BY <1>1, <2>2, <2>4, <2>6, <2>7, ControlFrame DEF Inv
<1>5. CASE JoinConflict(r)
  BY <1>1, <1>5, PlainFinish DEF JoinConflict, TypeOK
<1>6. QED
  BY <1>3, <1>4, <1>5

LEMMA AddInv ==
  ASSUME Inv, NEW r \in Requests,
         CountMembers(r) \/ FindMember(r) \/ CommitMember(r) \/ MemberConflict(r)
  PROVE  Inv'
<1> DEFINE c == ctx[r].name
           v == ctx[r].other
<1>1. /\ TypeOK /\ pc[r] \in {"count", "existing", "add"} /\ ctx[r] \in Context
      /\ ctx[r].op = "add" /\ reply[r] = None /\ c \in Names /\ v \in Users
      /\ Shared(c) /\ ctx[r].role \in Roles /\ ctx[r].role # "OWNER"
  BY DEF CountMembers, FindMember, CommitMember, MemberConflict, Inv, Control, ControlOf, Context
<1>2. ASSUME NEW x \in Context, NEW label \in {"existing", "add"}, Goto(r, label),
             x.op = "add", x.name = c, x.role = ctx[r].role,
             \/ ctx' = [ctx EXCEPT ![r] = x]
             \/ x = ctx[r] /\ ctx' = ctx,
             UNCHANGED <<tables, reply>>
      PROVE  Inv'
  <2>1. /\ ctx' \in [Requests -> Context \cup {None}] /\ ctx'[r] = x
        /\ \A s \in Requests \ {r} : ctx'[s] = ctx[s]
        /\ pc'[r] = label /\ label \in PC /\ reply'[r] = None
    BY <1>1, <1>2, ContextStep, GotoStep DEF PC, TypeOK
  <2>2. Shared(x.name)'
    BY <1>1, <1>2 DEF Shared, Stored, tables
  <2>3. ControlOf(r)'
    BY <1>1, <1>2, <2>1, <2>2, Distinct DEF ControlOf, Answered
  <2>4. QED
    BY <1>1, <1>2, <2>1, <2>3, ReadStep
<1>3. CASE CountMembers(r)
  <2>1. CASE Goto(r, "existing") /\ UNCHANGED reply
    BY <1>1, <1>2, <1>3, <2>1 DEF CountMembers
  <2>2. CASE Answer(r, "refused", None)
    BY <1>1, <1>3, <2>2, PlainFinish DEF CountMembers, tables, TypeOK
  <2>3. QED
    BY <1>3, <2>1, <2>2 DEF CountMembers
<1>4. CASE FindMember(r)
  <2> DEFINE x == [ctx[r] EXCEPT !.seen = member[c][v]]
  <2>1. x \in Context /\ x.op = "add" /\ x.name = c /\ x.role = ctx[r].role
    <3>1. member[c][v] \in Roles \cup {None}
      BY <1>1 DEF TypeOK
    <3>2. QED
      BY <1>1, <3>1, SeenIsContext
  <2>2. ctx' = [ctx EXCEPT ![r] = x] /\ Goto(r, "add") /\ UNCHANGED <<tables, reply>>
    BY <1>4 DEF FindMember
  <2> HIDE DEF x
  <2>3. QED
    BY <1>2, <2>1, <2>2
<1>5. CASE CommitMember(r)
  <2>1. /\ Answer(r, "ok", c) /\ UNCHANGED <<conversation, invite, inviteLock, blocks, ctx>>
    BY <1>5 DEF CommitMember
  <2>2. CASE ctx[r].seen = None
    <3>1. /\ member[c][v] = None
          /\ member' = [member EXCEPT ![c][v] = ctx[r].role]
      BY <1>5, <2>2 DEF CommitMember
    <3>2. v # OwnerOf(c)
      BY <1>1, <3>1, Distinct DEF Inv, Tables, RowsOf, Roles
    <3>3. /\ pc' \in [Requests -> PC] /\ reply' \in [Requests -> Reply \cup {None}]
          /\ Own(r) /\ ControlOf(r)'
      BY <1>1, <2>1, Finish
    <3>4. KeepsNames(r)
      BY <2>1 DEF KeepsNames, Stored
    <3> HIDE DEF c, v
    <3>5. member' \in [Names -> [Users -> Roles \cup {None}]] /\ Tables'
      BY <1>1, <2>1, <3>1, <3>2, <3>3, <3>4, MemberChange
    <3>6. TypeOK'
      BY <1>1, <2>1, <3>3, <3>5 DEF TypeOK
    <3>7. QED
      BY <1>1, <3>3, <3>4, <3>5, <3>6, ControlFrame DEF Inv
  <2>3. CASE ctx[r].seen # None
    <3>1. member' = member
      BY <1>5, <2>3 DEF CommitMember
    <3>2. QED
      BY <1>1, <2>1, <3>1, PlainFinish DEF TypeOK
  <2>4. QED
    BY <2>2, <2>3
<1>6. CASE MemberConflict(r)
  BY <1>1, <1>6, PlainFinish DEF MemberConflict, tables, TypeOK
<1>7. QED
  BY <1>3, <1>4, <1>5, <1>6

LEMMA RoleInv ==
  ASSUME Inv, NEW r \in Requests, FindTarget(r) \/ CommitRole(r)
  PROVE  Inv'
<1> DEFINE c == ctx[r].name
           v == ctx[r].other
<1>1. /\ TypeOK /\ pc[r] \in {"target", "rerole"} /\ ctx[r] \in Context
      /\ ctx[r].op = "role" /\ reply[r] = None /\ c \in Names /\ v \in Users
      /\ Shared(c) /\ ctx[r].role \in Roles /\ ctx[r].role # "OWNER"
      /\ ctx[r].max = 4 /\ ctx[r].user = OwnerOf(c)
  BY DEF FindTarget, CommitRole, Inv, Control, ControlOf, Context
<1>2. CASE FindTarget(r)
  <2>1. PICK x \in Context :
          /\ x = [ctx[r] EXCEPT !.seen = member[c][v]]
          /\ x.op = "role" /\ x.name = c /\ x.role = ctx[r].role
          /\ x.max = 4 /\ x.user = ctx[r].user /\ x.other = v
    <3> DEFINE y == [ctx[r] EXCEPT !.seen = member[c][v]]
    <3>1. member[c][v] \in Roles \cup {None}
      BY <1>1 DEF TypeOK
    <3>2. /\ y \in Context /\ y.op = ctx[r].op /\ y.name = c /\ y.role = ctx[r].role
          /\ y.max = ctx[r].max /\ y.user = ctx[r].user /\ y.other = v
      BY <1>1, <3>1, SeenIsContext
    <3>3. y = [ctx[r] EXCEPT !.seen = member[c][v]]
      OBVIOUS
    <3> HIDE DEF y
    <3>4. QED
      BY <1>1, <3>2, <3>3
  <2>2. /\ ctx' = [ctx EXCEPT ![r] = x] /\ UNCHANGED tables
        /\ \/ Answer(r, "refused", None)
           \/ member[c][v] # None /\ ~(4 <= Rank[member[c][v]]) /\ Goto(r, "rerole")
                /\ UNCHANGED reply
    BY <1>1, <1>2, <2>1 DEF FindTarget
  <2>3. /\ ctx' \in [Requests -> Context \cup {None}] /\ ctx'[r] = x
        /\ \A s \in Requests \ {r} : ctx'[s] = ctx[s]
    BY <1>1, <2>1, <2>2, ContextStep
  <2>4. CASE Answer(r, "refused", None)
    <3>1. /\ pc' \in [Requests -> PC] /\ pc'[r] = "done"
          /\ \A s \in Requests \ {r} : pc'[s] = pc[s] /\ reply'[s] = reply[s]
          /\ reply' \in [Requests -> Reply \cup {None}] /\ reply'[r].status = "refused"
      BY <1>1, <2>4, AnswerStep
    <3>2. ControlOf(r)'
      BY <3>1 DEF ControlOf, Answered
    <3>3. TypeOK' /\ Own(r)
      BY <1>1, <2>2, <2>3, <3>1 DEF TypeOK, Own, tables
    <3>4. QED
      BY <1>1, <2>2, <3>2, <3>3, PlainStep DEF tables
  <2>5. CASE member[c][v] # None /\ ~(4 <= Rank[member[c][v]]) /\ Goto(r, "rerole")
             /\ UNCHANGED reply
    <3>1. v # OwnerOf(c)
      BY <1>1, <2>5 DEF Inv, Tables, RowsOf, Rank
    <3>2. pc'[r] = "rerole" /\ "rerole" \in PC /\ reply'[r] = None
      BY <1>1, <2>5, GotoStep DEF PC
    <3>3. Shared(x.name)' /\ OwnerOf(x.name)' = OwnerOf(c)
      <4>1. \A s \in Requests : ctx'[s].user = ctx[s].user
        BY <1>1, <2>1, <2>3
      <4>2. x.name = c /\ conversation' = conversation
        BY <2>1, <2>2 DEF tables
      <4>3. x.name = Founded \/ x.name \in Requests
        BY <1>1, <4>2 DEF Names
      <4>4. OwnerOf(x.name)' = OwnerOf(x.name)
        BY <4>1, <4>3 DEF OwnerOf
      <4>5. QED
        BY <1>1, <4>2, <4>4 DEF Shared, Stored
    <3>4. ControlOf(r)'
      BY <1>1, <2>1, <2>3, <3>1, <3>2, <3>3, Distinct DEF ControlOf, Answered
    <3>5. QED
      BY <1>1, <2>2, <2>3, <2>5, <3>2, <3>4, ReadStep
  <2>6. QED
    BY <2>2, <2>4, <2>5
<1>3. CASE CommitRole(r)
  <2>1. /\ pc[r] = "rerole" /\ v # OwnerOf(c) /\ Answer(r, "ok", c)
        /\ UNCHANGED <<conversation, invite, inviteLock, blocks, ctx>>
    BY <1>3 DEF CommitRole, Inv, Control, ControlOf
  <2>2. CASE ctx[r].role # ctx[r].seen
    <3>1. member' = [member EXCEPT ![c][v] = ctx[r].role]
      BY <1>3, <2>2 DEF CommitRole
    <3>2. /\ pc' \in [Requests -> PC] /\ reply' \in [Requests -> Reply \cup {None}]
          /\ Own(r) /\ ControlOf(r)'
      BY <1>1, <2>1, Finish
    <3>3. KeepsNames(r)
      BY <2>1 DEF KeepsNames, Stored
    <3> HIDE DEF c, v
    <3>4. member' \in [Names -> [Users -> Roles \cup {None}]] /\ Tables'
      BY <1>1, <2>1, <3>1, <3>2, <3>3, MemberChange
    <3>5. TypeOK'
      BY <1>1, <2>1, <3>2, <3>4 DEF TypeOK
    <3>6. QED
      BY <1>1, <3>2, <3>3, <3>4, <3>5, ControlFrame DEF Inv
  <2>3. CASE ctx[r].role = ctx[r].seen
    <3>1. member' = member
      BY <1>1, <1>3, <2>3 DEF CommitRole, TypeOK
    <3>2. QED
      BY <1>1, <2>1, <3>1, PlainFinish DEF TypeOK
  <2>4. QED
    BY <2>2, <2>3
<1>4. QED
  BY <1>2, <1>3

LEMMA BlockInv ==
  ASSUME Inv, NEW r \in Requests, CommitBlock(r) \/ CommitUnblock(r)
  PROVE  Inv'
<1>1. /\ TypeOK /\ pc[r] \in {"block", "unblock"} /\ ctx[r] \in Context
      /\ ctx[r].op # "direct" /\ ctx[r].user \in Users /\ ctx[r].other \in Users
  BY DEF CommitBlock, CommitUnblock, Inv, Control, ControlOf, Context
<1>2. PICK status \in {"ok", "error"} :
        /\ Answer(r, status, None) /\ blocks' \in SUBSET (Users \X Users)
        /\ UNCHANGED <<conversation, member, invite, inviteLock, ctx>>
  BY <1>1 DEF CommitBlock, CommitUnblock, TypeOK
<1>3. QED
  BY <1>1, <1>2, PlainFinish

LEMMA StepInv == Inv /\ [Next]_vars => Inv'
<1> SUFFICES ASSUME Inv, [Next]_vars PROVE Inv'
  OBVIOUS
<1>1. ASSUME NEW r \in Requests, \E u \in Users : Arrive(r, u) PROVE Inv'
  BY <1>1, ArriveInv
<1>2. ASSUME NEW r \in Requests, Denied(r) \/ BlockUnneeded(r) PROVE Inv'
  <2>1. pc[r] = "idle" /\ ctx[r] = None
    BY <1>2 DEF Denied, BlockUnneeded, Inv, Control, ControlOf
  <2>2. PICK status \in {"ok", "refused"} : Answer(r, status, None)
    BY <1>2 DEF Denied, BlockUnneeded
  <2>3. UNCHANGED <<tables, ctx>>
    BY <1>2 DEF Denied, BlockUnneeded
  <2>4. QED
    BY <2>1, <2>2, <2>3, PlainFinish DEF tables, Inv, TypeOK
<1>3. ASSUME NEW r \in Requests, Proceed(r) PROVE Inv'
  BY <1>3, DirectInv, GroupInv, InviteInv, RedeemInv, AddInv, RoleInv, BlockInv DEF Proceed
<1>4. ASSUME NEW r \in Requests, Fail(r) PROVE Inv'
  BY <1>4, PlainFinish DEF Fail, Inv, TypeOK
<1>5. CASE UNCHANGED vars
  <2>1. TypeOK'
    BY <1>5 DEF vars, Inv, TypeOK
  <2>2. Control'
    BY <1>5 DEF vars, Inv, Control, ControlOf, Shared, Stored, Answered, PairOf, OwnerOf
  <2>3. Tables'
    BY <1>5 DEF vars, Inv, Tables, RowsOf, PairsUnique, InvitesShared, Shared, Stored, OwnerOf
  <2>4. QED
    BY <2>1, <2>2, <2>3 DEF Inv
<1>6. QED
  BY <1>1, <1>2, <1>3, <1>4, <1>5 DEF Next, Finished

-----------------------------------------------------------------------------
(* Requests and rows always agree (all of Conversations).                  *)
THEOREM RequestsAndRowsAgree == Spec => []Inv
<1>1. QED
  BY InitInv, StepInv, PTL DEF Spec

(* The tables and the requests have their types (the columns and           *)
(* constraints of 0001_init.sql).                                          *)
THEOREM TypeCorrect == Spec => []TypeOK
<1>1. Inv => TypeOK
  BY DEF Inv
<1>2. QED
  BY <1>1, RequestsAndRowsAgree, PTL

(* Two people have one direct chat, whoever opens it and however often     *)
(* (get_or_create_direct and the unique pair of direct_conversation_keys). *)
THEOREM OneDirectChat == Spec => []DirectChatsConverge
<1>1. Inv => DirectChatsConverge
  <2> SUFFICES ASSUME Inv PROVE DirectChatsConverge
    OBVIOUS
  <2>1. ASSUME NEW r \in Requests, NEW s \in Requests, Answered(r, "direct"),
               Answered(s, "direct"), PairOf(r) = PairOf(s)
        PROVE  reply[r].conv = reply[s].conv
    <3>1. /\ reply[r].conv \in Names /\ Stored(reply[r].conv)
          /\ conversation[reply[r].conv].pair = PairOf(r)
          /\ reply[s].conv \in Names /\ Stored(reply[s].conv)
          /\ conversation[reply[s].conv].pair = PairOf(s)
      BY <2>1 DEF Inv, Control, ControlOf
    <3>2. PairOf(r) # {}
      BY DEF PairOf
    <3>3. QED
      BY <2>1, <3>1, <3>2 DEF Inv, Tables, PairsUnique
  <2>2. ASSUME NEW c \in Names, Stored(c), conversation[c].kind = "DIRECT"
        PROVE  MembersOf(c) = conversation[c].pair
    <3>1. \A u \in Users :
            member[c][u] = IF u \in conversation[c].pair THEN "MEMBER" ELSE None
      BY <2>2 DEF Inv, Tables, RowsOf
    <3>2. conversation[c].pair \subseteq Users
      <4>1. conversation[c].pair \in Pairs \cup {{}}
        BY <2>2 DEF Inv, TypeOK, Row, Stored
      <4>2. QED
        BY <4>1 DEF Pairs
    <3>3. None # "MEMBER"
      BY Distinct DEF Roles
    <3>4. QED
      BY <3>1, <3>2, <3>3 DEF MembersOf
  <2>3. QED
    BY <2>1, <2>2 DEF DirectChatsConverge
<1>2. QED
  BY <1>1, RequestsAndRowsAgree, PTL

(* A group or channel never loses its owner and never gains a second       *)
(* (the rank tests of change_role, and add_member's refusal of OWNER).     *)
THEOREM OwnerIsUnique == Spec => []OneOwner
<1>1. Inv => OneOwner
  <2> SUFFICES ASSUME Inv, NEW c \in Names, Shared(c)
               PROVE  {u \in Users : member[c][u] = "OWNER"} = {OwnerOf(c)}
    BY DEF OneOwner, Shared
  <2>1. OwnerOf(c) \in Users
    <3>1. c \in Requests => ctx[c].user \in Users
      BY DEF Inv, Tables, RowsOf, Shared, Context
    <3>2. QED
      BY <3>1, ConversationsAssumption DEF OwnerOf, Names
  <2>2. QED
    BY <2>1 DEF Inv, Tables, RowsOf
<1>2. QED
  BY <1>1, RequestsAndRowsAgree, PTL

(* A role that somebody holds is changed by the owner's change_role, and   *)
(* by nothing else (redeem_invite, add_member and their primary key).      *)
THEOREM OnlyTheOwnerChangesRoles == Spec => RolesAreTheOwners
<1> DEFINE RoleStep ==
      \A c \in Names, u \in Users :
        member[c][u] \in Roles /\ member'[c][u] # member[c][u] =>
          /\ member'[c][u] # None
          /\ \E r \in Requests :
               /\ Answered(r, "role")' /\ ~Answered(r, "role")
               /\ ctx[r].user = OwnerOf(c) /\ ctx[r].other = u
<1>1. ASSUME Inv, [Next]_vars PROVE RoleStep
  <2> SUFFICES ASSUME NEW c \in Names, NEW u \in Users,
                      member[c][u] \in Roles, member'[c][u] # member[c][u]
               PROVE  /\ member'[c][u] # None
                      /\ \E r \in Requests :
                           /\ Answered(r, "role")' /\ ~Answered(r, "role")
                           /\ ctx[r].user = OwnerOf(c) /\ ctx[r].other = u
    OBVIOUS
  <2>1. Inv /\ TypeOK /\ member[c][u] # None
    BY <1>1, Distinct DEF Inv
  <2>2. PICK r \in Requests :
          CommitDirect(r) \/ CommitGroup(r) \/ Join(r) \/ CommitMember(r) \/ CommitRole(r)
    <3>1. CASE UNCHANGED vars
      BY <3>1 DEF vars
    <3>2. ASSUME NEW r \in Requests, \E v \in Users : Arrive(r, v) PROVE FALSE
      <4>1. PICK v \in Users : Arrive(r, v)
        BY <3>2
      <4>2. member' = member
        BY <4>1 DEF Arrive, OpenDirect, BlockUser, UnblockUser, CreateGroup, PresentInvite,
           CreateInvite, AddMember, ChangeRole, Begin, tables
      <4>3. QED
        BY <4>2
    <3>3. QED
      BY <1>1, <3>1, <3>2 DEF Next, Finished, Denied, BlockUnneeded, Fail, Proceed, CheckBlocks,
         LookUpDirect, DirectDuplicate, TakeWinner, ConsiderInvitee, CommitInvite,
         ReadMembership, JoinConflict, CountMembers, FindMember, MemberConflict, FindTarget,
         CommitBlock, CommitUnblock, tables
  <2>3. CASE CommitDirect(r) \/ CommitGroup(r)
    <3>1. c # r => member'[c][u] = member[c][u]
      BY <2>1, <2>3 DEF CommitDirect, CommitGroup, TypeOK
    <3>2. ~Stored(r) /\ r \in Names
      BY <2>1, <2>3 DEF CommitDirect, CommitGroup, Inv, Tables, RowsOf, Names
    <3>3. member[r][u] = None
      BY <2>1, <3>2 DEF Inv, Tables, RowsOf
    <3>4. QED
      BY <2>1, <3>1, <3>3
  <2>4. CASE Join(r)
    <3>1. /\ ctx[r] \in Context /\ ctx[r].name \in Names /\ ctx[r].user \in Users
          /\ invite[ctx[r].name] # None
      BY <2>1, <2>4 DEF Join, Inv, Control, ControlOf, Context
    <3>2. invite[ctx[r].name].conv \in Names
      BY <2>1, <3>1 DEF TypeOK, Invite
    <3>3. CASE ctx[r].seen = None
      <4>1. /\ member[invite[ctx[r].name].conv][ctx[r].user] = None
            /\ member' = [member EXCEPT ![invite[ctx[r].name].conv][ctx[r].user] =
                            RoleOfNewcomer(conversation[invite[ctx[r].name].conv].kind)]
        BY <2>4, <3>3 DEF Join
      <4>2. QED
        BY <2>1, <3>1, <3>2, <4>1 DEF TypeOK
    <3>4. CASE ctx[r].seen # None
      BY <2>4, <3>4 DEF Join
    <3>5. QED
      BY <3>3, <3>4
  <2>5. CASE CommitMember(r)
    <3>1. ctx[r] \in Context /\ ctx[r].name \in Names /\ ctx[r].other \in Users
      BY <2>1, <2>5 DEF CommitMember, Inv, Control, ControlOf, Context
    <3>2. CASE ctx[r].seen = None
      <4>1. /\ member[ctx[r].name][ctx[r].other] = None
            /\ member' = [member EXCEPT ![ctx[r].name][ctx[r].other] = ctx[r].role]
        BY <2>5, <3>2 DEF CommitMember
      <4>2. QED
        BY <2>1, <3>1, <4>1 DEF TypeOK
    <3>3. CASE ctx[r].seen # None
      BY <2>5, <3>3 DEF CommitMember
    <3>4. QED
      BY <3>2, <3>3
  <2>6. CASE CommitRole(r)
    <3>1. /\ ctx[r] \in Context /\ ctx[r].op = "role" /\ reply[r] = None
          /\ ctx[r].user = OwnerOf(ctx[r].name) /\ ctx[r].role \in Roles
          /\ ctx[r].name \in Names /\ ctx[r].other \in Users
      BY <2>1, <2>6 DEF CommitRole, Inv, Control, ControlOf, Context
    <3>2. /\ Answer(r, "ok", ctx[r].name) /\ ctx' = ctx
          /\ member' = [member EXCEPT ![ctx[r].name][ctx[r].other] =
                          IF ctx[r].role = ctx[r].seen THEN @ ELSE ctx[r].role]
      BY <2>6 DEF CommitRole
    <3>3. c = ctx[r].name /\ u = ctx[r].other /\ member'[c][u] = ctx[r].role
      BY <2>1, <3>1, <3>2 DEF TypeOK
    <3>4. reply'[r] \in Reply /\ reply'[r].status = "ok"
      BY <2>1, <3>1, <3>2, AnswerStep
    <3>5. Answered(r, "role")' /\ ~Answered(r, "role")
      BY <3>1, <3>2, <3>4, Distinct DEF Answered
    <3>6. QED
      BY <3>1, <3>3, <3>5, Distinct
  <2>7. QED
    BY <2>2, <2>3, <2>4, <2>5, <2>6
<1>2. Inv /\ [Next]_vars => [RoleStep]_vars
  BY <1>1
<1>3. Spec => [][RoleStep]_vars
  BY <1>2, RequestsAndRowsAgree, PTL DEF Spec
<1>4. QED
  BY <1>3 DEF RolesAreTheOwners

-----------------------------------------------------------------------------
(* The uses of an invite: its row is locked by the request that redeems    *)
(* it, and counts the requests that did.                                   *)

Redeems(r, i) == pc[r] \in {"membership", "join"} /\ ctx[r].name = i

Redeemers(i) == {r \in Requests : Answered(r, "redeem") /\ ctx[r].name = i}

InviteLocks == \A i \in Names, r \in Requests : inviteLock[i] = r <=> Redeems(r, i)

Named ==
  /\ \A r \in Requests : invite[r] # None => pc[r] = "done"
  /\ \A i \in Names : invite[i] = None => Redeemers(i) = {}

CountOf(i) ==
  /\ invite[i].uses = Cardinality(Redeemers(i))
  /\ invite[i].max # None =>
       /\ invite[i].uses <= invite[i].max
       /\ inviteLock[i] # None => invite[i].uses < invite[i].max

Counted == \A i \in Names : invite[i] # None => CountOf(i)

Redeeming == InviteLocks /\ Named /\ Counted

LEMMA InitRedeeming == Init => Redeeming
<1> SUFFICES ASSUME Init PROVE Redeeming
  OBVIOUS
<1>1. \A i \in Names : Redeemers(i) = {}
  BY DEF Init, Redeemers, Answered
<1>2. InviteLocks
  BY Distinct DEF Init, InviteLocks, Redeems, Names
<1>3. Named
  BY <1>1, ConversationsAssumption DEF Init, Named, Names
<1>4. Counted
  <2> SUFFICES ASSUME NEW i \in Names, invite[i] # None PROVE CountOf(i)
    BY DEF Counted
  <2>1. PICK n \in Limits : invite[i] = [conv |-> Founded, max |-> n, uses |-> 0]
    BY DEF Init
  <2>2. Cardinality(Redeemers(i)) = 0 /\ inviteLock[i] = None
    BY <1>1, FS_EmptySet DEF Init
  <2>3. n # None => 0 <= n
    BY <2>1, ConversationsAssumption DEF Limits
  <2>4. QED
    BY <2>1, <2>2, <2>3 DEF CountOf
<1>5. QED
  BY <1>2, <1>3, <1>4 DEF Redeeming

(* A step of r that redeems nothing changes no count.                      *)
LEMMA SameRedeemers ==
  ASSUME Inv, NEW r \in Requests, pc[r] # "done", Own(r), ~Answered(r, "redeem")',
         NEW i \in Names
  PROVE  Redeemers(i)' = Redeemers(i)
<1>1. ~Answered(r, "redeem")
  BY DEF Inv, Control, ControlOf, Answered
<1>2. \A s \in Requests \ {r} :
        (Answered(s, "redeem")' <=> Answered(s, "redeem")) /\ ctx'[s] = ctx[s]
  BY DEF Own, Answered
<1>3. QED
  BY <1>1, <1>2 DEF Redeemers

(* A step of r that neither takes, holds nor uses an invite's row.         *)
LEMMA Elsewhere ==
  ASSUME Inv, Redeeming, NEW r \in Requests, pc[r] # "done", Own(r),
         ~Answered(r, "redeem")', UNCHANGED <<invite, inviteLock>>,
         pc[r] \notin {"membership", "join"}, pc'[r] \notin {"membership", "join"}
  PROVE  Redeeming'
<1>1. InviteLocks'
  <2> SUFFICES ASSUME NEW i \in Names, NEW s \in Requests
               PROVE  (inviteLock[i] = s <=> Redeems(s, i))'
    BY DEF InviteLocks
  <2>1. Redeems(s, i)' <=> Redeems(s, i)
    BY DEF Redeems, Own
  <2>2. QED
    BY <2>1 DEF Redeeming, InviteLocks
<1>2. Named'
  BY SameRedeemers DEF Redeeming, Named, Own
<1>3. Counted'
  BY SameRedeemers DEF Redeeming, Counted, CountOf
<1>4. QED
  BY <1>1, <1>2, <1>3 DEF Redeeming

(* A step of r that gives up the row unused.                               *)
LEMMA GivesUp ==
  ASSUME Inv, Redeeming, NEW r \in Requests, pc[r] # "done",
         Unlock(r), Answer(r, "error", None), UNCHANGED <<invite, ctx>>
  PROVE  Redeeming'
<1>1. /\ Own(r) /\ pc'[r] = "done" /\ ~Answered(r, "redeem")'
  <2>1. TypeOK
    BY DEF Inv
  <2>2. QED
    BY <2>1, AnswerStep DEF Own, Answered
<1>2. \A i \in Names : inviteLock'[i] = IF inviteLock[i] = r THEN None ELSE inviteLock[i]
  BY DEF Unlock
<1>3. InviteLocks'
  <2> SUFFICES ASSUME NEW i \in Names, NEW s \in Requests
               PROVE  (inviteLock[i] = s <=> Redeems(s, i))'
    BY DEF InviteLocks
  <2>1. s # None
    BY ConversationsAssumption
  <2>2. s # r => (Redeems(s, i)' <=> Redeems(s, i))
    BY <1>1 DEF Redeems, Own
  <2>3. ~Redeems(r, i)'
    BY <1>1 DEF Redeems
  <2>4. QED
    BY <1>2, <2>1, <2>2, <2>3 DEF Redeeming, InviteLocks
<1>4. Named'
  BY <1>1, SameRedeemers DEF Redeeming, Named, Own
<1>5. Counted'
  <2> SUFFICES ASSUME NEW i \in Names, invite[i] # None PROVE CountOf(i)'
    BY DEF Counted
  <2>1. CountOf(i) /\ Redeemers(i)' = Redeemers(i)
    BY <1>1, SameRedeemers DEF Redeeming, Counted
  <2>2. inviteLock'[i] # None => inviteLock[i] # None
    BY <1>2
  <2>3. QED
    BY <2>1, <2>2 DEF CountOf
<1>6. QED
  BY <1>3, <1>4, <1>5 DEF Redeeming

LEMMA PresentRedeeming ==
  ASSUME Inv, Redeeming, NEW r \in Requests, NEW u \in Users, NEW i \in Names,
         PresentInvite(r, u, i)
  PROVE  Redeeming'
<1> DEFINE x == [Blank("redeem", u) EXCEPT !.name = i]
<1>1. x.name = i /\ x.op = "redeem" /\ x \in Context
  BY BlankIsContext DEF Blank, Context
<1>2. /\ ctx' = [ctx EXCEPT ![r] = x] /\ Goto(r, "membership") /\ "membership" \in PC
      /\ TypeOK /\ pc[r] = "idle" /\ reply[r] = None /\ inviteLock[i] = None
      /\ inviteLock' = [inviteLock EXCEPT ![i] = r] /\ UNCHANGED <<invite, reply>>
      /\ UsesLeft(i)
  BY DEF PresentInvite, Inv, Control, ControlOf, PC
<1> HIDE DEF x
<1>3. /\ Own(r) /\ pc'[r] = "membership" /\ ctx'[r] = x /\ ~Answered(r, "redeem")'
  BY <1>1, <1>2, GotoStep, ContextStep DEF Own, Answered
<1>4. /\ inviteLock'[i] = r
      /\ \A j \in Names \ {i} : inviteLock'[j] = inviteLock[j]
  BY <1>2 DEF TypeOK
<1>5. InviteLocks'
  <2> SUFFICES ASSUME NEW j \in Names, NEW s \in Requests
               PROVE  (inviteLock[j] = s <=> Redeems(s, j))'
    BY DEF InviteLocks
  <2>1. s # None /\ ~Redeems(r, j) /\ (Redeems(r, j)' <=> j = i)
    BY <1>1, <1>2, <1>3, ConversationsAssumption DEF Redeems
  <2>2. s # r => (Redeems(s, j)' <=> Redeems(s, j))
    BY <1>3 DEF Redeems, Own
  <2>3. QED
    BY <1>2, <1>4, <2>1, <2>2 DEF Redeeming, InviteLocks
<1>6. Named'
  BY <1>2, <1>3, SameRedeemers DEF Redeeming, Named, Own
<1>7. Counted'
  <2> SUFFICES ASSUME NEW j \in Names, invite[j] # None PROVE CountOf(j)'
    BY <1>2 DEF Counted
  <2>1. CountOf(j) /\ Redeemers(j)' = Redeemers(j) /\ invite' = invite
    BY <1>2, <1>3, SameRedeemers DEF Redeeming, Counted
  <2>2. CASE j = i
    BY <1>2, <2>1, <2>2 DEF CountOf, UsesLeft
  <2>3. CASE j # i
    BY <1>4, <2>1, <2>3 DEF CountOf
  <2>4. QED
    BY <2>2, <2>3
<1>8. QED
  BY <1>5, <1>6, <1>7 DEF Redeeming

LEMMA JoinRedeeming ==
  ASSUME Inv, Redeeming, NEW r \in Requests, Join(r)
  PROVE  Redeeming'
<1> DEFINE i == ctx[r].name
<1>1. /\ TypeOK /\ pc[r] = "join" /\ ctx[r] \in Context /\ ctx[r].op = "redeem"
      /\ reply[r] = None /\ i \in Names /\ invite[i] # None
  BY DEF Join, Inv, Control, ControlOf, Context
<1>2. invite[i] \in Invite /\ invite[i].conv \in Names
  BY <1>1 DEF TypeOK, Invite
<1>3. /\ invite' = [invite EXCEPT ![i].uses = @ + 1] /\ Answer(r, "ok", invite[i].conv)
      /\ Unlock(r) /\ ctx' = ctx
  BY DEF Join
<1>4. /\ Own(r) /\ pc'[r] = "done" /\ Answered(r, "redeem")' /\ ~Answered(r, "redeem")
  <2>1. /\ pc'[r] = "done" /\ reply'[r] \in Reply /\ reply'[r].status = "ok"
        /\ \A s \in Requests \ {r} : pc'[s] = pc[s] /\ reply'[s] = reply[s]
    BY <1>1, <1>2, <1>3, AnswerStep
  <2>2. QED
    BY <1>1, <1>3, <2>1, Distinct DEF Own, Answered
<1>5. \A j \in Names : inviteLock'[j] = IF inviteLock[j] = r THEN None ELSE inviteLock[j]
  BY <1>3 DEF Unlock
<1>6. /\ invite'[i].uses = invite[i].uses + 1 /\ invite'[i].max = invite[i].max
      /\ \A j \in Names \ {i} : invite'[j] = invite[j]
      /\ invite'[i] # None
  <2> DEFINE y == [invite[i] EXCEPT !.uses = @ + 1]
  <2>1. y \in Invite /\ y.uses = invite[i].uses + 1 /\ y.max = invite[i].max /\ y # None
    BY <1>2, Distinct DEF Invite
  <2>2. invite' = [invite EXCEPT ![i] = y]
    BY <1>2, <1>3
  <2> HIDE DEF y
  <2>3. QED
    BY <1>1, <2>1, <2>2 DEF TypeOK
<1>7. inviteLock[i] = r
  BY <1>1 DEF Redeeming, InviteLocks, Redeems
<1>8. Redeemers(i)' = Redeemers(i) \cup {r} /\ r \notin Redeemers(i)
  BY <1>1, <1>3, <1>4 DEF Redeemers, Own, Answered
<1>9. \A j \in Names \ {i} : Redeemers(j)' = Redeemers(j)
  BY <1>1, <1>3, <1>4 DEF Redeemers, Own, Answered
<1> HIDE DEF i
<1>10. InviteLocks'
  <2> SUFFICES ASSUME NEW j \in Names, NEW s \in Requests
               PROVE  (inviteLock[j] = s <=> Redeems(s, j))'
    BY DEF InviteLocks
  <2>1. s # None
    BY ConversationsAssumption
  <2>2. s # r => (Redeems(s, j)' <=> Redeems(s, j))
    BY <1>4 DEF Redeems, Own
  <2>3. ~Redeems(r, j)'
    BY <1>4 DEF Redeems
  <2>4. QED
    BY <1>5, <2>1, <2>2, <2>3 DEF Redeeming, InviteLocks
<1>11. Named'
  <2>1. \A j \in Names : invite'[j] = None <=> invite[j] = None
    BY <1>1, <1>6
  <2>2. \A s \in Requests : s \in Names /\ (pc[s] = "done" => pc'[s] = "done")
    BY <1>4 DEF Names, Own
  <2>3. \A j \in Names : invite'[j] = None => Redeemers(j)' = {}
    BY <1>1, <1>9, <2>1 DEF Redeeming, Named
  <2>4. QED
    BY <2>1, <2>2, <2>3 DEF Redeeming, Named
<1>12. CountOf(i)'
  <2>1. CountOf(i) /\ IsFiniteSet(Redeemers(i))
    <3>1. IsFiniteSet(Requests) /\ Redeemers(i) \subseteq Requests
      BY ConversationsAssumption DEF Redeemers
    <3>2. QED
      BY <1>1, <3>1, FS_Subset DEF Redeeming, Counted
  <2>2. Cardinality(Redeemers(i)') = Cardinality(Redeemers(i)) + 1
    BY <1>8, <2>1, FS_AddElement
  <2>3. invite[i].uses \in Nat /\ (invite[i].max # None => invite[i].max \in Nat)
    BY <1>2 DEF Invite
  <2>4. i' = i /\ inviteLock'[i] = None /\ r # None
    BY <1>1, <1>3, <1>5, <1>7, ConversationsAssumption DEF i
  <2>5. /\ invite'[i].uses = Cardinality(Redeemers(i)')
        /\ invite'[i].max # None => invite'[i].uses <= invite'[i].max
    BY <1>6, <1>7, <2>1, <2>2, <2>3, <2>4 DEF CountOf
  <2>6. QED
    BY <2>4, <2>5 DEF CountOf
<1>13. ASSUME NEW j \in Names \ {i}, invite'[j] # None PROVE CountOf(j)'
  <2>1. CountOf(j) /\ Redeemers(j)' = Redeemers(j) /\ invite'[j] = invite[j]
    BY <1>6, <1>9, <1>13 DEF Redeeming, Counted
  <2>2. inviteLock'[j] # None => inviteLock[j] # None
    BY <1>5
  <2>3. QED
    BY <2>1, <2>2 DEF CountOf
<1>14. Counted'
  <2> SUFFICES ASSUME NEW j \in Names, invite'[j] # None PROVE CountOf(j)'
    BY DEF Counted
  <2>1. CASE j = i
    <3>1. i' = i
      BY <1>3 DEF i
    <3>2. QED
      BY <1>12, <2>1, <3>1 DEF CountOf, Redeemers
  <2>2. CASE j # i
    BY <1>13, <2>2
  <2>3. QED
    BY <2>1, <2>2
<1>15. QED
  BY <1>10, <1>11, <1>14 DEF Redeeming

LEMMA MintRedeeming ==
  ASSUME Inv, Redeeming, NEW r \in Requests, CommitInvite(r)
  PROVE  Redeeming'
<1> DEFINE x == [conv |-> ctx[r].name, max |-> ctx[r].max, uses |-> 0]
<1>1. /\ TypeOK /\ pc[r] = "invite" /\ ctx[r] \in Context /\ ctx[r].op = "invite"
      /\ r \in Names /\ invite[r] = None /\ ctx[r].name \in Names
  BY DEF CommitInvite, Inv, Control, ControlOf, Context, Names, Redeeming, Named
<1>2. /\ x # None /\ x.uses = 0 /\ x.max = ctx[r].max /\ x.max \in Nat \cup {None}
  <2>1. x \in Invite
    BY <1>1 DEF Invite, Context
  <2>2. QED
    BY <1>1, <2>1, Distinct DEF Context
<1>3. /\ invite' = [invite EXCEPT ![r] = x] /\ Answer(r, "ok", ctx[r].name)
      /\ UNCHANGED <<inviteLock, ctx>>
  BY DEF CommitInvite
<1> HIDE DEF x
<1>4. Own(r) /\ pc'[r] = "done" /\ ~Answered(r, "redeem")'
  BY <1>1, <1>3, AnswerStep DEF Own, Answered
<1>5. invite'[r] = x /\ \A i \in Names \ {r} : invite'[i] = invite[i]
  BY <1>1, <1>3 DEF TypeOK
<1>6. InviteLocks'
  <2> SUFFICES ASSUME NEW i \in Names, NEW s \in Requests
               PROVE  (inviteLock[i] = s <=> Redeems(s, i))'
    BY DEF InviteLocks
  <2>1. Redeems(s, i)' <=> Redeems(s, i)
    BY <1>1, <1>3, <1>4 DEF Redeems, Own
  <2>2. QED
    BY <1>3, <2>1 DEF Redeeming, InviteLocks
<1>7. Named'
  <2>1. \A s \in Requests : s \in Names /\ (pc[s] = "done" => pc'[s] = "done")
    BY <1>4 DEF Names, Own
  <2>2. \A i \in Names : invite'[i] = None => invite[i] = None
    BY <1>1, <1>5
  <2>3. \A i \in Names : invite'[i] = None => Redeemers(i)' = {}
    BY <1>1, <1>4, <2>2, SameRedeemers DEF Redeeming, Named
  <2>4. \A s \in Requests : invite'[s] # None => pc'[s] = "done"
    BY <1>4, <1>5, <2>1 DEF Redeeming, Named
  <2>5. QED
    BY <2>3, <2>4 DEF Named
<1>8. inviteLock[r] = None
  <2>1. \A s \in Requests : ~Redeems(s, r)
    BY <1>1 DEF Redeems, Inv, Control, ControlOf
  <2>2. inviteLock[r] \in Requests \cup {None}
    BY <1>1 DEF TypeOK
  <2>3. QED
    BY <1>1, <2>1, <2>2 DEF Redeeming, InviteLocks
<1>9. Counted'
  <2> SUFFICES ASSUME NEW i \in Names, invite'[i] # None PROVE CountOf(i)'
    BY DEF Counted
  <2>1. Redeemers(i)' = Redeemers(i)
    BY <1>1, <1>4, SameRedeemers
  <2>2. CASE i = r
    <3>1. Redeemers(r)' = {} /\ Cardinality({}) = 0
      BY <1>1, <2>1, <2>2, FS_EmptySet DEF Redeeming, Named
    <3>2. QED
      BY <1>2, <1>3, <1>5, <1>8, <2>2, <3>1 DEF CountOf
  <2>3. CASE i # r
    BY <1>3, <1>5, <2>1, <2>3 DEF Redeeming, Counted, CountOf
  <2>4. QED
    BY <2>2, <2>3
<1>10. QED
  BY <1>6, <1>7, <1>9 DEF Redeeming

(* Who acts, and that the step is neither of those above.                  *)
LEMMA OtherSteps ==
  ASSUME Inv, Redeeming, NEW r \in Requests,
         \/ \E u \in Users :
              \/ \E v \in Users : OpenDirect(r, u, v) \/ BlockUser(r, u, v) \/ UnblockUser(r, u, v)
              \/ \E kind \in Kinds, others \in SUBSET (Users \ {u}) : CreateGroup(r, u, kind, others)
              \/ \E c \in Names, n \in Limits : CreateInvite(r, u, c, n)
              \/ \E c \in Names, v \in Users, role \in Offered :
                    AddMember(r, u, c, v, role) \/ ChangeRole(r, u, c, v, role)
         \/ Denied(r) \/ BlockUnneeded(r)
         \/ CheckBlocks(r) \/ LookUpDirect(r) \/ CommitDirect(r) \/ DirectDuplicate(r)
         \/ TakeWinner(r) \/ (\E v \in Users : ConsiderInvitee(r, v)) \/ CommitGroup(r)
         \/ CountMembers(r) \/ FindMember(r) \/ CommitMember(r) \/ MemberConflict(r)
         \/ FindTarget(r) \/ CommitRole(r) \/ CommitBlock(r) \/ CommitUnblock(r)
  PROVE  Redeeming'
<1>1. TypeOK /\ ControlOf(r)
  BY DEF Inv, Control
<1>2. ASSUME NEW label \in {"blocks", "block", "unblock", "seed", "invite", "count", "target"},
             NEW x, Begin(r, label, x)
      PROVE  Redeeming'
  <2>1. /\ pc[r] = "idle" /\ Own(r) /\ pc'[r] = label /\ reply'[r] = None
        /\ UNCHANGED <<invite, inviteLock>>
    BY <1>1, <1>2 DEF Begin, Goto, Own, TypeOK, ControlOf, tables
  <2>2. QED
    BY <2>1, Elsewhere DEF Answered
<1>3. ASSUME pc[r] \notin {"done", "membership", "join"}, UNCHANGED <<invite, inviteLock>>,
             NEW status, NEW c, Answer(r, status, c),
             UNCHANGED ctx \/ \E y : ctx' = [ctx EXCEPT ![r] = y],
             status # "ok" \/ ctx'[r] = None \/ ctx'[r].op # "redeem"
      PROVE  Redeeming'
  <2>1. pc'[r] = "done" /\ reply'[r].status = status /\ Own(r)
    BY <1>1, <1>3 DEF Answer, Goto, TypeOK, Own
  <2>2. ~Answered(r, "redeem")'
    BY <1>3, <2>1 DEF Answered
  <2>3. QED
    BY <1>3, <2>1, <2>2, Elsewhere
<1>4. ASSUME pc[r] \notin {"done", "membership", "join"},
             UNCHANGED <<invite, inviteLock, reply>>,
             NEW label, label \notin {"membership", "join"}, Goto(r, label),
             UNCHANGED ctx \/ \E y : ctx' = [ctx EXCEPT ![r] = y]
      PROVE  Redeeming'
  <2>1. Own(r) /\ pc'[r] = label /\ reply'[r] = None
    BY <1>1, <1>4 DEF Goto, TypeOK, Own, ControlOf
  <2>2. QED
    BY <1>4, <2>1, Elsewhere DEF Answered
<1>5. CASE Denied(r) \/ BlockUnneeded(r)
  <2>1. pc[r] = "idle" /\ ctx[r] = None /\ UNCHANGED <<tables, ctx>>
    BY <1>1, <1>5 DEF Denied, BlockUnneeded, ControlOf
  <2>2. QED
    BY <1>3, <1>5, <2>1 DEF Denied, BlockUnneeded, tables
<1>6. CASE CheckBlocks(r) \/ LookUpDirect(r) \/ CommitDirect(r) \/ DirectDuplicate(r)
             \/ TakeWinner(r)
  <2>1. /\ pc[r] \in {"blocks", "lookup", "create", "relookup"} /\ ctx[r].op = "direct"
        /\ UNCHANGED <<invite, inviteLock, ctx>>
    BY <1>1, <1>6 DEF CheckBlocks, LookUpDirect, CommitDirect, DirectDuplicate, TakeWinner,
       ControlOf, tables
  <2>2. \/ \E status, c : Answer(r, status, c)
        \/ \E label \in {"lookup", "create", "relookup"} : Goto(r, label) /\ UNCHANGED reply
    BY <1>6 DEF CheckBlocks, LookUpDirect, CommitDirect, DirectDuplicate, TakeWinner
  <2>3. QED
    BY <1>3, <1>4, <2>1, <2>2
<1>7. CASE \E v \in Users : ConsiderInvitee(r, v)
  <2>1. PICK v \in Users : ConsiderInvitee(r, v)
    BY <1>7
  <2>2. /\ pc[r] = "seed" /\ UNCHANGED <<invite, inviteLock, reply, pc>>
        /\ \A s \in Requests \ {r} : ctx'[s] = ctx[s]
    BY <1>1, <2>1 DEF ConsiderInvitee, tables, TypeOK
  <2>3. Own(r) /\ reply'[r] = None
    BY <1>1, <2>2 DEF Own, ControlOf
  <2>4. QED
    BY <2>2, <2>3, Elsewhere DEF Answered
<1>8. CASE CommitGroup(r)
  <2>1. pc[r] = "seed" /\ ctx[r].op = "group" /\ UNCHANGED <<invite, inviteLock, ctx>>
    BY <1>1, <1>8 DEF CommitGroup, ControlOf
  <2>2. QED
    BY <1>3, <1>8, <2>1 DEF CommitGroup
<1>9. CASE CountMembers(r) \/ CommitMember(r) \/ MemberConflict(r)
  <2>1. /\ pc[r] \in {"count", "add"} /\ ctx[r].op = "add"
        /\ UNCHANGED <<invite, inviteLock, ctx>>
    BY <1>1, <1>9 DEF CountMembers, CommitMember, MemberConflict, ControlOf, tables
  <2>2. \/ \E status, c : Answer(r, status, c)
        \/ Goto(r, "existing") /\ UNCHANGED reply
    BY <1>9 DEF CountMembers, CommitMember, MemberConflict
  <2>3. QED
    BY <1>3, <1>4, <2>1, <2>2
<1>10. CASE FindMember(r)
  <2>1. pc[r] = "existing" /\ Goto(r, "add") /\ UNCHANGED <<invite, inviteLock, reply>>
    BY <1>10 DEF FindMember, tables
  <2>2. \E y : ctx' = [ctx EXCEPT ![r] = y]
    BY <1>10 DEF FindMember
  <2>3. QED
    BY <1>4, <2>1, <2>2
<1>11. CASE FindTarget(r)
  <2>1. /\ pc[r] = "target" /\ UNCHANGED <<invite, inviteLock>>
        /\ \/ Answer(r, "refused", None)
           \/ Goto(r, "rerole") /\ UNCHANGED reply
    BY <1>11 DEF FindTarget, tables
  <2>2. \E y : ctx' = [ctx EXCEPT ![r] = y]
    BY <1>11 DEF FindTarget
  <2>3. QED
    BY <1>3, <1>4, <2>1, <2>2
<1>12. CASE CommitRole(r)
  <2>1. pc[r] = "rerole" /\ ctx[r].op = "role" /\ UNCHANGED <<invite, inviteLock, ctx>>
    BY <1>1, <1>12 DEF CommitRole, ControlOf
  <2>2. QED
    BY <1>3, <1>12, <2>1 DEF CommitRole
<1>13. CASE CommitBlock(r) \/ CommitUnblock(r)
  <2>1. /\ pc[r] \in {"block", "unblock"} /\ ctx[r].op \in {"block", "unblock"}
        /\ UNCHANGED <<invite, inviteLock, ctx>>
    BY <1>1, <1>13 DEF CommitBlock, CommitUnblock, ControlOf
  <2>2. \E status, c : Answer(r, status, c)
    BY <1>13 DEF CommitBlock, CommitUnblock
  <2>3. QED
    BY <1>3, <2>1, <2>2
<1>14. CASE \E u \in Users :
              \/ \E v \in Users : OpenDirect(r, u, v) \/ BlockUser(r, u, v) \/ UnblockUser(r, u, v)
              \/ \E kind \in Kinds, others \in SUBSET (Users \ {u}) : CreateGroup(r, u, kind, others)
              \/ \E c \in Names, n \in Limits : CreateInvite(r, u, c, n)
              \/ \E c \in Names, v \in Users, role \in Offered :
                    AddMember(r, u, c, v, role) \/ ChangeRole(r, u, c, v, role)
  BY <1>2, <1>14 DEF OpenDirect, BlockUser, UnblockUser, CreateGroup, CreateInvite, AddMember,
     ChangeRole
<1>15. QED
  BY <1>5, <1>6, <1>7, <1>8, <1>9, <1>10, <1>11, <1>12, <1>13, <1>14

LEMMA StepRedeeming == Inv /\ Redeeming /\ [Next]_vars => Redeeming'
<1> SUFFICES ASSUME Inv, Redeeming, [Next]_vars PROVE Redeeming'
  OBVIOUS
<1>1. ASSUME NEW r \in Requests, ReadMembership(r) PROVE Redeeming'
  <2>1. /\ TypeOK /\ pc[r] = "membership" /\ reply[r] = None /\ ctx[r] \in Context
        /\ Goto(r, "join") /\ "join" \in PC /\ UNCHANGED <<invite, inviteLock, reply>>
    BY <1>1 DEF ReadMembership, Inv, Control, ControlOf, PC, tables
  <2>2. /\ pc'[r] = "join" /\ \A s \in Requests \ {r} : pc'[s] = pc[s] /\ ctx'[s] = ctx[s]
        /\ ctx'[r].name = ctx[r].name
    <3>1. PICK y : ctx' = [ctx EXCEPT ![r].seen = y]
      BY <1>1 DEF ReadMembership
    <3>2. [ctx[r] EXCEPT !.seen = y].name = ctx[r].name
      BY <2>1 DEF Context
    <3>3. QED
      BY <2>1, <3>1, <3>2, GotoStep DEF TypeOK
  <2>3. Own(r) /\ ~Answered(r, "redeem")'
    BY <2>1, <2>2 DEF Own, Answered
  <2>4. \A i \in Names, s \in Requests : Redeems(s, i)' <=> Redeems(s, i)
    BY <2>1, <2>2 DEF Redeems
  <2>5. InviteLocks'
    BY <2>1, <2>4 DEF Redeeming, InviteLocks
  <2>6. \A i \in Names : Redeemers(i)' = Redeemers(i)
    BY <2>1, <2>3, SameRedeemers
  <2>7. Named' /\ Counted'
    BY <2>1, <2>2, <2>6 DEF Redeeming, Named, Counted, CountOf
  <2>8. QED
    BY <2>5, <2>7 DEF Redeeming
<1>2. ASSUME NEW r \in Requests, JoinConflict(r) PROVE Redeeming'
  BY <1>2, GivesUp DEF JoinConflict
<1>3. ASSUME NEW r \in Requests, Fail(r) PROVE Redeeming'
  BY <1>3, GivesUp DEF Fail
<1>4. CASE UNCHANGED vars
  BY <1>4 DEF vars, Redeeming, InviteLocks, Named, Counted, CountOf, Redeems, Redeemers, Answered
<1>5. QED
  BY <1>1, <1>2, <1>3, <1>4, PresentRedeeming, JoinRedeeming, MintRedeeming, OtherSteps
     DEF Next, Finished, Arrive, Proceed

(* An invite's count is the number of redemptions it admitted, and within  *)
(* its maximum (redeem_invite's FOR UPDATE and its test of use_count).     *)
THEOREM InvitesCountExactly == Spec => []InviteUsesExact
<1>1. Redeeming => InviteUsesExact
  <2> SUFFICES ASSUME Redeeming, NEW i \in Names, invite[i] # None
               PROVE  /\ invite[i].uses = Cardinality(Redeemers(i))
                      /\ invite[i].max # None => invite[i].uses <= invite[i].max
    BY DEF InviteUsesExact, Redeemers
  <2>1. QED
    BY DEF Redeeming, Counted, CountOf
<1>2. Spec => []Redeeming
  BY InitRedeeming, StepRedeeming, RequestsAndRowsAgree, PTL DEF Spec
<1>3. QED
  BY <1>1, <1>2, PTL
=============================================================================
