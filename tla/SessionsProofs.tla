--------------------------- MODULE SessionsProofs ---------------------------
(***************************************************************************)
(* The safety of Sessions, proved for any sessions, families and requests. *)
(* A rotation holds the row it spends from its SELECT to its commit, and a *)
(* revocation the rows it has updated, so that what it read of them is     *)
(* still true when it commits (ControlOf); rows refer to spent rows, live  *)
(* ones are alone in their family, revoked ones are in Redis (Tables).     *)
(***************************************************************************)
EXTENDS Sessions, FiniteSetTheorems, TLAPS

(* A revocation that has not committed.                                    *)
Updating(r) ==
  \/ pc[r] \in {"update", "visit", "mark", "commit"}
  \/ pc[r] = "announce" /\ ctx[r].op # "all"

(* What each step may rely on of its own request.                          *)
ControlOf(r) ==
  /\ pc[r] # "idle" => ctx[r] \in Context
  /\ pc[r] \notin {"idle", "done"} => Exists(ctx[r].subject)
  /\ pc[r] = "select" => ctx[r].op = "rotate" /\ ctx[r].rounds > 0
  /\ pc[r] \in {"select", "device"} => ctx[r].revoking = {} /\ ctx[r].fresh = {}
  /\ pc[r] = "rotate" \/ (pc[r] = "device" /\ ctx[r].op = "rotate") =>
       lock[ctx[r].subject] = r /\ Live(ctx[r].subject)
  /\ pc[r] = "spent" => ctx[r].want \in Sessions /\ Exists(ctx[r].want)
  /\ pc[r] = "visit" =>
       ctx[r].want \in ctx[r].target /\ \A s \in ctx[r].target : Exists(s)
  /\ Updating(r) =>
       /\ pc[r] # "commit" => ctx[r].rounds > 0
       /\ pc[r] \in {"announce", "commit"} => ctx[r].fresh = {}
       /\ \A s \in ctx[r].revoking :
            /\ lock[s] = r /\ Exists(s) /\ ~session[s].revoked
            /\ s \in marked \/ s \in ctx[r].fresh

Control == \A r \in Requests : ControlOf(r)

(* A successor has a predecessor, which is spent.                          *)
PreviousIsSpent ==
  \A s \in Sessions :
    Exists(s) /\ session[s].previous # None =>
      Exists(session[s].previous) /\ session[session[s].previous].rotated

Tables ==
  /\ \A s \in known : Exists(s)
  /\ IsFiniteSet({s \in Sessions : Exists(s)})
  /\ PreviousIsSpent /\ SingleUse /\ OneLiveToken /\ RevokedIsMarked

Inv == TypeOK /\ Control /\ Tables

-----------------------------------------------------------------------------
(* The parts every step is made of                                         *)

(* NULL is no key and no row.                                              *)
LEMMA Distinct ==
  None \notin Sessions /\ None \notin Families /\ None \notin Requests /\ None \notin Row
BY NullAssumption DEF NullAssumption, Row

(* A request that moves on moves alone.                                    *)
LEMMA GotoStep ==
  ASSUME TypeOK, NEW r \in Requests, NEW label \in PC, Goto(r, label)
  PROVE  /\ pc' \in [Requests -> PC]
         /\ pc'[r] = label
         /\ \A q \in Requests \ {r} : pc'[q] = pc[q]
BY DEF TypeOK, Goto

(* An answered request is done.                                            *)
LEMMA AnswerStep ==
  ASSUME TypeOK, NEW r \in Requests, NEW what \in Reply, Answer(r, what)
  PROVE  /\ pc' \in [Requests -> PC] /\ reply' \in [Requests -> Reply \cup {None}]
         /\ pc'[r] = "done"
         /\ \A q \in Requests \ {r} : pc'[q] = pc[q]
<1>1. "done" \in PC
  BY DEF PC
<1> QED BY <1>1, GotoStep DEF TypeOK, Answer

(* A row lock is taken from nobody.                                        *)
LEMMA AcquireStep ==
  ASSUME TypeOK, NEW r \in Requests, NEW x \in Lockable, Acquire(r, x)
  PROVE  /\ lock' \in [Lockable -> Requests \cup {None}]
         /\ lock'[x] = r
         /\ \A y \in Lockable : lock[y] \in Requests => lock'[y] = lock[y]
BY Distinct DEF TypeOK, Acquire

(* The end of a transaction frees its own rows only.                       *)
LEMMA UnlockStep ==
  ASSUME TypeOK, NEW r \in Requests, Unlock(r)
  PROVE  /\ lock' \in [Lockable -> Requests \cup {None}]
         /\ \A y \in Lockable : lock[y] \in Requests \ {r} => lock'[y] = lock[y]
BY Distinct DEF TypeOK, Unlock

(* A request starts with nothing revoked and one round to go.              *)
LEMMA StartStep ==
  ASSUME TypeOK, NEW r \in Requests, NEW op \in {"rotate", "logout", "device", "all"},
         NEW s \in Sessions, NEW F \in SUBSET Families, Start(r, op, s, F)
  PROVE  /\ ctx' \in [Requests -> Context \cup {None}]
         /\ ctx'[r] \in Context
         /\ ctx'[r].op = op /\ ctx'[r].subject = s /\ ctx'[r].rounds = 1
         /\ ctx'[r].revoking = {} /\ ctx'[r].fresh = {}
         /\ \A q \in Requests \ {r} : ctx'[q] = ctx[q]
BY DEF TypeOK, Start, Context

(* The UPDATE goes on to one of the rows that are left, or is done.        *)
LEMMA AdvanceStep ==
  ASSUME TypeOK, NEW r \in Requests, NEW rest \in SUBSET Sessions, NEW c \in Context,
         Advance(r, rest, c)
  PROVE  /\ ctx' \in [Requests -> Context \cup {None}] /\ pc' \in [Requests -> PC]
         /\ ctx'[r] \in Context
         /\ ctx'[r].op = c.op /\ ctx'[r].subject = c.subject /\ ctx'[r].rounds = c.rounds
         /\ ctx'[r].revoking = c.revoking /\ ctx'[r].fresh = c.fresh
         /\ \/ pc'[r] = "mark"
            \/ pc'[r] = "visit" /\ ctx'[r].target = rest /\ ctx'[r].want \in rest
         /\ \A q \in Requests \ {r} : ctx'[q] = ctx[q] /\ pc'[q] = pc[q]
<1>1. CASE rest = {}
  <2>1. PICK new : new = [c EXCEPT !.target = {}, !.want = None]
    OBVIOUS
  <2>2. /\ new \in Context /\ new.op = c.op /\ new.subject = c.subject
        /\ new.rounds = c.rounds /\ new.revoking = c.revoking /\ new.fresh = c.fresh
    BY <2>1 DEF Context
  <2>3. ctx' = [ctx EXCEPT ![r] = new] /\ Goto(r, "mark")
    BY <1>1, <2>1 DEF Advance
  <2>4. "mark" \in PC
    BY DEF PC
  <2> QED BY <2>2, <2>3, <2>4, GotoStep DEF TypeOK
<1>2. CASE rest # {}
  <2>1. PICK w \in rest : ctx' = [ctx EXCEPT ![r] = [c EXCEPT !.target = rest, !.want = w]]
    BY <1>2 DEF Advance
  <2>2. PICK new : new = [c EXCEPT !.target = rest, !.want = w]
    OBVIOUS
  <2>3. /\ new \in Context /\ new.op = c.op /\ new.subject = c.subject
        /\ new.rounds = c.rounds /\ new.revoking = c.revoking /\ new.fresh = c.fresh
        /\ new.target = rest /\ new.want = w
    BY <2>2 DEF Context
  <2>4. "visit" \in PC /\ Goto(r, "visit")
    BY <1>2 DEF PC, Advance
  <2> QED BY <2>1, <2>2, <2>3, <2>4, GotoStep DEF TypeOK
<1> QED BY <1>1, <1>2

(* A row names its family.                                                 *)
LEMMA FamilyOfRow ==
  ASSUME TypeOK, NEW s \in Sessions, Exists(s)
  PROVE  session[s] \in Row /\ session[s].family \in Families
BY DEF TypeOK, Exists, Row

(* The number of rounds that revoke_device goes through.                   *)
LEMMA RoundsAreCounted ==
  ASSUME Inv, NEW F
  PROVE  Cardinality({s \in Of(F) : ~session[s].revoked}) \in Nat
<1>1. {s \in Of(F) : ~session[s].revoked} \subseteq {s \in Sessions : Exists(s)}
  BY DEF Of
<1> QED BY <1>1, FS_Subset, FS_CardinalityType DEF Inv, Tables

-----------------------------------------------------------------------------
(* Rows, locks, requests and answers have their types after every step.    *)
LEMMA TypeStep == Inv /\ [Next]_vars => TypeOK'
<1> SUFFICES ASSUME Inv, [Next]_vars PROVE TypeOK'
  OBVIOUS
<1>0. TypeOK /\ Control /\ Tables
  BY DEF Inv
<1> USE <1>0, Distinct
<1>1. ASSUME NEW f \in Families, NEW s \in Sessions, Login(f, s) PROVE TypeOK'
  BY <1>1 DEF Login, TypeOK, Row
<1>2. ASSUME NEW r \in Requests, NEW s \in Sessions, Present(r, s) PROVE TypeOK'
  <2>1. session[s].family \in Families /\ "select" \in PC
    BY <1>2, FamilyOfRow DEF Present, Tables, PC
  <2> QED BY <1>2, <2>1, StartStep, GotoStep DEF Present, TypeOK
<1>3. ASSUME NEW r \in Requests, NEW op \in {"logout", "device", "all"},
             NEW s \in Sessions, NEW f \in Families, Revoke(r, op, s, f)
      PROVE  TypeOK'
  <2>1. "update" \in PC /\ "device" \in PC
    BY DEF PC
  <2>2. ctx' \in [Requests -> Context \cup {None}]
    BY <1>3, StartStep DEF Revoke
  <2>3. pc' \in [Requests -> PC]
    BY <1>3, <2>1, GotoStep DEF Revoke
  <2> QED BY <1>3, <2>2, <2>3 DEF Revoke, TypeOK
<1>4. ASSUME NEW r \in Requests, Accept(r) \/ DetectReuse(r) \/ Reject(r) PROVE TypeOK'
  <2>1. ctx[r] \in Context /\ ctx[r].subject \in Lockable
    BY <1>4 DEF Accept, DetectReuse, Reject, Control, ControlOf, Context, Lockable
  <2>2. "device" \in PC /\ "update" \in PC /\ "rejected" \in Reply
    BY DEF PC, Reply
  <2>3. CASE Accept(r)
    BY <2>1, <2>2, <2>3, AcquireStep, GotoStep DEF Accept, TypeOK
  <2>4. CASE DetectReuse(r)
    <3>1. ctx' \in [Requests -> Context \cup {None}]
      BY <2>1, <2>4 DEF DetectReuse, TypeOK, Context
    <3> QED BY <2>1, <2>2, <2>4, <3>1, AcquireStep, GotoStep DEF DetectReuse, TypeOK
  <2>5. CASE Reject(r)
    BY <2>2, <2>5, AnswerStep DEF Reject, TypeOK
  <2> QED BY <1>4, <2>3, <2>4, <2>5
<1>5. ASSUME NEW r \in Requests, UpdateDevice(r) PROVE TypeOK'
  <2>1. ctx[r] \in Context /\ ctx[r].families \subseteq Families
    BY <1>5 DEF UpdateDevice, Control, ControlOf, Context
  <2>2. lock' \in [Lockable -> Requests \cup {None}]
    BY <1>5, <2>1, AcquireStep DEF UpdateDevice, Lockable
  <2>3. CASE ctx[r].op = "rotate"
    <3>1. "rotate" \in PC
      BY DEF PC
    <3> QED BY <1>5, <2>2, <2>3, <3>1, GotoStep DEF UpdateDevice, TypeOK
  <2>4. CASE ctx[r].op # "rotate"
    <3>1. PICK n : /\ n = Cardinality({s \in Of(ctx[r].families) : ~session[s].revoked})
                   /\ ctx' = [ctx EXCEPT ![r].rounds = n]
                   /\ Goto(r, IF n = 0 THEN "commit" ELSE "update")
      BY <1>5, <2>4 DEF UpdateDevice
    <3>2. n \in Nat
      BY <3>1, RoundsAreCounted
    <3>3. ctx' \in [Requests -> Context \cup {None}]
      BY <2>1, <3>1, <3>2 DEF TypeOK, Context
    <3>4. pc' \in [Requests -> PC]
      BY <3>1 DEF TypeOK, Goto, PC
    <3> QED BY <1>5, <2>2, <3>3, <3>4 DEF UpdateDevice, TypeOK
  <2> QED BY <2>3, <2>4
<1>6. ASSUME NEW r \in Requests, NEW new \in Sessions, CommitRotation(r, new) PROVE TypeOK'
  <2>1. PICK s : s = ctx[r].subject
    OBVIOUS
  <2>2. ctx[r] \in Context /\ s \in Sessions /\ Exists(s)
    BY <1>6, <2>1 DEF CommitRotation, Control, ControlOf, Context
  <2>3. [family |-> session[s].family, previous |-> s, rotated |-> FALSE, revoked |-> FALSE] \in Row
        /\ [session[s] EXCEPT !.rotated = TRUE] \in Row
    BY <2>2, FamilyOfRow DEF Row
  <2>4. session' \in [Sessions -> Row \cup {None}]
    BY <1>6, <2>1, <2>2, <2>3 DEF CommitRotation, TypeOK
  <2>5. ctx' \in [Requests -> Context \cup {None}]
    BY <1>6, <2>2 DEF CommitRotation, TypeOK, Context
  <2>6. "spent" \in PC
    BY DEF PC
  <2> QED BY <1>6, <2>4, <2>5, <2>6, UnlockStep, GotoStep DEF CommitRotation, TypeOK
<1>7. ASSUME NEW r \in Requests, Issue(r) PROVE TypeOK'
  <2>1. ctx[r].subject \in Sessions /\ ctx[r].want \in Sessions /\ "issued" \in Reply
    BY <1>7 DEF Issue, Control, ControlOf, Context, Reply
  <2> QED BY <1>7, <2>1, AnswerStep DEF Issue, TypeOK
<1>8. ASSUME NEW r \in Requests, BeginUpdate(r) PROVE TypeOK'
  <2>1. ctx[r] \in Context
    BY <1>8 DEF BeginUpdate, Control, ControlOf
  <2> QED BY <1>8, <2>1, AdvanceStep DEF BeginUpdate, TypeOK, Of
<1>9. ASSUME NEW r \in Requests, Visit(r) PROVE TypeOK'
  <2>1. ctx[r] \in Context /\ ctx[r].want \in Lockable /\ ctx[r].want \in Sessions
        /\ ctx[r].target \subseteq Sessions
    BY <1>9 DEF Visit, Control, ControlOf, Context, Lockable
  <2>2. PICK w, c :
          /\ w = ctx[r].want
          /\ c = IF session[w].revoked THEN ctx[r]
                 ELSE [ctx[r] EXCEPT !.revoking = @ \cup {w}, !.fresh = @ \cup {w}]
          /\ Acquire(r, w) /\ Advance(r, ctx[r].target \ {w}, c)
    BY <1>9 DEF Visit
  <2>3. c \in Context
    BY <2>1, <2>2 DEF Context
  <2> QED BY <1>9, <2>1, <2>2, <2>3, AcquireStep, AdvanceStep DEF Visit, TypeOK
<1>10. ASSUME NEW r \in Requests, NEW s \in Sessions, Mark(r, s) PROVE TypeOK'
  <2>1. ctx[r] \in Context
    BY <1>10 DEF Mark, Control, ControlOf
  <2>2. ctx' \in [Requests -> Context \cup {None}]
    BY <1>10, <2>1 DEF Mark, TypeOK, Context
  <2> QED BY <1>10, <2>2 DEF Mark, TypeOK
<1>11. ASSUME NEW r \in Requests, Marked(r) PROVE TypeOK'
  <2>1. "announce" \in PC /\ "commit" \in PC
    BY DEF PC
  <2> QED BY <1>11, <2>1, GotoStep DEF Marked, TypeOK
<1>12. ASSUME NEW r \in Requests, Announce(r) PROVE TypeOK'
  <2>1. ctx[r] \in Context /\ (ctx[r].op # "all" => ctx[r].rounds > 0) /\ "revoked" \in Reply
    BY <1>12 DEF Announce, Control, ControlOf, Updating, Reply
  <2>2. CASE ctx[r].op = "all"
    BY <1>12, <2>1, <2>2, AnswerStep DEF Announce, TypeOK
  <2>3. CASE ctx[r].op # "all"
    <3>1. PICK n : n = ctx[r].rounds - 1 /\ ctx' = [ctx EXCEPT ![r].rounds = n]
      BY <1>12, <2>3 DEF Announce
    <3>2. n \in Nat
      BY <2>1, <2>3, <3>1 DEF Context
    <3>3. ctx' \in [Requests -> Context \cup {None}]
      BY <2>1, <3>1, <3>2 DEF TypeOK, Context
    <3>4. pc' \in [Requests -> PC]
      BY <1>12, <2>3 DEF Announce, TypeOK, Goto, PC
    <3> QED BY <1>12, <2>3, <3>3, <3>4 DEF Announce, TypeOK
  <2> QED BY <2>2, <2>3
<1>13. ASSUME NEW r \in Requests, CommitRevocation(r) PROVE TypeOK'
  <2>1. \A s \in ctx[r].revoking : Exists(s)
    BY <1>13 DEF CommitRevocation, Control, ControlOf, Updating
  <2>2. \A s \in Sessions : Exists(s) => [session[s] EXCEPT !.revoked = TRUE] \in Row
    BY FamilyOfRow DEF Row
  <2>3. session' \in [Sessions -> Row \cup {None}]
    BY <1>13, <2>1, <2>2 DEF CommitRevocation, TypeOK
  <2>4. "announce" \in PC /\ "revoked" \in Reply /\ "reuse_detected" \in Reply
    BY DEF PC, Reply
  <2>5. CASE ctx[r].op = "all"
    BY <1>13, <2>3, <2>4, <2>5, UnlockStep, GotoStep DEF CommitRevocation, TypeOK
  <2>6. CASE ctx[r].op # "all"
    BY <1>13, <2>3, <2>4, <2>6, UnlockStep, AnswerStep DEF CommitRevocation, TypeOK
  <2> QED BY <2>5, <2>6
<1>14. ASSUME NEW r \in Requests, Fail(r) PROVE TypeOK'
  <2>1. "error" \in Reply
    BY DEF Reply
  <2> QED BY <1>14, <2>1, UnlockStep, AnswerStep DEF Fail, TypeOK
<1>15. CASE Finished \/ UNCHANGED vars
  BY <1>15 DEF Finished, vars, TypeOK
<1> QED BY <1>1, <1>2, <1>3, <1>4, <1>5, <1>6, <1>7, <1>8, <1>9, <1>10, <1>11, <1>12,
           <1>13, <1>14, <1>15 DEF Next, Arrive, Proceed, BreakDeadlock

-----------------------------------------------------------------------------
(* What requests know                                                      *)

(* What r's step leaves to the others: their place, their locks, what is   *)
(* in Redis, and every row; those they hold unchanged.                     *)
Spares(r) ==
  /\ \A q \in Requests \ {r} : pc'[q] = pc[q] /\ ctx'[q] = ctx[q]
  /\ \A x \in Lockable : lock[x] \in Requests \ {r} => lock'[x] = lock[x]
  /\ marked \subseteq marked'
  /\ \A s \in Sessions : Exists(s) =>
       Exists(s)' /\ (lock[s] \in Requests \ {r} => session'[s] = session[s])

(* What a spared request relies on stays true.                             *)
LEMMA SparedKeepControl ==
  ASSUME Inv, NEW r \in Requests, Spares(r), NEW q \in Requests, q # r
  PROVE  ControlOf(q)'
<1>1. TypeOK /\ ControlOf(q)
  BY DEF Inv, Control
<1>2. pc'[q] = pc[q] /\ ctx'[q] = ctx[q]
  BY DEF Spares
<1>3. \A s \in Sessions : Exists(s) => Exists(s)'
  BY DEF Spares
<1>4. \A s \in Sessions : lock[s] = q /\ Exists(s) => lock'[s] = q /\ session'[s] = session[s]
  BY DEF Spares, Lockable
<1>5. \A s \in marked : s \in marked'
  BY DEF Spares
<1>6. ctx[q] \in Context =>
        /\ ctx[q].subject \in Sessions /\ ctx[q].target \subseteq Sessions
        /\ ctx[q].revoking \subseteq Sessions
  BY DEF Context
<1>7. CASE pc[q] = "idle"
  BY <1>2, <1>7 DEF ControlOf, Updating
<1>8. CASE pc[q] # "idle"
  <2>1. ctx[q] \in Context
    BY <1>1, <1>8 DEF ControlOf
  <2>2. pc[q] = "rotate" \/ (pc[q] = "device" /\ ctx[q].op = "rotate") =>
          lock'[ctx[q].subject] = q /\ Live(ctx[q].subject)'
    BY <1>1, <1>2, <1>3, <1>4, <1>6, <2>1 DEF ControlOf, Live
  <2>3. Updating(q) =>
          \A s \in ctx[q].revoking :
            /\ lock'[s] = q /\ Exists(s)' /\ ~session'[s].revoked
            /\ s \in marked' \/ s \in ctx[q].fresh
    BY <1>1, <1>3, <1>4, <1>5, <1>6, <2>1 DEF ControlOf
  <2>4. Updating(q)' <=> Updating(q)
    BY <1>2 DEF Updating
  <2> QED BY <1>1, <1>2, <1>3, <1>6, <2>1, <2>2, <2>3, <2>4 DEF ControlOf
<1> QED BY <1>7, <1>8

(* So a step of r has to see to what r itself knows.                       *)
LEMMA OwnControl ==
  ASSUME Inv, NEW r \in Requests, Spares(r), ControlOf(r)'
  PROVE  Control'
BY SparedKeepControl DEF Control

(* Steps that change no row.                                               *)
LEMMA SparesSame ==
  ASSUME NEW r \in Requests, UNCHANGED session, marked \subseteq marked',
         \A q \in Requests \ {r} : pc'[q] = pc[q] /\ ctx'[q] = ctx[q],
         \A x \in Lockable : lock[x] \in Requests \ {r} => lock'[x] = lock[x]
  PROVE  Spares(r)
BY DEF Spares, Exists

(* What requests rely on holds after every step.                           *)
LEMMA ControlStep == Inv /\ [Next]_vars => Control'
<1> SUFFICES ASSUME Inv, [Next]_vars PROVE Control'
  OBVIOUS
<1>0. TypeOK /\ Control /\ Tables
  BY DEF Inv
<1> USE <1>0, Distinct
<1>1. ASSUME NEW f \in Families, NEW s \in Sessions, Login(f, s) PROVE Control'
  <2>1. \A t \in Sessions : Exists(t) => Exists(t)' /\ session'[t] = session[t]
    BY <1>1 DEF Login, TypeOK, Exists
  <2>2. ASSUME NEW r \in Requests PROVE ControlOf(r)'
    <3>1. ControlOf(r) /\ UNCHANGED <<lock, marked, pc, ctx>>
      BY <1>1 DEF Login, Control
    <3>2. ctx[r] \in Context =>
            /\ ctx[r].subject \in Sessions /\ ctx[r].target \subseteq Sessions
            /\ ctx[r].revoking \subseteq Sessions
      BY DEF Context
    <3> QED BY <2>1, <3>1, <3>2 DEF ControlOf, Updating, Live
  <2> QED BY <2>2 DEF Control
<1>2. ASSUME NEW r \in Requests, NEW s \in Sessions, Present(r, s) PROVE Control'
  <2>1. session[s].family \in Families /\ "select" \in PC /\ Exists(s)
    BY <1>2, FamilyOfRow DEF Present, Tables, PC
  <2>2. Spares(r)
    BY <1>2, <2>1, SparesSame, StartStep, GotoStep DEF Present
  <2>3. /\ pc'[r] = "select" /\ ctx'[r] \in Context /\ ctx'[r].op = "rotate"
        /\ ctx'[r].subject = s /\ ctx'[r].revoking = {} /\ ctx'[r].fresh = {}
        /\ ctx'[r].rounds = 1
    BY <1>2, <2>1, StartStep, GotoStep DEF Present
  <2> QED BY <1>2, <2>1, <2>2, <2>3, OwnControl DEF Present, ControlOf, Updating, Exists
<1>3. ASSUME NEW r \in Requests, NEW op \in {"logout", "device", "all"},
             NEW s \in Sessions, NEW f \in Families, Revoke(r, op, s, f)
      PROVE  Control'
  <2>1. "update" \in PC /\ "device" \in PC /\ Exists(s)
    BY <1>3 DEF PC, Revoke, Tables
  <2>2. /\ pc'[r] \in {"update", "device"} /\ ctx'[r] \in Context /\ ctx'[r].op = op
        /\ ctx'[r].subject = s /\ ctx'[r].rounds = 1
        /\ ctx'[r].revoking = {} /\ ctx'[r].fresh = {}
        /\ \A q \in Requests \ {r} : pc'[q] = pc[q] /\ ctx'[q] = ctx[q]
    BY <1>3, <2>1, StartStep, GotoStep DEF Revoke
  <2>3. Spares(r)
    BY <1>3, <2>2, SparesSame DEF Revoke
  <2> QED BY <1>3, <2>1, <2>2, <2>3, OwnControl DEF Revoke, ControlOf, Updating, Exists
<1>4. ASSUME NEW r \in Requests, Accept(r) PROVE Control'
  <2>1. /\ ctx[r] \in Context /\ ctx[r].subject \in Lockable /\ ctx[r].op = "rotate"
        /\ ctx[r].revoking = {} /\ ctx[r].fresh = {} /\ "device" \in PC
    BY <1>4 DEF Accept, Control, ControlOf, Context, Lockable, PC
  <2>2. /\ pc'[r] = "device" /\ lock'[ctx[r].subject] = r
        /\ UNCHANGED <<session, marked, ctx>>
    BY <1>4, <2>1, AcquireStep, GotoStep DEF Accept
  <2>3. Spares(r)
    BY <1>4, <2>1, SparesSame, AcquireStep, GotoStep DEF Accept
  <2> QED BY <1>4, <2>1, <2>2, <2>3, OwnControl DEF Accept, ControlOf, Updating, Live, Exists
<1>5. ASSUME NEW r \in Requests, DetectReuse(r) PROVE Control'
  <2>1. /\ ctx[r] \in Context /\ ctx[r].subject \in Lockable /\ ctx[r].rounds > 0
        /\ ctx[r].revoking = {} /\ ctx[r].fresh = {} /\ "update" \in PC
        /\ Exists(ctx[r].subject)
    BY <1>5 DEF DetectReuse, Control, ControlOf, Context, Lockable, PC
  <2>2. /\ pc'[r] = "update" /\ ctx'[r] \in Context /\ ctx'[r].subject = ctx[r].subject
        /\ ctx'[r].revoking = {} /\ ctx'[r].rounds = ctx[r].rounds
        /\ \A q \in Requests \ {r} : ctx'[q] = ctx[q]
    BY <1>5, <2>1, GotoStep DEF DetectReuse, TypeOK, Context
  <2>3. Spares(r)
    BY <1>5, <2>1, <2>2, SparesSame, AcquireStep, GotoStep DEF DetectReuse
  <2> QED BY <1>5, <2>1, <2>2, <2>3, OwnControl DEF DetectReuse, ControlOf, Updating, Exists
<1>6. ASSUME NEW r \in Requests, NEW what \in Reply, pc[r] # "idle", Answer(r, what),
             UNCHANGED <<session, marked, ctx>>,
             \A x \in Lockable : lock[x] \in Requests \ {r} => lock'[x] = lock[x]
      PROVE  Control'
  <2>1. pc'[r] = "done" /\ ctx[r] \in Context
    BY <1>6, AnswerStep DEF Control, ControlOf
  <2>2. Spares(r)
    BY <1>6, SparesSame, AnswerStep
  <2> QED BY <1>6, <2>1, <2>2, OwnControl DEF ControlOf, Updating
<1>7. ASSUME NEW r \in Requests, Reject(r) PROVE Control'
  <2>1. "rejected" \in Reply
    BY DEF Reply
  <2> QED BY <1>6, <1>7, <2>1 DEF Reject
<1>8. ASSUME NEW r \in Requests, UpdateDevice(r) PROVE Control'
  <2>1. /\ ctx[r] \in Context /\ ctx[r].families \subseteq Lockable
        /\ ctx[r].subject \in Lockable /\ Exists(ctx[r].subject)
        /\ ctx[r].revoking = {} /\ ctx[r].fresh = {}
    BY <1>8 DEF UpdateDevice, Control, ControlOf, Context, Lockable
  <2>2. \A y \in Lockable : lock[y] \in Requests => lock'[y] = lock[y]
    BY <1>8, <2>1, AcquireStep DEF UpdateDevice
  <2>3. CASE ctx[r].op = "rotate"
    <3>1. "rotate" \in PC
      BY DEF PC
    <3>2. pc'[r] = "rotate" /\ UNCHANGED <<session, marked, ctx>>
      BY <1>8, <2>3, <3>1, GotoStep DEF UpdateDevice
    <3>3. Spares(r)
      BY <1>8, <2>2, <2>3, <3>1, SparesSame, GotoStep DEF UpdateDevice
    <3>4. lock[ctx[r].subject] = r /\ Live(ctx[r].subject)
      BY <1>8, <2>3 DEF UpdateDevice, Control, ControlOf
    <3> QED BY <2>1, <2>2, <3>2, <3>3, <3>4, OwnControl DEF ControlOf, Updating, Live, Exists
  <2>4. CASE ctx[r].op # "rotate"
    <3>1. PICK n : /\ n = Cardinality({s \in Of(ctx[r].families) : ~session[s].revoked})
                   /\ ctx' = [ctx EXCEPT ![r].rounds = n]
                   /\ Goto(r, IF n = 0 THEN "commit" ELSE "update")
      BY <1>8, <2>4 DEF UpdateDevice
    <3>2. n \in Nat
      BY <3>1, RoundsAreCounted
    <3>3. "commit" \in PC /\ "update" \in PC
      BY DEF PC
    <3>4. /\ pc'[r] = IF n = 0 THEN "commit" ELSE "update"
          /\ ctx'[r] \in Context /\ ctx'[r].subject = ctx[r].subject /\ ctx'[r].rounds = n
          /\ ctx'[r].revoking = {} /\ ctx'[r].fresh = {}
          /\ \A q \in Requests \ {r} : pc'[q] = pc[q] /\ ctx'[q] = ctx[q]
      BY <2>1, <3>1, <3>2, <3>3, GotoStep, ZenonT(60) DEF TypeOK, Context
    <3>5. Spares(r)
      BY <1>8, <2>2, <3>4, SparesSame DEF UpdateDevice
    <3>6. UNCHANGED session
      BY <1>8 DEF UpdateDevice
    <3> QED BY <2>1, <3>2, <3>4, <3>5, <3>6, OwnControl DEF ControlOf, Updating, Exists
  <2> QED BY <2>3, <2>4
<1>9. ASSUME NEW r \in Requests, NEW new \in Sessions, CommitRotation(r, new) PROVE Control'
  <2>1. PICK s : s = ctx[r].subject
    OBVIOUS
  <2>2. ctx[r] \in Context /\ s \in Sessions /\ Live(s) /\ lock[s] = r /\ s # new
    BY <1>9, <2>1 DEF CommitRotation, Control, ControlOf, Context, Live
  <2>3. PICK old, fresh :
          /\ old = [session[s] EXCEPT !.rotated = TRUE]
          /\ fresh = [family |-> session[s].family, previous |-> s,
                      rotated |-> FALSE, revoked |-> FALSE]
    OBVIOUS
  <2>4. old \in Row /\ fresh \in Row
    BY <2>2, <2>3, FamilyOfRow DEF Live, Row
  <2>5. /\ session'[s] = old /\ session'[new] = fresh
        /\ \A t \in Sessions \ {s, new} : session'[t] = session[t]
    BY <1>9, <2>1, <2>2, <2>3 DEF CommitRotation, TypeOK
  <2>6. /\ Exists(s)' /\ Exists(new)'
        /\ \A t \in Sessions : Exists(t) => Exists(t)' /\ (lock[t] # r => session'[t] = session[t])
    BY <1>9, <2>2, <2>4, <2>5 DEF CommitRotation, Exists
  <2>7. "spent" \in PC
    BY DEF PC
  <2>8. /\ pc'[r] = "spent" /\ ctx'[r] \in Context /\ ctx'[r].subject = s /\ ctx'[r].want = new
        /\ \A q \in Requests \ {r} : pc'[q] = pc[q] /\ ctx'[q] = ctx[q]
    BY <1>9, <2>1, <2>2, <2>7, GotoStep DEF CommitRotation, TypeOK, Context
  <2>9. Spares(r)
    BY <1>9, <2>6, <2>8, UnlockStep DEF CommitRotation, Spares
  <2> QED BY <2>6, <2>8, <2>9, OwnControl DEF ControlOf, Updating
<1>10. ASSUME NEW r \in Requests, Issue(r) PROVE Control'
  <2>1. "issued" \in Reply /\ ctx[r] \in Context
    BY <1>10 DEF Reply, Issue, Control, ControlOf
  <2>2. pc'[r] = "done" /\ UNCHANGED ctx
    BY <1>10, <2>1, AnswerStep DEF Issue
  <2>3. Spares(r)
    BY <1>10, <2>1, SparesSame, AnswerStep DEF Issue
  <2> QED BY <2>1, <2>2, <2>3, OwnControl DEF ControlOf, Updating
<1>11. ASSUME NEW r \in Requests, BeginUpdate(r) PROVE Control'
  <2>1. ctx[r] \in Context /\ Exists(ctx[r].subject) /\ ControlOf(r)
    BY <1>11 DEF BeginUpdate, Control, ControlOf
  <2>2. PICK rest : /\ rest = {s \in Of(ctx[r].families) : ~session[s].revoked} \ ctx[r].revoking
                    /\ Advance(r, rest, ctx[r])
    BY <1>11 DEF BeginUpdate
  <2>3. rest \subseteq Sessions /\ \A t \in rest : Exists(t)
    BY <2>2 DEF Of
  <2>4. Spares(r)
    BY <1>11, <2>1, <2>2, <2>3, SparesSame, AdvanceStep DEF BeginUpdate
  <2>5. /\ ctx'[r] \in Context
        /\ ctx'[r].op = ctx[r].op /\ ctx'[r].subject = ctx[r].subject /\ ctx'[r].rounds = ctx[r].rounds
        /\ ctx'[r].revoking = ctx[r].revoking /\ ctx'[r].fresh = ctx[r].fresh
        /\ \/ pc'[r] = "mark"
           \/ pc'[r] = "visit" /\ ctx'[r].target = rest /\ ctx'[r].want \in rest
    BY <2>1, <2>2, <2>3, AdvanceStep
  <2> QED BY <1>11, <2>1, <2>3, <2>4, <2>5, OwnControl DEF BeginUpdate, ControlOf, Updating, Exists
<1>12. ASSUME NEW r \in Requests, Visit(r) PROVE Control'
  <2>1. ctx[r] \in Context /\ Exists(ctx[r].subject) /\ ControlOf(r) /\ Updating(r)
    BY <1>12 DEF Visit, Control, ControlOf, Updating
  <2>2. PICK w, c :
          /\ w = ctx[r].want
          /\ c = IF session[w].revoked THEN ctx[r]
                 ELSE [ctx[r] EXCEPT !.revoking = @ \cup {w}, !.fresh = @ \cup {w}]
          /\ Acquire(r, w) /\ Advance(r, ctx[r].target \ {w}, c)
    BY <1>12 DEF Visit
  <2>3. /\ w \in Sessions /\ w \in Lockable /\ Exists(w) /\ ctx[r].target \subseteq Sessions
        /\ \A t \in ctx[r].target : Exists(t)
    BY <1>12, <2>1, <2>2 DEF Visit, ControlOf, Context, Lockable
  <2>4. /\ c \in Context /\ c.op = ctx[r].op /\ c.subject = ctx[r].subject
        /\ c.rounds = ctx[r].rounds
        /\ IF session[w].revoked
           THEN c.revoking = ctx[r].revoking /\ c.fresh = ctx[r].fresh
           ELSE c.revoking = ctx[r].revoking \cup {w} /\ c.fresh = ctx[r].fresh \cup {w}
    BY <2>1, <2>2, <2>3 DEF Context
  <2>10. PICK rest : rest = ctx[r].target \ {w}
    OBVIOUS
  <2>5. /\ ctx'[r] \in Context
        /\ ctx'[r].op = c.op /\ ctx'[r].subject = c.subject /\ ctx'[r].rounds = c.rounds
        /\ ctx'[r].revoking = c.revoking /\ ctx'[r].fresh = c.fresh
        /\ \/ pc'[r] = "mark"
           \/ /\ pc'[r] = "visit" /\ ctx'[r].target = rest
              /\ ctx'[r].want \in rest
        /\ \A q \in Requests \ {r} : ctx'[q] = ctx[q] /\ pc'[q] = pc[q]
    <3>1. rest \in SUBSET Sessions /\ Advance(r, rest, c) /\ c \in Context
      BY <2>2, <2>3, <2>4, <2>10
    <3> HIDE <2>2, <2>4, <2>10
    <3> QED BY <3>1, AdvanceStep
  <2>6. /\ lock'[w] = r
        /\ \A y \in Lockable : lock[y] \in Requests => lock'[y] = lock[y]
    BY <2>2, <2>3, AcquireStep
  <2>7. Spares(r)
    BY <1>12, <2>5, <2>6, SparesSame DEF Visit
  <2>8. \A t \in ctx'[r].revoking :
          /\ lock'[t] = r /\ Exists(t) /\ ~session[t].revoked
          /\ t \in marked \/ t \in ctx'[r].fresh
    <3>1. ctx[r].revoking \subseteq Lockable
      BY <2>1 DEF Context, Lockable
    <3>2. \A t \in ctx[r].revoking :
            /\ lock'[t] = r /\ Exists(t) /\ ~session[t].revoked
            /\ t \in marked \/ t \in ctx[r].fresh
      BY <2>1, <2>6, <3>1 DEF ControlOf
    <3> QED BY <2>3, <2>4, <2>5, <2>6, <3>2
  <2>9. UNCHANGED <<session, marked>> /\ pc[r] = "visit"
    BY <1>12 DEF Visit
  <2> QED BY <2>1, <2>3, <2>4, <2>5, <2>7, <2>8, <2>9, <2>10, OwnControl DEF ControlOf, Updating, Exists
<1>13. ASSUME NEW r \in Requests, NEW s \in Sessions, Mark(r, s) PROVE Control'
  <2>1. ctx[r] \in Context /\ Exists(ctx[r].subject) /\ ControlOf(r)
    BY <1>13 DEF Mark, Control, ControlOf
  <2>2. /\ ctx'[r] \in Context /\ ctx'[r].op = ctx[r].op /\ ctx'[r].subject = ctx[r].subject
        /\ ctx'[r].rounds = ctx[r].rounds /\ ctx'[r].revoking = ctx[r].revoking
        /\ ctx'[r].fresh = ctx[r].fresh \ {s}
        /\ \A q \in Requests \ {r} : ctx'[q] = ctx[q]
    BY <1>13, <2>1 DEF Mark, TypeOK, Context
  <2>3. Spares(r)
    BY <1>13, <2>2, SparesSame DEF Mark
  <2>4. pc[r] = "mark" /\ marked' = marked \cup {s} /\ UNCHANGED <<session, lock, pc>>
    BY <1>13 DEF Mark
  <2> QED BY <2>1, <2>2, <2>3, <2>4, OwnControl DEF ControlOf, Updating, Exists
<1>14. ASSUME NEW r \in Requests, Marked(r) PROVE Control'
  <2>1. ctx[r] \in Context /\ Exists(ctx[r].subject) /\ ControlOf(r) /\ Updating(r)
        /\ "commit" \in PC /\ "announce" \in PC
    BY <1>14 DEF Marked, Control, ControlOf, Updating, PC
  <2>2. /\ pc'[r] = IF ctx[r].op = "all" THEN "commit" ELSE "announce"
        /\ \A q \in Requests \ {r} : pc'[q] = pc[q]
    BY <1>14, <2>1, GotoStep DEF Marked
  <2>3. Spares(r)
    BY <1>14, <2>2, SparesSame DEF Marked
  <2> QED BY <1>14, <2>1, <2>2, <2>3, OwnControl DEF Marked, ControlOf, Updating, Exists
<1>15. ASSUME NEW r \in Requests, Announce(r) PROVE Control'
  <2>1. ctx[r] \in Context /\ Exists(ctx[r].subject) /\ ControlOf(r) /\ "revoked" \in Reply
    BY <1>15 DEF Announce, Control, ControlOf, Reply
  <2>2. CASE ctx[r].op = "all"
    BY <1>6, <1>15, <2>1, <2>2 DEF Announce
  <2>3. CASE ctx[r].op # "all"
    <3>1. PICK n : n = ctx[r].rounds - 1 /\ ctx' = [ctx EXCEPT ![r].rounds = n]
      BY <1>15, <2>3 DEF Announce
    <3>2. Updating(r) /\ ctx[r].rounds \in Nat /\ n \in Nat
      BY <1>15, <2>1, <2>3, <3>1 DEF Announce, Updating, ControlOf, Context
    <3>3. /\ ctx'[r] \in Context /\ ctx'[r].op = ctx[r].op /\ ctx'[r].subject = ctx[r].subject
          /\ ctx'[r].rounds = n /\ ctx'[r].revoking = ctx[r].revoking
          /\ ctx'[r].fresh = ctx[r].fresh
          /\ \A q \in Requests \ {r} : ctx'[q] = ctx[q]
      BY <2>1, <3>1, <3>2 DEF TypeOK, Context
    <3>4. /\ pc'[r] = IF ctx[r].rounds > 1 THEN "update" ELSE "commit"
          /\ \A q \in Requests \ {r} : pc'[q] = pc[q]
      BY <1>15, <2>3 DEF Announce, Goto, TypeOK
    <3>5. Spares(r)
      BY <1>15, <3>3, <3>4, SparesSame DEF Announce
    <3>6. pc[r] = "announce" /\ UNCHANGED <<session, lock, marked>>
      BY <1>15 DEF Announce
    <3> QED BY <2>1, <3>1, <3>2, <3>3, <3>4, <3>5, <3>6, OwnControl DEF ControlOf, Updating, Exists
  <2> QED BY <2>2, <2>3
<1>16. ASSUME NEW r \in Requests, CommitRevocation(r) PROVE Control'
  <2>1. ctx[r] \in Context /\ Exists(ctx[r].subject) /\ ctx[r].subject \in Sessions
        /\ ctx[r].revoking \subseteq Sessions
        /\ ctx[r].fresh = {} /\ \A s \in ctx[r].revoking : lock[s] = r /\ Exists(s)
    BY <1>16 DEF CommitRevocation, Control, ControlOf, Updating, Context
  <2>2. \A s \in Sessions :
          Exists(s) => Exists(s)' /\ (lock[s] # r => session'[s] = session[s])
    <3>1. \A s \in Sessions : Exists(s) => [session[s] EXCEPT !.revoked = TRUE] \in Row
      BY FamilyOfRow DEF Row
    <3> QED BY <1>16, <2>1, <3>1 DEF CommitRevocation, Exists
  <2>3. "announce" \in PC /\ "revoked" \in Reply /\ "reuse_detected" \in Reply
    BY DEF PC, Reply
  <2>4. /\ pc'[r] = "done" \/ (pc'[r] = "announce" /\ ctx[r].op = "all")
        /\ \A q \in Requests \ {r} : pc'[q] = pc[q]
    <3>1. CASE ctx[r].op = "all"
      BY <1>16, <2>3, <3>1, GotoStep DEF CommitRevocation
    <3>2. CASE ctx[r].op # "all"
      BY <1>16, <2>3, <3>2, AnswerStep DEF CommitRevocation
    <3> QED BY <3>1, <3>2
  <2>5. Spares(r)
    BY <1>16, <2>2, <2>4, UnlockStep DEF CommitRevocation, Spares
  <2> QED BY <1>16, <2>1, <2>2, <2>4, <2>5, OwnControl DEF CommitRevocation, ControlOf, Updating
<1>17. ASSUME NEW r \in Requests, Fail(r) PROVE Control'
  <2>1. "error" \in Reply
    BY DEF Reply
  <2> QED BY <1>6, <1>17, <2>1, UnlockStep DEF Fail
<1>18. CASE Finished \/ UNCHANGED vars
  BY <1>18 DEF Finished, vars, Control, ControlOf, Updating, Live, Exists
<1> QED BY <1>1, <1>2, <1>3, <1>4, <1>5, <1>7, <1>8, <1>9, <1>10, <1>11, <1>12,
           <1>13, <1>14, <1>15, <1>16, <1>17, <1>18 DEF Next, Arrive, Proceed, BreakDeadlock

-----------------------------------------------------------------------------
(* What the rows say                                                       *)

(* What holds of the rows holds after every step: only a login, a commit   *)
(* and what is told to clients and Redis can disturb it.                   *)
LEMMA TablesStep == Inv /\ [Next]_vars => Tables'
<1> SUFFICES ASSUME Inv, [Next]_vars PROVE Tables'
  OBVIOUS
<1>0. TypeOK /\ Control /\ Tables
  BY DEF Inv
<1> USE <1>0, Distinct
<1>1. ASSUME UNCHANGED session, marked \subseteq marked', \A s \in known' : Exists(s)
      PROVE  Tables'
  <2>1. RevokedIsMarked'
    BY <1>1 DEF Tables, RevokedIsMarked, Exists
  <2>2. PreviousIsSpent' /\ SingleUse' /\ OneLiveToken'
    BY <1>1 DEF Tables, PreviousIsSpent, SingleUse, OneLiveToken, Live, Exists
  <2>3. \A s : Exists(s)' <=> Exists(s)
    BY <1>1 DEF Exists
  <2>4. IsFiniteSet({s \in Sessions : Exists(s)}')
    BY <2>3 DEF Tables
  <2> QED BY <1>1, <2>1, <2>2, <2>3, <2>4 DEF Tables
<1>2. ASSUME NEW f \in Families, NEW s \in Sessions, Login(f, s) PROVE Tables'
  <2>1. PICK fresh : fresh = [family |-> f, previous |-> None, rotated |-> FALSE, revoked |-> FALSE]
    OBVIOUS
  <2>10. fresh \in Row
    BY <2>1 DEF Row
  <2>2. /\ session'[s] = fresh /\ fresh # None
        /\ \A t \in Sessions \ {s} : session'[t] = session[t]
    BY <1>2, <2>1, <2>10 DEF Login, TypeOK
  <2>3. /\ Exists(s)' /\ ~Exists(s)
        /\ \A t \in Sessions \ {s} : Exists(t)' <=> Exists(t)
    BY <1>2, <2>2 DEF Login, Exists
  <2>4. IsFiniteSet({t \in Sessions : Exists(t)}')
    <3>1. {t \in Sessions : Exists(t)}' = {t \in Sessions : Exists(t)} \cup {s}
      BY <2>3
    <3> QED BY <3>1, FS_AddElement DEF Tables
  <2>5. PreviousIsSpent'
    <3> SUFFICES ASSUME NEW t \in Sessions, Exists(t)', session'[t].previous # None
                 PROVE  session'[session'[t].previous] # None /\ session'[session'[t].previous].rotated
      BY DEF PreviousIsSpent, Exists
    <3>1. t # s
      BY <2>1, <2>2
    <3>2. session[t] \in Row /\ session'[t] = session[t] /\ Exists(t)
      BY <2>2, <2>3, <3>1 DEF TypeOK, Exists
    <3>3. session[t].previous \in Sessions
      BY <3>2 DEF Row
    <3>4. session[t].previous # s
      BY <2>3, <3>2 DEF Tables, PreviousIsSpent
    <3> QED BY <2>2, <3>2, <3>3, <3>4 DEF Tables, PreviousIsSpent, Exists
  <2>6. SingleUse'
    BY <2>1, <2>2, <2>3 DEF Tables, SingleUse
  <2>7. OneLiveToken'
    <3>1. \A t \in Sessions : Exists(t) => session[t].family # f
      BY <1>2 DEF Login, Of
    <3> QED BY <2>1, <2>2, <2>3, <3>1 DEF Tables, OneLiveToken, Live
  <2>8. RevokedIsMarked'
    BY <1>2, <2>1, <2>2, <2>3 DEF Login, Tables, RevokedIsMarked
  <2>9. \A t \in known' : Exists(t)'
    BY <1>2, <2>3 DEF Login, Tables, TypeOK
  <2> QED BY <2>4, <2>5, <2>6, <2>7, <2>8, <2>9 DEF Tables
<1>3. ASSUME NEW r \in Requests, NEW new \in Sessions, CommitRotation(r, new) PROVE Tables'
  <2>1. PICK s : s = ctx[r].subject
    OBVIOUS
  <2>2. s \in Sessions /\ Live(s) /\ Exists(s) /\ s # new /\ ~Exists(new)
    BY <1>3, <2>1 DEF CommitRotation, Control, ControlOf, Context, Live
  <2>3. PICK old, fresh :
          /\ old = [session[s] EXCEPT !.rotated = TRUE]
          /\ fresh = [family |-> session[s].family, previous |-> s,
                      rotated |-> FALSE, revoked |-> FALSE]
    OBVIOUS
  <2>4. /\ session[s] \in Row /\ old \in Row /\ fresh \in Row
        /\ old.rotated /\ old.revoked = session[s].revoked
        /\ old.family = session[s].family /\ old.previous = session[s].previous
    BY <2>2, <2>3, FamilyOfRow DEF Row
  <2>5. /\ session'[s] = old /\ session'[new] = fresh
        /\ \A t \in Sessions \ {s, new} : session'[t] = session[t]
    BY <1>3, <2>1, <2>2, <2>3 DEF CommitRotation, TypeOK
  <2>6. /\ Exists(s)' /\ Exists(new)'
        /\ \A t \in Sessions \ {new} : Exists(t)' <=> Exists(t)
    BY <2>2, <2>4, <2>5 DEF Exists
  <2>7. IsFiniteSet({t \in Sessions : Exists(t)}')
    <3>1. {t \in Sessions : Exists(t)}' = {t \in Sessions : Exists(t)} \cup {new}
      BY <2>6
    <3> QED BY <3>1, FS_AddElement DEF Tables
  <2>8. ASSUME NEW t \in Sessions, t # new, Exists(t)
        PROVE  /\ session[t] \in Row /\ session'[t].previous = session[t].previous
               /\ session'[t].family = session[t].family
               /\ session'[t].revoked = session[t].revoked
               /\ session[t].rotated => session'[t].rotated
               /\ session[t].previous # s
               /\ session[t].previous # new
    <3>1. session[t].previous # s
      BY <2>2, <2>8 DEF Tables, PreviousIsSpent, Live
    <3>2. session[t].previous # new
      BY <2>2, <2>8 DEF Tables, PreviousIsSpent
    <3> QED BY <2>4, <2>5, <2>8, <3>1, <3>2, FamilyOfRow
  <2>9. PreviousIsSpent'
    <3> SUFFICES ASSUME NEW t \in Sessions, Exists(t)', session'[t].previous # None
                 PROVE  session'[session'[t].previous] # None /\ session'[session'[t].previous].rotated
      BY DEF PreviousIsSpent, Exists
    <3>1. CASE t = new
      <4>1. fresh.previous = s /\ old.rotated /\ old # None
        BY <2>3, <2>4
      <4> QED BY <2>5, <3>1, <4>1
    <3>2. CASE t # new
      <4>1. Exists(t) /\ session'[t].previous = session[t].previous /\ session[t] \in Row
        BY <2>6, <2>8, <3>2
      <4>2. PICK p : p = session[t].previous
        OBVIOUS
      <4>3. p \in Sessions /\ p # new /\ Exists(p) /\ session[p].rotated
        BY <2>8, <3>2, <4>1, <4>2 DEF Row, Tables, PreviousIsSpent
      <4> QED BY <2>6, <2>8, <4>1, <4>2, <4>3 DEF Exists
    <3> QED BY <3>1, <3>2
  <2>10. SingleUse'
    <3> SUFFICES ASSUME NEW t \in Sessions, NEW u \in Sessions, Exists(t)', Exists(u)',
                        session'[t].previous = session'[u].previous,
                        session'[t].previous # None
                 PROVE  t = u
      BY DEF SingleUse
    <3>1. CASE t # new /\ u # new
      BY <2>6, <2>8, <3>1 DEF Tables, SingleUse
    <3>2. CASE t = new \/ u = new
      BY <2>3, <2>5, <2>6, <2>8, <3>2
    <3> QED BY <3>1, <3>2
  <2>11. OneLiveToken'
    <3> SUFFICES ASSUME NEW t \in Sessions, NEW u \in Sessions, Live(t)', Live(u)',
                        session'[t].family = session'[u].family
                 PROVE  t = u
      BY DEF OneLiveToken
    <3>1. \A v \in Sessions \ {new} :
            Live(v)' => Live(v) /\ v # s /\ session'[v].family = session[v].family
      BY <2>4, <2>5, <2>6, <2>8 DEF Live
    <3>2. CASE t # new /\ u # new
      BY <3>1, <3>2 DEF Tables, OneLiveToken
    <3>3. session'[new].family = session[s].family
      BY <2>3, <2>5
    <3>4. \A v \in Sessions \ {new} : Live(v)' => session'[v].family # session'[new].family
      BY <2>2, <3>1, <3>3 DEF Tables, OneLiveToken
    <3> QED BY <3>2, <3>4
  <2>12. RevokedIsMarked'
    <3>1. UNCHANGED marked
      BY <1>3 DEF CommitRotation
    <3>2. ~session'[new].revoked
      BY <2>3, <2>5
    <3> QED BY <2>6, <2>8, <3>1, <3>2 DEF Tables, RevokedIsMarked
  <2>13. \A t \in known' : Exists(t)'
    BY <1>3, <2>6 DEF CommitRotation, Tables, TypeOK
  <2> QED BY <2>7, <2>9, <2>10, <2>11, <2>12, <2>13 DEF Tables
<1>4. ASSUME NEW r \in Requests, Issue(r) PROVE Tables'
  BY <1>1, <1>4 DEF Issue, Tables, Control, ControlOf
<1>5. ASSUME NEW r \in Requests, NEW s \in Sessions, Mark(r, s) PROVE Tables'
  BY <1>1, <1>5 DEF Mark, Tables
<1>6. ASSUME NEW r \in Requests, CommitRevocation(r) PROVE Tables'
  <2>1. /\ ctx[r].revoking \subseteq Sessions
        /\ \A s \in ctx[r].revoking : Exists(s) /\ s \in marked
    BY <1>6 DEF CommitRevocation, Control, ControlOf, Updating, Context
  <2>2. ASSUME NEW s \in Sessions
        PROVE  /\ Exists(s)' <=> Exists(s)
               /\ Exists(s) => /\ session'[s].family = session[s].family
                               /\ session'[s].previous = session[s].previous
                               /\ session'[s].rotated = session[s].rotated
                               /\ session'[s].revoked <=>
                                    session[s].revoked \/ s \in ctx[r].revoking
    <3>1. CASE s \in ctx[r].revoking
      <4>1. session[s] \in Row /\ Exists(s)
        BY <2>1, <3>1, FamilyOfRow
      <4>2. PICK new : new = [session[s] EXCEPT !.revoked = TRUE]
        OBVIOUS
      <4>3. /\ new \in Row /\ new.family = session[s].family /\ new.revoked
            /\ new.previous = session[s].previous /\ new.rotated = session[s].rotated
        BY <4>1, <4>2 DEF Row
      <4>4. session'[s] = new
        BY <1>6, <3>1, <4>2 DEF CommitRevocation
      <4> QED BY <3>1, <4>1, <4>3, <4>4 DEF Exists
    <3>2. CASE s \notin ctx[r].revoking
      <4>1. session'[s] = session[s]
        BY <1>6, <3>2 DEF CommitRevocation
      <4> QED BY <3>2, <4>1 DEF Exists
    <3> QED BY <3>1, <3>2
  <2>3. \A s \in Sessions : Exists(s) => session[s] \in Row
    BY FamilyOfRow
  <2>4. PreviousIsSpent'
    BY <2>2, <2>3 DEF Tables, PreviousIsSpent, Row
  <2>5. SingleUse'
    BY <2>2 DEF Tables, SingleUse
  <2>6. OneLiveToken'
    BY <2>2 DEF Tables, OneLiveToken, Live
  <2>7. RevokedIsMarked'
    BY <1>6, <2>1, <2>2 DEF CommitRevocation, Tables, RevokedIsMarked
  <2>8. \A s \in known' : Exists(s)'
    BY <1>6, <2>2 DEF CommitRevocation, Tables, TypeOK
  <2>9. IsFiniteSet({s \in Sessions : Exists(s)}')
    BY <2>2 DEF Tables
  <2> QED BY <2>4, <2>5, <2>6, <2>7, <2>8, <2>9 DEF Tables
<1>7. CASE \E r \in Requests :
             \/ Arrive(r) \/ Accept(r) \/ DetectReuse(r) \/ Reject(r) \/ UpdateDevice(r)
             \/ BeginUpdate(r) \/ Visit(r) \/ Marked(r) \/ Announce(r) \/ Fail(r)
  BY <1>1, <1>7, ZenonT(60) DEF Arrive, Present, Revoke, Accept, DetectReuse, Reject, UpdateDevice,
                    BeginUpdate, Visit, Marked, Announce, Fail, Tables
<1>8. CASE Finished \/ UNCHANGED vars
  BY <1>1, <1>8 DEF Finished, vars, Tables
<1> QED BY <1>2, <1>3, <1>4, <1>5, <1>6, <1>7, <1>8 DEF Next, Proceed, BreakDeadlock

-----------------------------------------------------------------------------
(* Before the first login.                                                 *)
LEMMA InvInit == Init => Inv
<1> SUFFICES ASSUME Init PROVE Inv
  OBVIOUS
<1> USE DEF Init
<1>1. TypeOK
  BY DEF TypeOK, PC
<1>2. Control
  BY DEF Control, ControlOf, Updating
<1>3. \A s \in Sessions : ~Exists(s)
  BY DEF Exists
<1>4. IsFiniteSet({s \in Sessions : Exists(s)})
  <2>1. {s \in Sessions : Exists(s)} = {}
    BY <1>3
  <2> QED BY <2>1, FS_EmptySet
<1>5. Tables
  BY <1>3, <1>4 DEF Tables, PreviousIsSpent, SingleUse, OneLiveToken, RevokedIsMarked, Live
<1> QED BY <1>1, <1>2, <1>5 DEF Inv

(* What requests hold, what rows say and what Redis was told, always.      *)
THEOREM RowsAreHeld == Spec => []Inv
<1>1. Inv /\ [Next]_vars => Inv'
  BY TypeStep, ControlStep, TablesStep DEF Inv
<1> QED BY <1>1, InvInit, PTL DEF Spec

(* Rows, locks, requests and answers have their types.                     *)
THEOREM TypeCorrect == Spec => []TypeOK
<1>1. Inv => TypeOK
  BY DEF Inv
<1> QED BY <1>1, RowsAreHeld, PTL

(* A refresh token has at most one successor, however it is presented.     *)
THEOREM TokensAreSingleUse == Spec => []SingleUse
<1>1. Inv => SingleUse
  BY DEF Inv, Tables
<1> QED BY <1>1, RowsAreHeld, PTL

(* A family has at most one token that can be exchanged.                   *)
THEOREM FamiliesHaveOneToken == Spec => []OneLiveToken
<1>1. Inv => OneLiveToken
  BY DEF Inv, Tables
<1> QED BY <1>1, RowsAreHeld, PTL

(* Redis knows of a revocation before it is committed.                     *)
THEOREM RevocationBites == Spec => []RevokedIsMarked
<1>1. Inv => RevokedIsMarked
  BY DEF Inv, Tables
<1> QED BY <1>1, RowsAreHeld, PTL
=============================================================================
