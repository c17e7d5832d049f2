------------------------------ MODULE Sessions ------------------------------
(***************************************************************************)
(* The sessions of one user: app/services/sessions.py and the routes of    *)
(* api/v1/auth.py that call it, over PostgreSQL at READ COMMITTED.         *)
(*                                                                         *)
(* A member of Sessions is a row and its refresh token; every login starts *)
(* a family and a device (verify_otp never reuses a device), so a family   *)
(* also names its device row.  Requests are HTTP requests; one step is one *)
(* statement, one row lock, one Redis call or the commit.  The variables   *)
(* hold committed rows, the lock table and Redis.                          *)
(*                                                                         *)
(* An UPDATE sees the rows that were committed when it began.  It waits    *)
(* for the lock of each, looks at the newest version of that row again,    *)
(* and does not see rows inserted meanwhile.                               *)
(***************************************************************************)
EXTENDS Naturals, FiniteSets

CONSTANTS Sessions, Families, Requests, None

ASSUME NullAssumption ==
  /\ None \notin Sessions \cup Families \cup Requests
  /\ None \notin [family : Families, previous : Sessions \cup {None},
                  rotated : BOOLEAN, revoked : BOOLEAN]

VARIABLES
  session,  \* the sessions table
  lock,     \* row locks, of sessions and of devices
  marked,   \* the revoked:<session id> keys in Redis
  known,    \* sessions whose tokens were handed to a client
  pc, ctx, reply

vars == <<session, lock, marked, known, pc, ctx, reply>>

Row == [family : Families, previous : Sessions \cup {None},
        rotated : BOOLEAN, revoked : BOOLEAN]

Lockable == Sessions \cup Families

(* subject: the session of the token; target and want: what the running    *)
(* UPDATE has yet to visit, and the row it is at; revoking: the rows this  *)
(* transaction has updated; fresh: those of them not yet in Redis.         *)
Context ==
  [op : {"rotate", "logout", "device", "all"}, subject : Sessions,
   families : SUBSET Families, burning : BOOLEAN, rounds : Nat,
   target : SUBSET Sessions, want : Sessions \cup {None},
   revoking : SUBSET Sessions, fresh : SUBSET Sessions]

PC == {"idle", "select", "device", "rotate", "spent", "update", "visit", "mark",
       "announce", "commit", "done"}

Reply == {"issued", "revoked", "reuse_detected", "rejected", "error"}

TypeOK ==
  /\ session \in [Sessions -> Row \cup {None}]
  /\ lock \in [Lockable -> Requests \cup {None}]
  /\ marked \subseteq Sessions
  /\ known \subseteq Sessions
  /\ pc \in [Requests -> PC]
  /\ ctx \in [Requests -> Context \cup {None}]
  /\ reply \in [Requests -> Reply \cup {None}]

Init ==
  /\ session = [s \in Sessions |-> None]
  /\ lock = [x \in Lockable |-> None]
  /\ marked = {}
  /\ known = {}
  /\ pc = [r \in Requests |-> "idle"]
  /\ ctx = [r \in Requests |-> None]
  /\ reply = [r \in Requests |-> None]

-----------------------------------------------------------------------------
Exists(s) == session[s] # None
Of(F) == {s \in Sessions : Exists(s) /\ session[s].family \in F}
Live(s) == Exists(s) /\ ~session[s].rotated /\ ~session[s].revoked

Goto(r, label) == pc' = [pc EXCEPT ![r] = label]
Unlock(r) == lock' = [x \in Lockable |-> IF lock[x] = r THEN None ELSE lock[x]]
Acquire(r, x) == lock[x] \in {None, r} /\ lock' = [lock EXCEPT ![x] = r]

Answer(r, what) ==
  /\ reply' = [reply EXCEPT ![r] = what]
  /\ Goto(r, "done")

Start(r, op, s, F) ==
  ctx' = [ctx EXCEPT ![r] =
            [op |-> op, subject |-> s, families |-> F, burning |-> op # "rotate",
             rounds |-> 1, target |-> {}, want |-> None, revoking |-> {}, fresh |-> {}]]

(* create_session: a new device, a new family, its first session.          *)
Login(f, s) ==
  /\ Of({f}) = {} /\ ~Exists(s)
  /\ session' = [session EXCEPT ![s] = [family |-> f, previous |-> None,
                                        rotated |-> FALSE, revoked |-> FALSE]]
  /\ known' = known \cup {s}
  /\ UNCHANGED <<lock, marked, pc, ctx, reply>>

-----------------------------------------------------------------------------
(* rotate_session                                                          *)

(* Any token that was ever handed out may be presented, again and again: a *)
(* retry or a second tab presents one that is already spent.               *)
Present(r, s) ==
  /\ pc[r] = "idle" /\ s \in known
  /\ Start(r, "rotate", s, {session[s].family})
  /\ Goto(r, "select")
  /\ UNCHANGED <<session, lock, marked, known, reply>>

(* Mutant: SELECT without FOR UPDATE.                                      *)
AcceptUnlocked(r) ==
  /\ pc[r] = "select"
  /\ Live(ctx[r].subject)
  /\ Goto(r, "device")
  /\ UNCHANGED <<session, lock, marked, known, ctx, reply>>

(* SELECT ... FOR UPDATE, and the three things the row may say.            *)
Accept(r) ==
  /\ pc[r] = "select"
  /\ Acquire(r, ctx[r].subject)
  /\ Live(ctx[r].subject)
  /\ Goto(r, "device")
  /\ UNCHANGED <<session, marked, known, ctx, reply>>

DetectReuse(r) ==
  /\ pc[r] = "select"
  /\ Acquire(r, ctx[r].subject)
  /\ session[ctx[r].subject].rotated
  /\ ctx' = [ctx EXCEPT ![r].burning = TRUE]
  /\ Goto(r, "update")
  /\ UNCHANGED <<session, marked, known, reply>>

(* The transaction ends with the request.                                  *)
Reject(r) ==
  /\ pc[r] = "select"
  /\ lock[ctx[r].subject] = None
  /\ session[ctx[r].subject].revoked /\ ~session[ctx[r].subject].rotated
  /\ Answer(r, "rejected")
  /\ UNCHANGED <<session, lock, marked, known, ctx>>

(* UPDATE user_devices: last_active_at here, revoked_at in revoke_device,  *)
(* which then reads the device's unrevoked sessions and calls              *)
(* revoke_family once for each.                                            *)
UpdateDevice(r) ==
  /\ pc[r] = "device"
  /\ \E f \in ctx[r].families : Acquire(r, f)
  /\ IF ctx[r].op = "rotate"
     THEN Goto(r, "rotate") /\ UNCHANGED ctx
     ELSE LET n == Cardinality({s \in Of(ctx[r].families) : ~session[s].revoked}) IN
            /\ ctx' = [ctx EXCEPT ![r].rounds = n]
            /\ Goto(r, IF n = 0 THEN "commit" ELSE "update")
  /\ UNCHANGED <<session, marked, known, reply>>

(* Mutant: the presented token is not marked spent.                        *)
CommitRotationUnspent(r, new) ==
  /\ pc[r] = "rotate" /\ ~Exists(new)
  /\ LET s == ctx[r].subject IN
       session' = [session EXCEPT
                     ![new] = [family |-> session[s].family, previous |-> s,
                               rotated |-> FALSE, revoked |-> FALSE]]
  /\ Unlock(r)
  /\ ctx' = [ctx EXCEPT ![r].want = new]
  /\ Goto(r, "spent")
  /\ UNCHANGED <<marked, known, reply>>

CommitRotation(r, new) ==
  /\ pc[r] = "rotate" /\ ~Exists(new)
  /\ LET s == ctx[r].subject IN
       session' = [session EXCEPT ![s].rotated = TRUE,
                     ![new] = [family |-> session[s].family, previous |-> s,
                               rotated |-> FALSE, revoked |-> FALSE]]
  /\ Unlock(r)
  /\ ctx' = [ctx EXCEPT ![r].want = new]
  /\ Goto(r, "spent")
  /\ UNCHANGED <<marked, known, reply>>

(* Mutant: previous_id goes to Redis.                                      *)
IssueMarksPrevious(r) ==
  /\ pc[r] = "spent"
  /\ marked' = marked \cup {session[ctx[r].subject].previous}
  /\ known' = known \cup {ctx[r].want}
  /\ Answer(r, "issued")
  /\ UNCHANGED <<session, lock, ctx>>

(* The old session id goes to Redis, the new tokens to the client.         *)
Issue(r) ==
  /\ pc[r] = "spent"
  /\ marked' = marked \cup {ctx[r].subject}
  /\ known' = known \cup {ctx[r].want}
  /\ Answer(r, "issued")
  /\ UNCHANGED <<session, lock, ctx>>

-----------------------------------------------------------------------------
(* revoke_family, revoke_session, revoke_device, revoke_all_for_user       *)

(* current_principal lets a session in whose id is not in Redis.           *)
Revoke(r, op, s, f) ==
  /\ pc[r] = "idle"
  /\ s \in known \ marked
  /\ \/ op = "logout" /\ f = session[s].family /\ Start(r, op, s, {f}) /\ Goto(r, "update")
     \/ op = "device" /\ Of({f}) # {} /\ Start(r, op, s, {f}) /\ Goto(r, "device")
     \/ op = "all" /\ f = session[s].family /\ Start(r, op, s, Families)
        /\ Goto(r, "update")
  /\ UNCHANGED <<session, lock, marked, known, reply>>

(* The row the UPDATE visits next, in whatever order it scans.             *)
Advance(r, rest, c) ==
  IF rest = {}
  THEN /\ ctx' = [ctx EXCEPT ![r] = [c EXCEPT !.target = {}, !.want = None]]
       /\ Goto(r, "mark")
  ELSE /\ \E w \in rest : ctx' = [ctx EXCEPT ![r] = [c EXCEPT !.target = rest, !.want = w]]
       /\ Goto(r, "visit")

BeginUpdate(r) ==
  /\ pc[r] = "update"
  /\ Advance(r, {s \in Of(ctx[r].families) : ~session[s].revoked} \ ctx[r].revoking, ctx[r])
  /\ UNCHANGED <<session, lock, marked, known, reply>>

Visit(r) ==
  /\ pc[r] = "visit"
  /\ LET w == ctx[r].want
         c == IF session[w].revoked THEN ctx[r]
              ELSE [ctx[r] EXCEPT !.revoking = @ \cup {w}, !.fresh = @ \cup {w}]
     IN  /\ Acquire(r, w)
         /\ Advance(r, ctx[r].target \ {w}, c)
  /\ UNCHANGED <<session, marked, known, reply>>

(* mark_revoked_in_cache, before the commit.                               *)
Mark(r, s) ==
  /\ pc[r] = "mark" /\ s \in ctx[r].fresh
  /\ marked' = marked \cup {s}
  /\ ctx' = [ctx EXCEPT ![r].fresh = @ \ {s}]
  /\ UNCHANGED <<session, lock, known, pc, reply>>

(* Mutant: the loop over the returned rows is not there.                   *)
MarkedNone(r) ==
  /\ pc[r] = "mark"
  /\ Goto(r, IF ctx[r].op = "all" THEN "commit" ELSE "announce")
  /\ UNCHANGED <<session, lock, marked, known, ctx, reply>>

Marked(r) ==
  /\ pc[r] = "mark" /\ ctx[r].fresh = {}
  /\ Goto(r, IF ctx[r].op = "all" THEN "commit" ELSE "announce")
  /\ UNCHANGED <<session, lock, marked, known, ctx, reply>>

(* _announce_revocation changes no session: its effect is on sockets.  A   *)
(* family is announced before the commit, all of a user's sessions after.  *)
Announce(r) ==
  /\ pc[r] = "announce"
  /\ IF ctx[r].op = "all"
     THEN Answer(r, "revoked") /\ UNCHANGED ctx
     ELSE /\ ctx' = [ctx EXCEPT ![r].rounds = @ - 1]
          /\ Goto(r, IF ctx[r].rounds > 1 THEN "update" ELSE "commit")
          /\ UNCHANGED reply
  /\ UNCHANGED <<session, lock, marked, known>>

CommitRevocation(r) ==
  /\ pc[r] = "commit"
  /\ session' = [s \in Sessions |-> IF s \in ctx[r].revoking
                                    THEN [session[s] EXCEPT !.revoked = TRUE]
                                    ELSE session[s]]
  /\ Unlock(r)
  /\ CASE ctx[r].op = "all" -> Goto(r, "announce") /\ UNCHANGED reply
       [] ctx[r].op = "rotate" -> Answer(r, "reuse_detected")
       [] OTHER -> Answer(r, "revoked")
  /\ UNCHANGED <<marked, known, ctx>>

-----------------------------------------------------------------------------
(* Mutant: the transaction of a request that failed is left open.          *)
FailKeepsRows(r) ==
  /\ pc[r] \notin {"idle", "done"}
  /\ Answer(r, "error")
  /\ UNCHANGED <<session, lock, marked, known, ctx>>

(* A timeout, a lost connection, an expired or suspended account, a crash: *)
(* the transaction rolls back, what Redis was told stays.  After a commit  *)
(* only the answer is lost.                                                *)
Fail(r) ==
  /\ pc[r] \notin {"idle", "done"}
  /\ Unlock(r)
  /\ Answer(r, "error")
  /\ UNCHANGED <<session, marked, known, ctx>>

(* The row r is waiting for.                                               *)
Wanted(r) ==
  CASE pc[r] = "select" -> {ctx[r].subject}
    [] pc[r] = "device" -> ctx[r].families
    [] pc[r] = "visit"  -> {ctx[r].want}
    [] OTHER -> {}

WaitsFor(r, s) == r # s /\ \E x \in Wanted(r) : lock[x] = s

(* PostgreSQL's deadlock detector cancels one of the requests that wait in *)
(* a circle: each of them waits for one of them and is waited for by one.  *)
Deadlocked(r) ==
  \E D \in SUBSET Requests :
    r \in D /\ \A s \in D : \E t, u \in D : WaitsFor(s, t) /\ WaitsFor(u, s)

BreakDeadlock(r) == Deadlocked(r) /\ Fail(r)

Arrive(r) ==
  \/ \E s \in Sessions : Present(r, s)
  \/ \E op \in {"logout", "device", "all"}, s \in Sessions, f \in Families :
       Revoke(r, op, s, f)

Proceed(r) ==
  \/ Accept(r) \/ DetectReuse(r) \/ Reject(r) \/ UpdateDevice(r)
  \/ \E new \in Sessions : CommitRotation(r, new)
  \/ Issue(r)
  \/ BeginUpdate(r) \/ Visit(r)
  \/ \E s \in Sessions : Mark(r, s)
  \/ Marked(r) \/ Announce(r) \/ CommitRevocation(r)
  \/ BreakDeadlock(r)

(* Nothing more happens by itself.                                         *)
Finished == (\A r \in Requests : pc[r] = "done") /\ UNCHANGED vars

Next ==
  \/ \E f \in Families, s \in Sessions : Login(f, s)
  \/ \E r \in Requests : Arrive(r) \/ Proceed(r) \/ Fail(r)
  \/ Finished

Fairness == \A r \in Requests : WF_vars(Proceed(r))

Spec == Init /\ [][Next]_vars
FairSpec == Spec /\ Fairness

-----------------------------------------------------------------------------
(* A refresh token is exchanged at most once, however often and however    *)
(* concurrently it is presented.                                           *)
SingleUse ==
  \A s, t \in Sessions :
    Exists(s) /\ Exists(t) /\ session[s].previous = session[t].previous
    /\ session[s].previous # None => s = t

(* A family has at most one token that can still be exchanged.             *)
OneLiveToken == \A s, t \in Sessions : Live(s) /\ Live(t)
                  /\ session[s].family = session[t].family => s = t

(* The revocation of a session bites at once: no access token of a session *)
(* whose row is revoked passes current_principal.                          *)
RevokedIsMarked == \A s \in Sessions : Exists(s) /\ session[s].revoked => s \in marked

(* Requests that wait for one another's row locks are all answered.        *)
RequestsAnswered == \A r \in Requests : pc[r] # "idle" ~> pc[r] = "done"

(* sessions.py:9-11, "kill the whole family": after a detected reuse no    *)
(* token of the family can be exchanged.                                   *)
FamilyIsDead ==
  \A r \in Requests : reply[r] = "reuse_detected" =>
    \A s \in Of(ctx[r].families) : ~Live(s)

=============================================================================
