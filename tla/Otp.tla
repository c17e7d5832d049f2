--------------------------------- MODULE Otp ---------------------------------
(***************************************************************************)
(* Login by one-time code for one phone number: app/services/otp.py, the   *)
(* routes request_otp and verify_otp of app/api/v1/auth.py, the budgets of *)
(* the phone number and the worker's purge.                                *)
(*                                                                         *)
(* Requests are HTTP requests; a step is one statement, one row lock, one  *)
(* Redis call or the commit, at READ COMMITTED.  A challenge row is named  *)
(* by the request that inserted it.  Time is an integer.                   *)
(*                                                                         *)
(* The budgets per IP address work like those per number and are left out. *)
(* A code matches or does not: "right" says which.  The security events of *)
(* a refused code are added after its commit and rolled back when the      *)
(* route raises, so they leave no trace here.                              *)
(***************************************************************************)
EXTENDS Integers, FiniteSets

CONSTANTS
  Requests,
  MaxAttempts, \* otp_max_attempts
  Ttl,         \* otp_ttl_seconds
  Retention,   \* how long the purge leaves an expired row
  Limit, Window,
  MaxDelay,    \* bound: between reading the clock and running the script
  MaxTime,     \* bound on the clock
  None

ASSUME OtpAssumption ==
  /\ MaxAttempts \in Nat /\ Ttl \in Nat /\ Retention \in Nat
  /\ Limit \in [{"request", "verify"} -> Nat]
  /\ Window \in Nat /\ MaxDelay \in 0..Window /\ MaxTime \in Nat
  /\ None \notin Requests \cup Nat

VARIABLES
  now,
  bucket, expiry,
  challenge,  \* otp_challenges
  lock,       \* row locks of otp_challenges
  judged,     \* verifications whose outcome was committed
  registered, \* the number has an account
  pc, ctx, reply

vars == <<now, bucket, expiry, challenge, lock, judged, registered, pc, ctx, reply>>
budgets == <<bucket, expiry>>

INSTANCE RateLimit WITH Budgets <- {"request", "verify"}

Row == [consumed : BOOLEAN, attempts : Nat, expires : Nat]

Verdict == {"replay", "expired", "exhausted", "wrong", "ok"}

(* stamp: the caller's clock; at: when the script ran; known: the rows the *)
(* superseding UPDATE could see; waiting: those it has yet to visit; seen: *)
(* the attempts of the locked row; isNew: no account was found.            *)
Context ==
  [op : {"request", "verify"}, target : Requests, right : BOOLEAN,
   stamp : Nat, at : Nat \cup {None},
   known : SUBSET Requests, waiting : SUBSET Requests,
   seen : Nat, verdict : Verdict \cup {None}, isNew : BOOLEAN]

PC == {"idle", "limit", "supersede", "visit", "sms", "select", "verdict", "account",
       "login", "done"}

Reply == {"sent", "session", "refused", "rate_limited", "error"}

ASSUME NullAssumption == None \notin Context /\ None \notin Reply

TypeOK ==
  /\ now \in Nat
  /\ BudgetsTypeOK
  /\ challenge \in [Requests -> Row \cup {None}]
  /\ lock \in [Requests -> Requests \cup {None}]
  /\ judged \subseteq Requests
  /\ registered \in BOOLEAN
  /\ pc \in [Requests -> PC]
  /\ ctx \in [Requests -> Context \cup {None}]
  /\ reply \in [Requests -> Reply \cup {None}]

Init ==
  /\ now = 0
  /\ BudgetsInit
  /\ challenge = [r \in Requests |-> None]
  /\ lock = [r \in Requests |-> None]
  /\ judged = {}
  /\ registered = FALSE
  /\ pc = [r \in Requests |-> "idle"]
  /\ ctx = [r \in Requests |-> None]
  /\ reply = [r \in Requests |-> None]

-----------------------------------------------------------------------------
Stored == {c \in Requests : challenge[c] # None}
Live == {c \in Stored : ~challenge[c].consumed}

Goto(r, label) == pc' = [pc EXCEPT ![r] = label]
Unlock(r) == lock' = [c \in Requests |-> IF lock[c] = r THEN None ELSE lock[c]]

Answer(r, what) ==
  /\ reply' = [reply EXCEPT ![r] = what]
  /\ Goto(r, "done")

(* Both services read the clock first, for the budget.                     *)
Arrive(r, op, c, right) ==
  /\ pc[r] = "idle"
  /\ ctx' = [ctx EXCEPT ![r] =
               [op |-> op, target |-> c, right |-> right, stamp |-> now, at |-> None,
                known |-> {}, waiting |-> {}, seen |-> 0, verdict |-> None,
                isNew |-> FALSE]]
  /\ Goto(r, "limit")
  /\ UNCHANGED <<now, budgets, challenge, lock, judged, registered, reply>>

(* Mutant: the challenge has no id before it is stored.                    *)
RequestCodeUnnamed(r) == Arrive(r, "request", None, FALSE)

RequestCode(r) == Arrive(r, "request", r, FALSE)

(* The client has the id of the challenge from the answer to its request.  *)
SubmitCode(r, c, right) == reply[c] = "sent" /\ Arrive(r, "verify", c, right)

Enforce(r) ==
  /\ pc[r] = "limit"
  /\ \E granted \in BOOLEAN :
       /\ Spend(ctx[r].op, ctx[r].stamp, now, granted)
       /\ IF granted
          THEN Goto(r, IF ctx[r].op = "request" THEN "supersede" ELSE "select")
               /\ UNCHANGED reply
          ELSE Answer(r, "rate_limited")
  /\ ctx' = [ctx EXCEPT ![r].at = now]
  /\ UNCHANGED <<now, challenge, lock, judged, registered>>

-----------------------------------------------------------------------------
(* issue_challenge                                                         *)

(* Mutant: only untried codes are superseded.                              *)
BeginSupersedeUntried(r) ==
  /\ pc[r] = "supersede"
  /\ ctx' = [ctx EXCEPT ![r].known = Stored,
                        ![r].waiting = {c \in Live : challenge[c].attempts = 0}]
  /\ Goto(r, "visit")
  /\ UNCHANGED <<now, budgets, challenge, lock, judged, registered, reply>>

(* The UPDATE that supersedes outstanding codes sees what is committed now *)
(* and visits the rows in some order.                                      *)
BeginSupersede(r) ==
  /\ pc[r] = "supersede"
  /\ ctx' = [ctx EXCEPT ![r].known = Stored, ![r].waiting = Live]
  /\ Goto(r, "visit")
  /\ UNCHANGED <<now, budgets, challenge, lock, judged, registered, reply>>

(* It waits for a row that is locked, and passes over one that has been    *)
(* consumed or purged meanwhile.                                           *)
Supersede(r, c) ==
  /\ pc[r] = "visit" /\ c \in ctx[r].waiting
  /\ lock[c] = None
  /\ lock' = IF c \in Live THEN [lock EXCEPT ![c] = r] ELSE lock
  /\ ctx' = [ctx EXCEPT ![r].waiting = @ \ {c}]
  /\ UNCHANGED <<now, budgets, challenge, judged, registered, pc, reply>>

CommitChallenge(r) ==
  /\ pc[r] = "visit" /\ ctx[r].waiting = {}
  /\ challenge' =
       [c \in Requests |->
          IF c = r THEN [consumed |-> FALSE, attempts |-> 0, expires |-> now + Ttl]
          ELSE IF lock[c] = r THEN [challenge[c] EXCEPT !.consumed = TRUE]
          ELSE challenge[c]]
  /\ Unlock(r)
  /\ Goto(r, "sms")
  /\ UNCHANGED <<now, budgets, judged, registered, ctx, reply>>

SendSms(r) ==
  /\ pc[r] = "sms"
  /\ Answer(r, "sent")
  /\ UNCHANGED <<now, budgets, challenge, lock, judged, registered, ctx>>

-----------------------------------------------------------------------------
(* verify_challenge and the login that follows it                          *)

(* Mutant: the attempt is counted after the comparison.                    *)
VerdictLate(row, right) ==
  CASE row.consumed -> "replay"
    [] ~row.consumed /\ row.expires <= now -> "expired"
    [] ~row.consumed /\ now < row.expires /\ MaxAttempts < row.attempts -> "exhausted"
    [] OTHER -> IF right THEN "ok" ELSE "wrong"

(* The attempt in hand counts.                                             *)
VerdictOn(row, right) ==
  CASE row.consumed -> "replay"
    [] ~row.consumed /\ row.expires <= now -> "expired"
    [] ~row.consumed /\ now < row.expires /\ MaxAttempts < row.attempts + 1 -> "exhausted"
    [] OTHER -> IF right THEN "ok" ELSE "wrong"

(* Mutant: SELECT without FOR UPDATE.                                      *)
SelectUnlocked(r) ==
  /\ pc[r] = "select" /\ ctx[r].target \in Stored
  /\ LET row == challenge[ctx[r].target] IN
       ctx' = [ctx EXCEPT ![r].seen = row.attempts,
                          ![r].verdict = VerdictOn(row, ctx[r].right)]
  /\ Goto(r, "verdict")
  /\ UNCHANGED <<now, budgets, challenge, lock, judged, registered, reply>>

(* SELECT ... FOR UPDATE, and what follows it up to the commit.            *)
Select(r) ==
  /\ pc[r] = "select" /\ ctx[r].target \in Stored
  /\ lock[ctx[r].target] = None
  /\ lock' = [lock EXCEPT ![ctx[r].target] = r]
  /\ LET row == challenge[ctx[r].target] IN
       ctx' = [ctx EXCEPT ![r].seen = row.attempts,
                          ![r].verdict = VerdictOn(row, ctx[r].right)]
  /\ Goto(r, "verdict")
  /\ UNCHANGED <<now, budgets, challenge, judged, registered, reply>>

SelectNothing(r) ==
  /\ pc[r] = "select" /\ ctx[r].target \notin Stored
  /\ Answer(r, "refused")
  /\ UNCHANGED <<now, budgets, challenge, lock, judged, registered, ctx>>

CommitVerdict(r) ==
  /\ pc[r] = "verdict" /\ ctx[r].target \in Stored
  /\ challenge' = [challenge EXCEPT
                     ![ctx[r].target].attempts = ctx[r].seen + 1,
                     ![ctx[r].target].consumed = @ \/ ctx[r].verdict \in {"exhausted", "ok"}]
  /\ judged' = judged \cup {r}
  /\ Unlock(r)
  /\ IF ctx[r].verdict = "ok"
     THEN Goto(r, "account") /\ UNCHANGED reply
     ELSE Answer(r, "refused")
  /\ UNCHANGED <<now, budgets, registered, ctx>>

FindAccount(r) ==
  /\ pc[r] = "account"
  /\ ctx' = [ctx EXCEPT ![r].isNew = ~registered]
  /\ Goto(r, "login")
  /\ UNCHANGED <<now, budgets, challenge, lock, judged, registered, reply>>

(* The account, if there was none, and the session are one transaction;    *)
(* phone_hash is unique.                                                   *)
Login(r) ==
  /\ pc[r] = "login"
  /\ IF ctx[r].isNew /\ registered
     THEN Answer(r, "error") /\ UNCHANGED registered
     ELSE Answer(r, "session") /\ registered' = TRUE
  /\ UNCHANGED <<now, budgets, challenge, lock, judged, ctx>>

-----------------------------------------------------------------------------
(* A timeout, a provider's refusal, a suspended account, a lost answer, a  *)
(* deadlock of two superseding UPDATEs.                                    *)
Fail(r) ==
  /\ pc[r] \notin {"idle", "done"}
  /\ Unlock(r)
  /\ Answer(r, "error")
  /\ UNCHANGED <<now, budgets, challenge, judged, registered, ctx>>

(* purge_expired_otp, for one row.                                         *)
Purge(c) ==
  /\ c \in Stored /\ lock[c] = None
  /\ challenge[c].expires + Retention < now
  /\ challenge' = [challenge EXCEPT ![c] = None]
  /\ UNCHANGED <<now, budgets, lock, judged, registered, pc, ctx, reply>>

Tick ==
  /\ now < MaxTime
  /\ \A r \in Requests : pc[r] = "limit" => now < ctx[r].stamp + MaxDelay
  /\ now' = now + 1
  /\ UNCHANGED <<budgets, challenge, lock, judged, registered, pc, ctx, reply>>

Finished == (\A r \in Requests : pc[r] = "done") /\ UNCHANGED vars

Next ==
  \/ \E r \in Requests :
       \/ RequestCode(r)
       \/ \E c \in Requests, right \in BOOLEAN : SubmitCode(r, c, right)
       \/ Enforce(r)
       \/ BeginSupersede(r) \/ (\E c \in Requests : Supersede(r, c))
       \/ CommitChallenge(r) \/ SendSms(r)
       \/ Select(r) \/ SelectNothing(r) \/ CommitVerdict(r)
       \/ FindAccount(r) \/ Login(r)
       \/ Fail(r)
  \/ \E c \in Requests : Purge(c)
  \/ Tick
  \/ Finished

Spec == Init /\ [][Next]_vars

-----------------------------------------------------------------------------
(* Of all the requests that carry the right code of a challenge, however   *)
(* concurrent, one is accepted.                                            *)
Accepted(c) == {r \in judged : ctx[r].target = c /\ ctx[r].verdict = "ok"}

SingleUse == \A c \in Requests : \A r, s \in Accepted(c) : r = s

(* No more than MaxAttempts guesses at a code are ever compared in earnest,*)
(* although they run concurrently and may fail half-way.                   *)
GuessesBounded ==
  \A c \in Requests :
    Cardinality({r \in judged : ctx[r].target = c /\ ctx[r].verdict \in {"wrong", "ok"}})
      <= MaxAttempts

(* What superseding does achieve: once a new code is stored, no code that  *)
(* was stored when its request came to supersede is live.                  *)
SupersededIsDead == \A r \in Stored : ctx[r].known \cap Live = {}

(* Of one budget, the calls admitted within a window, less the delay       *)
(* between a caller's clock and the script, carry no more different stamps *)
(* than the limit.                                                         *)
Called(b) == {r \in Requests : ctx[r] # None /\ ctx[r].op = b /\ ctx[r].at # None}
Granted(b) == {r \in Called(b) : reply[r] # "rate_limited"}
Stamps(b, from, to) == {ctx[s].stamp : s \in {q \in Granted(b) : ctx[q].at \in from..to}}

BudgetKept ==
  \A b \in {"request", "verify"} : \A r \in Granted(b) :
    LET t == ctx[r].at IN
      Cardinality(Stamps(b, t - (Window - MaxDelay) + 1, t)) <= Limit[b]

(* And nobody is refused unless the limit was reached within a window and  *)
(* that delay.                                                             *)
RefusalJustified ==
  \A b \in {"request", "verify"} : \A r \in Called(b) \ Granted(b) :
    LET t == ctx[r].at IN
      Cardinality(Stamps(b, t - (Window + MaxDelay) + 1, t)) >= Limit[b]

-----------------------------------------------------------------------------
(* What the source says and concurrent requests do not keep.               *)

(* otp.py:62, "only one code is ever live per number".                     *)
OneLiveCode == \A c, d \in Live : c = d

(* ratelimit.py:53, "3 codes per number per 15 min": stamps are no calls.  *)
EveryCallCounts ==
  \A b \in {"request", "verify"} : \A r \in Granted(b) :
    LET t == ctx[r].at IN
      Cardinality({s \in Granted(b) : ctx[s].at \in (t - Window + 1)..t}) <= Limit[b]

=============================================================================
