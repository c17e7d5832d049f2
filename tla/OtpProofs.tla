------------------------------ MODULE OtpProofs ------------------------------
(***************************************************************************)
(* The safety of Otp, proved for any requests, limits and times.  A row is *)
(* held from the SELECT of a verification to its commit, so that what was  *)
(* read of it is still true then (VerdictOf), and by the superseding       *)
(* UPDATE until its challenge is stored (SupersedeOf).  A bucket has every *)
(* stamp that was granted within the last window (BucketOf).               *)
(***************************************************************************)
EXTENDS Otp, FiniteSetTheorems, TLAPS

Verifying == {"select", "verdict", "account", "login"}

(* A request whose challenge is stored, or will never be.                  *)
Closed(c) == pc[c] \in {"sms", "done"}

Guesses(c) == {r \in judged : ctx[r].target = c /\ ctx[r].verdict \in {"wrong", "ok"}}

(* What each step may rely on of its own request.                          *)
ControlOf(r) ==
  /\ IF pc[r] = "idle" THEN ctx[r] = None ELSE ctx[r] \in Context
  /\ pc[r] # "done" => reply[r] = None
  /\ pc[r] \in {"supersede", "visit", "sms"} => ctx[r].op = "request"
  /\ pc[r] \in Verifying => ctx[r].op = "verify"
  /\ pc[r] # "idle" =>
       /\ ctx[r].op = "verify" => pc[ctx[r].target] = "done"
       /\ \A c \in ctx[r].known : Closed(c)

(* The clock its budget was charged by.                                    *)
ClockOf(r) ==
  pc[r] # "idle" =>
    /\ ctx[r].stamp <= now
    /\ pc[r] = "limit" => ctx[r].at = None /\ now <= ctx[r].stamp + MaxDelay
    /\ ctx[r].at # None =>
         ctx[r].stamp <= ctx[r].at /\ ctx[r].at <= ctx[r].stamp + MaxDelay /\ ctx[r].at <= now

(* A superseding UPDATE has dealt with the rows it does not wait for, and  *)
(* holds the live ones of them.                                            *)
SupersedeOf(r) ==
  /\ pc[r] = "visit" =>
       \A c \in ctx[r].known : c \in ctx[r].waiting \/ lock[c] = r \/ c \notin Live
  /\ r \in Stored => Closed(r) /\ ctx[r].known \cap Live = {}

(* A verdict is of the row as it still is, and is committed once.          *)
VerdictOf(r) ==
  /\ pc[r] = "verdict" =>
       LET c == ctx[r].target IN
         /\ c \in Stored /\ lock[c] = r /\ ctx[r].seen = challenge[c].attempts
         /\ ctx[r].verdict \in {"wrong", "ok"} => c \in Live /\ ctx[r].seen < MaxAttempts
  /\ r \in judged =>
       /\ pc[r] \in {"account", "login", "done"} /\ ctx[r].op = "verify"
       /\ ctx[r].verdict = "ok" => ctx[r].target \notin Live

StateOf(r) == ControlOf(r) /\ ClockOf(r) /\ SupersedeOf(r) /\ VerdictOf(r)

Control == \A r \in Requests : StateOf(r)

(* Attempts count the guesses at a row for as long as it is there.         *)
Counted ==
  /\ IsFiniteSet(judged)
  /\ \A c \in Requests :
       /\ Cardinality(Guesses(c)) <= MaxAttempts
       /\ c \in Stored => Cardinality(Guesses(c)) <= challenge[c].attempts

(* A bucket has the stamps of the calls that were granted, and has not     *)
(* forgotten one of the last window.                                       *)
BucketOf(b) ==
  /\ \A s \in Granted(b) :
       /\ now < ctx[s].stamp + Window => ctx[s].stamp \in bucket[b]
       /\ ctx[s].at + Window <= expiry[b]
  /\ \A t \in bucket[b] : \E s \in Granted(b) : ctx[s].stamp = t

Buckets == \A b \in {"request", "verify"} : BucketOf(b)

LocksHaveRows == \A c \in Requests : lock[c] # None => c \in Stored

Core == TypeOK /\ LocksHaveRows /\ Control

Inv ==
  /\ Core
  /\ SingleUse /\ Counted
  /\ Buckets /\ BudgetKept /\ RefusalJustified

-----------------------------------------------------------------------------
(* The parts every step is made of                                         *)

(* NULL is no key, no number and no context.                               *)
LEMMA Distinct ==
  None \notin Requests /\ None \notin Nat /\ None \notin Context /\ None \notin Reply
BY OtpAssumption, NullAssumption DEF OtpAssumption, NullAssumption

(* A request that moves on moves alone.                                    *)
LEMMA GotoStep ==
  ASSUME TypeOK, NEW r \in Requests, NEW label \in PC, Goto(r, label)
  PROVE  /\ pc' \in [Requests -> PC]
         /\ pc'[r] = label
         /\ \A q \in Requests \ {r} : pc'[q] = pc[q]
BY DEF TypeOK, Goto

(* An answered request is done.                                            *)
LEMMA AnswerStep ==
  ASSUME TypeOK, NEW r \in Requests, NEW what \in Reply, Answer(r, what)
  PROVE  /\ pc' \in [Requests -> PC] /\ reply' \in [Requests -> Reply \cup {None}]
         /\ pc'[r] = "done" /\ reply'[r] = what
         /\ \A q \in Requests \ {r} : pc'[q] = pc[q] /\ reply'[q] = reply[q]
<1>1. "done" \in PC
  BY DEF PC
<1> QED BY <1>1, GotoStep DEF TypeOK, Answer

(* The end of a transaction frees its own rows only.                       *)
LEMMA UnlockStep ==
  ASSUME TypeOK, NEW r \in Requests, Unlock(r)
  PROVE  /\ lock' \in [Requests -> Requests \cup {None}]
         /\ \A c \in Requests :
              IF lock[c] = r THEN lock'[c] = None ELSE lock'[c] = lock[c]
BY Distinct DEF TypeOK, Unlock

(* What r's step (or a step of nobody) leaves to the others: their place,  *)
(* the rows they hold, and dead codes.                                     *)
Spares(r) ==
  /\ now' = now
  /\ \A q \in Requests \ {r} :
       /\ pc'[q] = pc[q] /\ ctx'[q] = ctx[q] /\ reply'[q] = reply[q]
       /\ q \in judged' <=> q \in judged
       /\ q \in Stored' => q \in Stored
  /\ \A q \in Requests : (Closed(q) => Closed(q)') /\ (pc[q] = "done" => pc'[q] = "done")
  /\ \A c \in Requests : lock[c] \in Requests \ {r} =>
       lock'[c] = lock[c] /\ challenge'[c] = challenge[c]
  /\ \A c \in Requests : Closed(c) /\ c \in Live' => c \in Live

(* Those who are spared keep what they rely on.                            *)
LEMMA SparedKeepState ==
  ASSUME Core, NEW r, Spares(r), NEW q \in Requests, q # r
  PROVE  StateOf(q)'
<1>1. TypeOK /\ StateOf(q)
  BY DEF Core, Control
<1>2. /\ now' = now /\ pc'[q] = pc[q] /\ ctx'[q] = ctx[q] /\ reply'[q] = reply[q]
      /\ q \in judged' <=> q \in judged
      /\ q \in Stored' => q \in Stored
  BY DEF Spares
<1>3. \A c \in Requests : (Closed(c) => Closed(c)') /\ (pc[c] = "done" => pc'[c] = "done")
  BY DEF Spares
<1>4. \A c \in Requests : lock[c] = q => lock'[c] = q /\ challenge'[c] = challenge[c]
  BY DEF Spares
<1>5. \A c \in Requests : Closed(c) /\ c \notin Live => c \notin Live'
  BY DEF Spares
<1>6. CASE pc[q] = "idle"
  <2>1. ~Closed(q) /\ q \notin Stored /\ q \notin judged
    BY <1>1, <1>6 DEF StateOf, SupersedeOf, VerdictOf, Closed
  <2> QED BY <1>1, <1>2, <1>6, <2>1 DEF StateOf, ControlOf, ClockOf, SupersedeOf, VerdictOf, Verifying
<1>7. CASE pc[q] # "idle"
  <2>1. /\ ctx[q] \in Context /\ ctx[q].target \in Requests /\ ctx[q].known \subseteq Requests
    BY <1>1, <1>7 DEF StateOf, ControlOf, Context
  <2>2. ControlOf(q)'
    BY <1>1, <1>2, <1>3, <1>7, <2>1 DEF StateOf, ControlOf, Verifying
  <2>3. ClockOf(q)'
    BY <1>1, <1>2 DEF StateOf, ClockOf
  <2>4. SupersedeOf(q)'
    <3>1. \A c \in ctx[q].known : Closed(c)
      BY <1>1, <1>7 DEF StateOf, ControlOf
    <3>2. pc[q] = "visit" =>
            \A c \in ctx[q].known : c \in ctx[q].waiting \/ lock'[c] = q \/ c \notin Live'
      BY <1>1, <1>4, <1>5, <2>1, <3>1 DEF StateOf, SupersedeOf
    <3>3. q \in Stored => Closed(q)' /\ ctx[q].known \cap Live' = {}
      BY <1>1, <1>3, <1>5, <2>1, <3>1 DEF StateOf, SupersedeOf
    <3> QED BY <1>2, <3>2, <3>3 DEF SupersedeOf
  <2>5. VerdictOf(q)'
    <3>1. pc[q] = "verdict" =>
            LET c == ctx[q].target IN
              /\ c \in Stored' /\ lock'[c] = q /\ ctx[q].seen = challenge'[c].attempts
              /\ ctx[q].verdict \in {"wrong", "ok"} => c \in Live' /\ ctx[q].seen < MaxAttempts
      BY <1>1, <1>4, <2>1 DEF StateOf, VerdictOf, Stored, Live
    <3>2. q \in judged => (ctx[q].verdict = "ok" => ctx[q].target \notin Live')
      BY <1>1, <1>5, <1>7, <2>1 DEF StateOf, ControlOf, VerdictOf, Closed
    <3> QED BY <1>1, <1>2, <3>1, <3>2 DEF StateOf, VerdictOf
  <2> QED BY <2>2, <2>3, <2>4, <2>5 DEF StateOf
<1> QED BY <1>6, <1>7

(* So a step of r has to see to what r itself relies on.                   *)
LEMMA OwnState ==
  ASSUME Core, NEW r \in Requests, Spares(r), StateOf(r)'
  PROVE  Control'
BY SparedKeepState DEF Control

(* A step changes no call that was charged to a budget ...                 *)
CallsStand ==
  \A q \in Requests :
    LET charged == ctx[q] # None /\ ctx[q].at # None IN
      /\ charged <=> ctx'[q] # None /\ ctx'[q].at # None
      /\ charged => /\ ctx'[q].op = ctx[q].op
                    /\ ctx'[q].at = ctx[q].at /\ ctx'[q].stamp = ctx[q].stamp
                    /\ reply'[q] = "rate_limited" <=> reply[q] = "rate_limited"

(* ... and no verdict that was committed, nor what was counted of them.    *)
LedgerStands ==
  /\ judged' = judged
  /\ \A q \in judged : ctx'[q].target = ctx[q].target /\ ctx'[q].verdict = ctx[q].verdict
  /\ \A c \in Stored' :
       \/ c \in Stored /\ challenge'[c].attempts = challenge[c].attempts
       \/ Guesses(c) = {} /\ challenge'[c].attempts \in Nat

-----------------------------------------------------------------------------
(* The steps                                                               *)

(* Rows, locks and verdicts are as they were.                              *)
LEMMA RowsSame ==
  ASSUME Core, NEW r \in Requests, UNCHANGED <<now, challenge, lock, judged>>,
         \A q \in Requests \ {r} : pc'[q] = pc[q] /\ ctx'[q] = ctx[q] /\ reply'[q] = reply[q],
         Closed(r) => Closed(r)', pc[r] # "done",
         pc[r] # "idle" => ctx'[r].target = ctx[r].target /\ ctx'[r].verdict = ctx[r].verdict
  PROVE  /\ Spares(r) /\ LocksHaveRows' /\ LedgerStands
         /\ Stored' = Stored /\ Live' = Live
<1>1. Stored' = Stored /\ Live' = Live
  BY DEF Stored, Live
<1>2. LocksHaveRows'
  BY <1>1 DEF Core, LocksHaveRows
<1>3. Spares(r)
  BY <1>1 DEF Spares, Closed
<1>4. judged \subseteq Requests /\ (r \in judged => pc[r] # "idle")
  BY DEF Core, TypeOK, Control, StateOf, VerdictOf
<1>5. LedgerStands
  <2>1. \A q \in judged : ctx'[q].target = ctx[q].target /\ ctx'[q].verdict = ctx[q].verdict
    BY <1>4
  <2> QED BY <1>1, <2>1 DEF LedgerStands
<1> QED BY <1>1, <1>2, <1>3, <1>5

(* A request that arrives has not been charged yet.                        *)
LEMMA ArriveStep ==
  ASSUME Core, NEW r \in Requests, NEW op \in {"request", "verify"}, NEW c \in Requests,
         NEW right \in BOOLEAN, Arrive(r, op, c, right), op = "verify" => pc[c] = "done"
  PROVE  Core' /\ CallsStand /\ LedgerStands
<1> USE Distinct
<1>1. PICK new : new = [op |-> op, target |-> c, right |-> right, stamp |-> now, at |-> None,
                        known |-> {}, waiting |-> {}, seen |-> 0, verdict |-> None,
                        isNew |-> FALSE]
  OBVIOUS
<1>2. /\ new \in Context /\ new.op = op /\ new.target = c /\ new.stamp = now /\ new.at = None
      /\ new.known = {} /\ new.verdict = None /\ now \in Nat
  BY <1>1 DEF Context, Core, TypeOK
<1>3. /\ ctx' = [ctx EXCEPT ![r] = new] /\ pc[r] = "idle"
      /\ UNCHANGED <<now, budgets, challenge, lock, judged, registered, reply>>
      /\ Goto(r, "limit")
  BY <1>1 DEF Arrive
<1>4. "limit" \in PC
  BY DEF PC
<1>5. /\ ctx' \in [Requests -> Context \cup {None}] /\ ctx'[r] = new
      /\ \A q \in Requests \ {r} : ctx'[q] = ctx[q]
  BY <1>2, <1>3 DEF Core, TypeOK
<1>6. /\ pc' \in [Requests -> PC] /\ pc'[r] = "limit"
      /\ \A q \in Requests \ {r} : pc'[q] = pc[q]
  BY <1>3, <1>4, GotoStep DEF Core
<1>7. TypeOK'
  BY <1>3, <1>5, <1>6 DEF Core, TypeOK, budgets, BudgetsTypeOK
<1>8. StateOf(r) /\ ~Closed(r) /\ r \notin Stored /\ r \notin judged /\ ctx[r] = None
  BY <1>3 DEF Core, Control, StateOf, ControlOf, SupersedeOf, VerdictOf, Closed
<1>9. /\ Spares(r) /\ LocksHaveRows' /\ LedgerStands
      /\ Stored' = Stored /\ Live' = Live
  BY <1>3, <1>5, <1>6, <1>8, RowsSame
<1>10. ControlOf(r)'
  <2>1. pc[r] # "done" => reply[r] = None
    BY <1>8 DEF StateOf, ControlOf
  <2> QED BY <1>2, <1>3, <1>5, <1>6, <2>1 DEF ControlOf, Verifying
<1>11. ClockOf(r)'
  BY <1>2, <1>3, <1>5, <1>6, OtpAssumption DEF ClockOf, OtpAssumption
<1>12. SupersedeOf(r)' /\ VerdictOf(r)'
  BY <1>3, <1>6, <1>8, <1>9 DEF SupersedeOf, VerdictOf
<1>13. Control'
  BY <1>9, <1>10, <1>11, <1>12, OwnState DEF StateOf
<1>14. CallsStand
  BY <1>2, <1>3, <1>5, <1>8 DEF CallsStand
<1> QED BY <1>7, <1>9, <1>13, <1>14 DEF Core

(* Each answer that needs no row.                                          *)
LEMMA AnswerKeeps ==
  ASSUME Core, NEW r \in Requests, NEW what \in Reply \ {"rate_limited"}, Answer(r, what),
         pc[r] \notin {"idle", "done"},
         UNCHANGED <<now, budgets, challenge, lock, judged, ctx>>, registered' \in BOOLEAN
  PROVE  Core' /\ CallsStand /\ LedgerStands
<1>1. /\ pc' \in [Requests -> PC] /\ reply' \in [Requests -> Reply \cup {None}]
      /\ pc'[r] = "done" /\ reply'[r] = what
      /\ \A q \in Requests \ {r} : pc'[q] = pc[q] /\ reply'[q] = reply[q]
  BY AnswerStep DEF Core
<1>2. TypeOK'
  BY <1>1 DEF Core, TypeOK, budgets, BudgetsTypeOK
<1>3. StateOf(r) /\ ctx[r] \in Context
  BY DEF Core, Control, StateOf, ControlOf
<1>4. /\ Spares(r) /\ LocksHaveRows' /\ LedgerStands
      /\ Stored' = Stored /\ Live' = Live
  BY <1>1, RowsSame DEF Closed
<1>5. Closed(r)' /\ \A c \in Requests : Closed(c) => Closed(c)'
  BY <1>1, <1>4 DEF Closed, Spares
<1>6. ControlOf(r)'
  <2>1. /\ ctx[r].op = "verify" => pc'[ctx[r].target] = "done"
        /\ \A c \in ctx[r].known : Closed(c)'
    BY <1>3, <1>4, <1>5 DEF StateOf, ControlOf, Context, Spares
  <2> QED BY <1>1, <1>3, <2>1 DEF ControlOf, Verifying
<1>7. ClockOf(r)'
  BY <1>1, <1>3 DEF StateOf, ClockOf
<1>8. SupersedeOf(r)'
  BY <1>1, <1>3, <1>4, <1>5 DEF StateOf, SupersedeOf
<1>9. VerdictOf(r)'
  BY <1>1, <1>3, <1>4 DEF StateOf, VerdictOf
<1>10. CallsStand
  <2>1. reply[r] = None /\ what # "rate_limited" /\ None # "rate_limited"
    BY <1>3, Distinct DEF StateOf, ControlOf, Reply
  <2> QED BY <1>1, <2>1 DEF CallsStand
<1>11. Control'
  BY <1>4, <1>6, <1>7, <1>8, <1>9, OwnState DEF StateOf
<1> QED BY <1>2, <1>4, <1>10, <1>11 DEF Core

(* A call is charged to its budget, or refused.                            *)
LEMMA EnforceStep ==
  ASSUME Core, NEW r \in Requests, Enforce(r)
  PROVE  Core' /\ LedgerStands
<1> USE Distinct
<1>1. PICK granted \in BOOLEAN :
        /\ Spend(ctx[r].op, ctx[r].stamp, now, granted)
        /\ IF granted
           THEN Goto(r, IF ctx[r].op = "request" THEN "supersede" ELSE "select")
                /\ UNCHANGED reply
           ELSE Answer(r, "rate_limited")
  BY DEF Enforce
<1>2. /\ pc[r] = "limit" /\ ctx' = [ctx EXCEPT ![r].at = now]
      /\ UNCHANGED <<now, challenge, lock, judged, registered>>
  BY DEF Enforce
<1>3. /\ StateOf(r) /\ ctx[r] \in Context /\ now \in Nat /\ reply[r] = None
      /\ r \notin Stored /\ r \notin judged
  BY <1>2 DEF Core, Control, StateOf, ControlOf, SupersedeOf, VerdictOf, Closed, TypeOK
<1>4. PICK new : new = [ctx[r] EXCEPT !.at = now]
  OBVIOUS
<1>5. /\ new \in Context /\ new.op = ctx[r].op /\ new.target = ctx[r].target
      /\ new.stamp = ctx[r].stamp /\ new.at = now
      /\ new.known = ctx[r].known /\ new.verdict = ctx[r].verdict
  BY <1>3, <1>4 DEF Context
<1>6. /\ ctx' \in [Requests -> Context \cup {None}] /\ ctx'[r] = new
      /\ \A q \in Requests \ {r} : ctx'[q] = ctx[q]
  BY <1>2, <1>4, <1>5 DEF Core, TypeOK
<1>7. /\ pc' \in [Requests -> PC] /\ reply' \in [Requests -> Reply \cup {None}]
      /\ \A q \in Requests \ {r} : pc'[q] = pc[q] /\ reply'[q] = reply[q]
      /\ \/ pc'[r] = "supersede" /\ ctx[r].op = "request" /\ reply'[r] = None
         \/ pc'[r] = "select" /\ ctx[r].op = "verify" /\ reply'[r] = None
         \/ pc'[r] = "done"
  <2>1. "supersede" \in PC /\ "select" \in PC /\ "rate_limited" \in Reply
    BY DEF PC, Reply
  <2>2. ctx[r].op \in {"request", "verify"}
    BY <1>3 DEF Context
  <2>3. CASE granted
    BY <1>1, <1>3, <2>1, <2>2, <2>3, GotoStep DEF Core, TypeOK
  <2>4. CASE ~granted
    BY <1>1, <2>1, <2>4, AnswerStep DEF Core
  <2> QED BY <2>3, <2>4
<1>8. BudgetsTypeOK'
  <2>1. ctx[r].op \in {"request", "verify"} /\ ctx[r].stamp \in Nat /\ Window \in Nat
    BY <1>3, OtpAssumption DEF Context, OtpAssumption
  <2>2. bucket \in [{"request", "verify"} -> SUBSET Nat] /\ expiry \in [{"request", "verify"} -> Nat]
    BY DEF Core, TypeOK, BudgetsTypeOK
  <2>3. PICK b, stamp, kept : b = ctx[r].op /\ stamp = ctx[r].stamp /\ kept = Kept(b, stamp, now)
    OBVIOUS
  <2>4. /\ bucket' = [bucket EXCEPT ![b] = IF granted THEN kept \cup {stamp} ELSE kept]
        /\ expiry' = [expiry EXCEPT ![b] = IF granted THEN now + Window ELSE @]
    BY <1>1, <2>3 DEF Spend
  <2>5. kept \subseteq Nat
    BY <2>1, <2>2, <2>3 DEF Kept
  <2> QED BY <1>3, <2>1, <2>2, <2>3, <2>4, <2>5 DEF BudgetsTypeOK
<1>9. TypeOK'
  BY <1>2, <1>6, <1>7, <1>8 DEF Core, TypeOK
<1>10. /\ Spares(r) /\ LocksHaveRows' /\ LedgerStands
       /\ Stored' = Stored /\ Live' = Live
  BY <1>2, <1>5, <1>6, <1>7, RowsSame DEF Closed
<1>11. ControlOf(r)'
  <2>1. \A c \in Requests : (Closed(c) => Closed(c)') /\ (pc[c] = "done" => pc'[c] = "done")
    BY <1>10 DEF Spares
  <2>2. /\ ctx[r].op = "verify" => pc'[ctx[r].target] = "done"
        /\ \A c \in ctx[r].known : Closed(c)'
    BY <1>2, <1>3, <2>1 DEF StateOf, ControlOf, Context
  <2> QED BY <1>5, <1>6, <1>7, <2>2 DEF ControlOf, Verifying
<1>12. ClockOf(r)'
  BY <1>2, <1>3, <1>5, <1>6, <1>7 DEF StateOf, ClockOf, Context
<1>13. SupersedeOf(r)' /\ VerdictOf(r)'
  BY <1>2, <1>3, <1>7, <1>10 DEF SupersedeOf, VerdictOf
<1>14. Control'
  BY <1>10, <1>11, <1>12, <1>13, OwnState DEF StateOf
<1> QED BY <1>9, <1>10, <1>14 DEF Core

(* The superseding UPDATE knows what is committed and waits for the live.  *)
LEMMA BeginSupersedeStep ==
  ASSUME Core, NEW r \in Requests, BeginSupersede(r)
  PROVE  Core' /\ CallsStand /\ LedgerStands
<1> USE Distinct
<1>1. /\ pc[r] = "supersede" /\ Goto(r, "visit")
      /\ UNCHANGED <<now, budgets, challenge, lock, judged, registered, reply>>
  BY DEF BeginSupersede
<1>2. /\ StateOf(r) /\ ctx[r] \in Context /\ r \notin Stored /\ r \notin judged
      /\ Stored \subseteq Requests /\ Live \subseteq Requests
  BY <1>1 DEF Core, Control, StateOf, ControlOf, SupersedeOf, VerdictOf, Closed, Stored, Live
<1>3. PICK new : new = [ctx[r] EXCEPT !.known = Stored, !.waiting = Live]
  OBVIOUS
<1>4. /\ new \in Context /\ new.op = ctx[r].op /\ new.target = ctx[r].target
      /\ new.stamp = ctx[r].stamp /\ new.at = ctx[r].at /\ new.verdict = ctx[r].verdict
      /\ new.known = Stored /\ new.waiting = Live
  BY <1>2, <1>3 DEF Context
<1>5. /\ ctx' \in [Requests -> Context \cup {None}] /\ ctx'[r] = new
      /\ \A q \in Requests \ {r} : ctx'[q] = ctx[q]
  <2>1. ctx' = [ctx EXCEPT ![r].known = Stored, ![r].waiting = Live]
    BY DEF BeginSupersede
  <2> QED BY <1>2, <1>3, <1>4, <2>1 DEF Core, TypeOK
<1>6. /\ pc' \in [Requests -> PC] /\ pc'[r] = "visit"
      /\ \A q \in Requests \ {r} : pc'[q] = pc[q]
  BY <1>1, GotoStep DEF Core, PC
<1>7. TypeOK'
  BY <1>1, <1>5, <1>6 DEF Core, TypeOK, budgets, BudgetsTypeOK
<1>8. /\ Spares(r) /\ LocksHaveRows' /\ LedgerStands
      /\ Stored' = Stored /\ Live' = Live
  BY <1>1, <1>2, <1>4, <1>5, <1>6, RowsSame DEF Closed
<1>9. ControlOf(r)'
  <2>1. \A c \in Stored : Closed(c)'
    BY <1>2, <1>8 DEF Spares, Core, Control, StateOf, SupersedeOf
  <2>2. ctx[r].op = "request" /\ reply[r] = None
    BY <1>1, <1>2 DEF StateOf, ControlOf
  <2> QED BY <1>1, <1>4, <1>5, <1>6, <2>1, <2>2 DEF ControlOf, Verifying
<1>10. ClockOf(r)'
  BY <1>1, <1>2, <1>4, <1>5, <1>6 DEF StateOf, ClockOf
<1>11. SupersedeOf(r)' /\ VerdictOf(r)'
  BY <1>1, <1>2, <1>4, <1>5, <1>6, <1>8 DEF SupersedeOf, VerdictOf
<1>12. Control'
  BY <1>8, <1>9, <1>10, <1>11, OwnState DEF StateOf
<1>13. CallsStand
  BY <1>1, <1>2, <1>4, <1>5 DEF CallsStand
<1> QED BY <1>7, <1>8, <1>12, <1>13 DEF Core

(* It takes the rows that are still live, one by one.                      *)
LEMMA SupersedeStep ==
  ASSUME Core, NEW r \in Requests, NEW c \in Requests, Supersede(r, c)
  PROVE  Core' /\ CallsStand /\ LedgerStands
<1> USE Distinct
<1>1. /\ pc[r] = "visit" /\ c \in ctx[r].waiting /\ lock[c] = None
      /\ lock' = IF c \in Live THEN [lock EXCEPT ![c] = r] ELSE lock
      /\ UNCHANGED <<now, budgets, challenge, judged, registered, pc, reply>>
  BY DEF Supersede
<1>2. StateOf(r) /\ ctx[r] \in Context /\ r \notin Stored /\ r \notin judged /\ ctx[r].op = "request"
  BY <1>1 DEF Core, Control, StateOf, ControlOf, SupersedeOf, VerdictOf, Closed
<1>3. PICK new : new = [ctx[r] EXCEPT !.waiting = @ \ {c}]
  OBVIOUS
<1>4. /\ new \in Context /\ new.op = ctx[r].op /\ new.target = ctx[r].target
      /\ new.stamp = ctx[r].stamp /\ new.at = ctx[r].at /\ new.verdict = ctx[r].verdict
      /\ new.known = ctx[r].known /\ new.waiting = ctx[r].waiting \ {c}
  BY <1>2, <1>3 DEF Context
<1>5. /\ ctx' \in [Requests -> Context \cup {None}] /\ ctx'[r] = new
      /\ \A q \in Requests \ {r} : ctx'[q] = ctx[q]
  <2>1. ctx' = [ctx EXCEPT ![r].waiting = @ \ {c}]
    BY DEF Supersede
  <2> QED BY <1>2, <1>3, <1>4, <2>1 DEF Core, TypeOK
<1>6. /\ lock' \in [Requests -> Requests \cup {None}]
      /\ \A d \in Requests : lock[d] # None => lock'[d] = lock[d]
      /\ \A d \in Requests : lock'[d] # None => lock[d] # None \/ d \in Live
      /\ c \in Live => lock'[c] = r
  BY <1>1 DEF Core, TypeOK
<1>7. TypeOK'
  BY <1>1, <1>5, <1>6 DEF Core, TypeOK, budgets, BudgetsTypeOK
<1>8. Stored' = Stored /\ Live' = Live
  BY <1>1 DEF Stored, Live
<1>9. LocksHaveRows'
  BY <1>6, <1>8 DEF Core, LocksHaveRows, Live
<1>10. Spares(r)
  BY <1>1, <1>5, <1>6, <1>8 DEF Spares, Closed
<1>11. ControlOf(r)'
  BY <1>1, <1>2, <1>4, <1>5 DEF StateOf, ControlOf, Verifying, Closed
<1>12. ClockOf(r)'
  BY <1>1, <1>2, <1>4, <1>5 DEF StateOf, ClockOf
<1>13. SupersedeOf(r)'
  <2>1. ctx[r].known \subseteq Requests
    BY <1>2 DEF Context
  <2>2. \A d \in ctx[r].known : d \in ctx[r].waiting \ {c} \/ lock'[d] = r \/ d \notin Live
    BY <1>1, <1>2, <1>6, <2>1 DEF StateOf, SupersedeOf
  <2> QED BY <1>2, <1>4, <1>5, <1>8, <2>2 DEF SupersedeOf
<1>14. VerdictOf(r)'
  BY <1>1, <1>2 DEF VerdictOf
<1>15. Control'
  BY <1>10, <1>11, <1>12, <1>13, <1>14, OwnState DEF StateOf
<1>16. CallsStand
  BY <1>1, <1>2, <1>4, <1>5 DEF CallsStand
<1>17. LedgerStands
  <2>1. judged \subseteq Requests
    BY DEF Core, TypeOK
  <2> QED BY <1>1, <1>2, <1>5, <1>8, <2>1 DEF LedgerStands
<1> QED BY <1>7, <1>9, <1>15, <1>16, <1>17 DEF Core

(* The new code is stored and those it superseded are consumed.            *)
LEMMA CommitChallengeStep ==
  ASSUME Core, NEW r \in Requests, CommitChallenge(r)
  PROVE  Core' /\ CallsStand /\ LedgerStands
<1> USE Distinct
<1>1. /\ pc[r] = "visit" /\ ctx[r].waiting = {} /\ Unlock(r) /\ Goto(r, "sms")
      /\ UNCHANGED <<now, budgets, judged, registered, ctx, reply>>
  BY DEF CommitChallenge
<1>2. /\ StateOf(r) /\ ctx[r] \in Context /\ r \notin Stored /\ r \notin judged
      /\ ctx[r].op = "request" /\ reply[r] = None /\ ~Closed(r)
  BY <1>1 DEF Core, Control, StateOf, ControlOf, SupersedeOf, VerdictOf, Closed
<1>3. PICK fresh : fresh = [consumed |-> FALSE, attempts |-> 0, expires |-> now + Ttl]
  OBVIOUS
<1>4. fresh \in Row /\ fresh.attempts = 0
  BY <1>3, OtpAssumption DEF Row, OtpAssumption, Core, TypeOK
<1>5. \A c \in Requests : lock[c] = r => c \in Stored /\ challenge[c] \in Row
  BY DEF Core, LocksHaveRows, Stored, TypeOK
<1>6. /\ challenge'[r] = fresh
      /\ \A c \in Requests \ {r} :
           IF lock[c] = r
           THEN /\ challenge'[c] \in Row /\ challenge'[c].consumed
                /\ challenge'[c].attempts = challenge[c].attempts
           ELSE challenge'[c] = challenge[c]
      /\ challenge' \in [Requests -> Row \cup {None}]
  <2>1. ASSUME NEW row \in Row
        PROVE  /\ [row EXCEPT !.consumed = TRUE] \in Row
               /\ [row EXCEPT !.consumed = TRUE].consumed
               /\ [row EXCEPT !.consumed = TRUE].attempts = row.attempts
    BY DEF Row
  <2>2. challenge' =
          [c \in Requests |->
             IF c = r THEN fresh
             ELSE IF lock[c] = r THEN [challenge[c] EXCEPT !.consumed = TRUE]
             ELSE challenge[c]]
    BY <1>3 DEF CommitChallenge
  <2>3. \A c \in Requests : challenge[c] \in Row \cup {None}
    BY DEF Core, TypeOK
  <2> QED BY <1>4, <1>5, <2>1, <2>2, <2>3
<1>7. /\ pc' \in [Requests -> PC] /\ pc'[r] = "sms"
      /\ \A q \in Requests \ {r} : pc'[q] = pc[q]
  BY <1>1, GotoStep DEF Core, PC
<1>8. /\ lock' \in [Requests -> Requests \cup {None}]
      /\ \A c \in Requests : IF lock[c] = r THEN lock'[c] = None ELSE lock'[c] = lock[c]
  BY <1>1, UnlockStep DEF Core
<1>9. TypeOK'
  BY <1>1, <1>6, <1>7, <1>8 DEF Core, TypeOK, budgets, BudgetsTypeOK
<1>10. /\ \A c \in Requests \ {r} : c \in Stored' => c \in Stored
       /\ \A c \in Requests \ {r} : c \in Live' => c \in Live /\ lock[c] # r
  BY <1>5, <1>6 DEF Stored, Live
<1>11. \A c \in Requests \ {r} : lock'[c] # None => c \in Stored'
  BY <1>6, <1>8 DEF Core, LocksHaveRows, Stored
<1>12. LocksHaveRows'
  <2>1. lock[r] = None
    BY <1>2 DEF Core, LocksHaveRows
  <2> QED BY <1>8, <1>11, <2>1 DEF LocksHaveRows
<1>13. Spares(r)
  <2>1. \A c \in Requests : lock[c] \in Requests \ {r} => c # r
    BY <1>2 DEF Core, LocksHaveRows
  <2> QED BY <1>1, <1>2, <1>6, <1>7, <1>8, <1>10, <2>1 DEF Spares, Closed
<1>14. Closed(r)' /\ \A c \in Requests : Closed(c) => Closed(c)'
  BY <1>7, <1>13 DEF Closed, Spares
<1>15. ControlOf(r)'
  <2>1. \A c \in ctx[r].known : Closed(c)'
    BY <1>1, <1>2, <1>14 DEF StateOf, ControlOf, Context
  <2> QED BY <1>1, <1>2, <1>7, <2>1 DEF ControlOf, Verifying
<1>16. ClockOf(r)'
  BY <1>1, <1>2, <1>7 DEF StateOf, ClockOf
<1>17. SupersedeOf(r)'
  <2>1. \A c \in ctx[r].known : c \in Requests /\ c # r /\ (lock[c] = r \/ c \notin Live)
    BY <1>1, <1>2 DEF StateOf, ControlOf, SupersedeOf, Context
  <2>2. ctx[r].known \cap Live' = {}
    BY <1>10, <2>1
  <2> QED BY <1>1, <1>7, <1>14, <2>2 DEF SupersedeOf
<1>18. VerdictOf(r)'
  BY <1>1, <1>2, <1>7 DEF VerdictOf
<1>19. Control'
  BY <1>13, <1>15, <1>16, <1>17, <1>18, OwnState DEF StateOf
<1>20. CallsStand
  BY <1>1 DEF CallsStand
<1>21. Guesses(r) = {}
  <2>1. \A q \in judged : q \in Requests /\ pc[q] # "idle" /\ ctx[q].op = "verify"
    BY DEF Core, TypeOK, Control, StateOf, VerdictOf
  <2>2. \A q \in judged : pc[ctx[q].target] = "done"
    BY <2>1 DEF Core, Control, StateOf, ControlOf
  <2>3. \A q \in judged : ctx[q].target # r
    BY <1>1, <2>2
  <2> QED BY <2>3 DEF Guesses
<1>22. LedgerStands
  <2>1. judged \subseteq Requests /\ Stored' \subseteq Requests
    BY DEF Core, TypeOK, Stored
  <2> QED BY <1>1, <1>4, <1>6, <1>10, <1>21, <2>1 DEF LedgerStands
<1> QED BY <1>9, <1>12, <1>19, <1>20, <1>22 DEF Core

(* A verification that locks the row judges the code.                      *)
LEMMA SelectStep ==
  ASSUME Core, NEW r \in Requests, Select(r)
  PROVE  Core' /\ CallsStand /\ LedgerStands
<1> USE Distinct
<1>1. /\ pc[r] = "select" /\ Goto(r, "verdict")
      /\ UNCHANGED <<now, budgets, challenge, judged, registered, reply>>
  BY DEF Select
<1>2. PICK c, row, verdict :
        /\ c = ctx[r].target /\ row = challenge[c] /\ verdict = VerdictOn(row, ctx[r].right)
  OBVIOUS
<1>3. /\ StateOf(r) /\ ctx[r] \in Context /\ r \notin Stored /\ r \notin judged
      /\ ctx[r].op = "verify" /\ ~Closed(r) /\ reply[r] = None
  BY <1>1 DEF Core, Control, StateOf, ControlOf, SupersedeOf, VerdictOf, Verifying, Closed
<1>4. c \in Requests /\ c \in Stored /\ row \in Row /\ lock[c] = None
  BY <1>2, <1>3 DEF Select, Context, Stored, Core, TypeOK
<1>5. /\ row.attempts \in Nat /\ row.expires \in Nat /\ row.consumed \in BOOLEAN
      /\ ctx[r].right \in BOOLEAN /\ now \in Nat /\ MaxAttempts \in Nat
  BY <1>3, <1>4, OtpAssumption DEF Row, Context, OtpAssumption, Core, TypeOK
<1>6. verdict \in Verdict /\ (verdict \in {"wrong", "ok"} => ~row.consumed /\ row.attempts < MaxAttempts)
  BY <1>2, <1>5 DEF VerdictOn, Verdict
<1>7. PICK new : new = [ctx[r] EXCEPT !.seen = row.attempts, !.verdict = verdict]
  OBVIOUS
<1>8. /\ new \in Context /\ new.op = ctx[r].op /\ new.target = c
      /\ new.stamp = ctx[r].stamp /\ new.at = ctx[r].at /\ new.verdict = verdict
      /\ new.seen = row.attempts /\ new.known = ctx[r].known
  BY <1>2, <1>3, <1>5, <1>6, <1>7 DEF Context
<1>9. /\ ctx' \in [Requests -> Context \cup {None}] /\ ctx'[r] = new
      /\ \A q \in Requests \ {r} : ctx'[q] = ctx[q]
  <2>1. ctx' = [ctx EXCEPT ![r].seen = row.attempts, ![r].verdict = verdict]
    BY <1>2 DEF Select
  <2> QED BY <1>3, <1>7, <1>8, <2>1 DEF Core, TypeOK
<1>10. /\ lock' \in [Requests -> Requests \cup {None}] /\ lock'[c] = r
       /\ \A d \in Requests \ {c} : lock'[d] = lock[d]
  BY <1>2, <1>4 DEF Select, Core, TypeOK
<1>11. /\ pc' \in [Requests -> PC] /\ pc'[r] = "verdict"
       /\ \A q \in Requests \ {r} : pc'[q] = pc[q]
  BY <1>1, GotoStep DEF Core, PC
<1>12. TypeOK'
  BY <1>1, <1>9, <1>10, <1>11 DEF Core, TypeOK, budgets, BudgetsTypeOK
<1>13. Stored' = Stored /\ Live' = Live
  BY <1>1 DEF Stored, Live
<1>14. LocksHaveRows'
  BY <1>4, <1>10, <1>13 DEF Core, LocksHaveRows
<1>15. Spares(r)
  BY <1>1, <1>3, <1>4, <1>9, <1>10, <1>11, <1>13 DEF Spares, Closed
<1>16. ControlOf(r)'
  <2>1. /\ pc'[c] = "done"
        /\ \A d \in ctx[r].known : Closed(d)'
    BY <1>1, <1>2, <1>3, <1>4, <1>15 DEF Spares, StateOf, ControlOf, Context
  <2> QED BY <1>1, <1>3, <1>8, <1>9, <1>11, <2>1 DEF ControlOf, Verifying
<1>17. ClockOf(r)'
  BY <1>1, <1>3, <1>8, <1>9, <1>11 DEF StateOf, ClockOf
<1>18. SupersedeOf(r)'
  BY <1>3, <1>11, <1>13 DEF SupersedeOf
<1>19. VerdictOf(r)'
  <2>1. verdict \in {"wrong", "ok"} => c \in Live /\ row.attempts < MaxAttempts
    BY <1>2, <1>4, <1>6 DEF Live
  <2> QED BY <1>1, <1>2, <1>3, <1>4, <1>8, <1>9, <1>10, <1>13, <2>1 DEF VerdictOf
<1>20. Control'
  BY <1>15, <1>16, <1>17, <1>18, <1>19, OwnState DEF StateOf
<1>21. CallsStand
  BY <1>1, <1>3, <1>8, <1>9 DEF CallsStand
<1>22. LedgerStands
  <2>1. judged \subseteq Requests
    BY DEF Core, TypeOK
  <2> QED BY <1>1, <1>3, <1>9, <1>13, <2>1 DEF LedgerStands
<1> QED BY <1>12, <1>14, <1>20, <1>21, <1>22 DEF Core

(* The attempt is counted and the outcome takes effect.                    *)
LEMMA CommitVerdictStep ==
  ASSUME Core, SingleUse, Counted, NEW r \in Requests, CommitVerdict(r)
  PROVE  Core' /\ CallsStand /\ SingleUse' /\ Counted'
<1> USE Distinct
<1>1. /\ pc[r] = "verdict" /\ ctx[r].target \in Stored
      /\ judged' = judged \cup {r} /\ Unlock(r)
      /\ IF ctx[r].verdict = "ok"
         THEN Goto(r, "account") /\ UNCHANGED reply
         ELSE Answer(r, "refused")
      /\ UNCHANGED <<now, budgets, registered, ctx>>
  BY DEF CommitVerdict
<1>2. PICK c : c = ctx[r].target
  OBVIOUS
<1>3. /\ StateOf(r) /\ ctx[r] \in Context /\ r \notin Stored /\ r \notin judged
      /\ ctx[r].op = "verify" /\ ~Closed(r) /\ reply[r] = None
  BY <1>1 DEF Core, Control, StateOf, ControlOf, SupersedeOf, VerdictOf, Verifying, Closed
<1>4. /\ c \in Requests /\ c \in Stored /\ challenge[c] \in Row /\ lock[c] = r
      /\ ctx[r].seen = challenge[c].attempts /\ challenge[c].attempts \in Nat
      /\ ctx[r].verdict \in {"wrong", "ok"} => c \in Live /\ ctx[r].seen < MaxAttempts
  BY <1>1, <1>2, <1>3 DEF StateOf, VerdictOf, Context, Stored, Core, TypeOK, Row
<1>5. PICK old, new :
        /\ old = [challenge[c] EXCEPT !.attempts = ctx[r].seen + 1]
        /\ new = [old EXCEPT !.consumed = @ \/ ctx[r].verdict \in {"exhausted", "ok"}]
  OBVIOUS
<1>6. /\ new \in Row /\ new.attempts = challenge[c].attempts + 1
      /\ new.consumed <=> challenge[c].consumed \/ ctx[r].verdict \in {"exhausted", "ok"}
  <2>1. /\ old \in Row /\ old.attempts = challenge[c].attempts + 1
        /\ old.consumed = challenge[c].consumed
    BY <1>4, <1>5 DEF Row
  <2> QED BY <1>5, <2>1 DEF Row
<1>7. /\ challenge' \in [Requests -> Row \cup {None}] /\ challenge'[c] = new
      /\ \A d \in Requests \ {c} : challenge'[d] = challenge[d]
  <2>1. challenge' = [challenge EXCEPT
                        ![c].attempts = ctx[r].seen + 1,
                        ![c].consumed = @ \/ ctx[r].verdict \in {"exhausted", "ok"}]
    BY <1>2 DEF CommitVerdict
  <2> QED BY <1>4, <1>5, <1>6, <2>1 DEF Core, TypeOK
<1>8. /\ pc' \in [Requests -> PC] /\ reply' \in [Requests -> Reply \cup {None}]
      /\ \A q \in Requests \ {r} : pc'[q] = pc[q] /\ reply'[q] = reply[q]
      /\ \/ pc'[r] = "account" /\ reply'[r] = None
         \/ pc'[r] = "done" /\ reply'[r] = "refused"
  <2>1. "account" \in PC /\ "refused" \in Reply
    BY DEF PC, Reply
  <2>2. CASE ctx[r].verdict = "ok"
    BY <1>1, <1>3, <2>1, <2>2, GotoStep DEF Core, TypeOK
  <2>3. CASE ctx[r].verdict # "ok"
    BY <1>1, <2>1, <2>3, AnswerStep DEF Core
  <2> QED BY <2>2, <2>3
<1>9. /\ lock' \in [Requests -> Requests \cup {None}]
      /\ \A d \in Requests : IF lock[d] = r THEN lock'[d] = None ELSE lock'[d] = lock[d]
  BY <1>1, UnlockStep DEF Core
<1>10. TypeOK'
  BY <1>1, <1>7, <1>8, <1>9 DEF Core, TypeOK, budgets, BudgetsTypeOK
<1>11. /\ \A d \in Requests : d \in Stored' => d \in Stored
       /\ \A d \in Requests \ {c} : d \in Stored' <=> d \in Stored
       /\ \A d \in Requests : d \in Live' => d \in Live
       /\ ctx[r].verdict = "ok" => c \notin Live'
  BY <1>4, <1>6, <1>7 DEF Stored, Live
<1>12. LocksHaveRows'
  BY <1>4, <1>9, <1>11 DEF Core, LocksHaveRows
<1>13. Spares(r)
  BY <1>1, <1>3, <1>4, <1>7, <1>8, <1>9, <1>11 DEF Spares, Closed
<1>14. ControlOf(r)'
  <2>1. /\ pc'[c] = "done"
        /\ \A d \in ctx[r].known : Closed(d)'
    BY <1>1, <1>2, <1>3, <1>4, <1>13 DEF Spares, StateOf, ControlOf, Context
  <2> QED BY <1>1, <1>2, <1>3, <1>8, <2>1 DEF ControlOf, Verifying
<1>15. ClockOf(r)'
  BY <1>1, <1>3, <1>8 DEF StateOf, ClockOf
<1>16. SupersedeOf(r)'
  BY <1>3, <1>8, <1>11 DEF SupersedeOf
<1>17. VerdictOf(r)'
  BY <1>1, <1>2, <1>3, <1>8, <1>11 DEF VerdictOf
<1>18. Control'
  BY <1>13, <1>14, <1>15, <1>16, <1>17, OwnState DEF StateOf
<1>19. CallsStand
  <2>1. reply[r] # "rate_limited" /\ reply'[r] # "rate_limited"
    BY <1>3, <1>8 DEF Reply
  <2> QED BY <1>1, <1>8, <2>1 DEF CallsStand
<1>20. SingleUse'
  <2>1. \A q \in judged : q \in Requests /\ (ctx[q].verdict = "ok" => ctx[q].target \notin Live)
    BY DEF Core, TypeOK, Control, StateOf, VerdictOf
  <2>2. ASSUME NEW d \in Requests, NEW q \in Accepted(d)', NEW s \in Accepted(d)' PROVE q = s
    <3>1. /\ q \in judged \cup {r} /\ ctx[q].target = d /\ ctx[q].verdict = "ok"
          /\ s \in judged \cup {r} /\ ctx[s].target = d /\ ctx[s].verdict = "ok"
      BY <1>1, <2>2 DEF Accepted
    <3>2. CASE q \in judged /\ s \in judged
      BY <3>1, <3>2 DEF Accepted, SingleUse
    <3>3. CASE q = r \/ s = r
      BY <1>2, <1>4, <2>1, <3>1, <3>3
    <3> QED BY <3>1, <3>2, <3>3
  <2> QED BY <2>2 DEF SingleUse
<1>21. Counted'
  <2>1. IsFiniteSet(judged')
    BY <1>1, FS_AddElement DEF Counted
  <2>2. ASSUME NEW d \in Requests
        PROVE  /\ Cardinality(Guesses(d)') <= MaxAttempts
               /\ d \in Stored' => Cardinality(Guesses(d)') <= challenge'[d].attempts
    <3>1. IsFiniteSet(Guesses(d)) /\ r \notin Guesses(d)
      BY <1>3, FS_Subset DEF Counted, Guesses
    <3>2. /\ Cardinality(Guesses(d)) \in Nat /\ Cardinality(Guesses(d)) <= MaxAttempts
          /\ d \in Stored => Cardinality(Guesses(d)) <= challenge[d].attempts
      BY <3>1, FS_CardinalityType DEF Counted
    <3>3. CASE d = c /\ ctx[r].verdict \in {"wrong", "ok"}
      <4>1. Guesses(d)' = Guesses(d) \cup {r}
        BY <1>1, <1>2, <3>3 DEF Guesses
      <4>2. Cardinality(Guesses(d)') = Cardinality(Guesses(d)) + 1
        BY <3>1, <4>1, FS_AddElement
      <4> QED BY <1>4, <1>6, <1>7, <3>2, <3>3, <4>2, OtpAssumption DEF OtpAssumption
    <3>4. CASE ~(d = c /\ ctx[r].verdict \in {"wrong", "ok"})
      <4>1. Guesses(d)' = Guesses(d)
        BY <1>1, <1>2, <3>4 DEF Guesses
      <4>2. d \in Stored' => d \in Stored /\ challenge[d].attempts \in Nat
                             /\ challenge[d].attempts <= challenge'[d].attempts
        BY <1>4, <1>6, <1>7, <1>11 DEF Core, TypeOK, Row, Stored
      <4>3. d \in Stored' => challenge'[d].attempts \in Nat
        BY <1>7 DEF Stored, Row
      <4> QED BY <3>2, <4>1, <4>2, <4>3
    <3> QED BY <3>3, <3>4
  <2> QED BY <2>1, <2>2 DEF Counted
<1> QED BY <1>10, <1>12, <1>18, <1>19, <1>20, <1>21 DEF Core

(* Looking for the account changes nothing else.                           *)
LEMMA FindAccountStep ==
  ASSUME Core, NEW r \in Requests, FindAccount(r)
  PROVE  Core' /\ CallsStand /\ LedgerStands
<1> USE Distinct
<1>1. /\ pc[r] = "account" /\ Goto(r, "login")
      /\ UNCHANGED <<now, budgets, challenge, lock, judged, registered, reply>>
  BY DEF FindAccount
<1>2. StateOf(r) /\ ctx[r] \in Context /\ r \notin Stored /\ ctx[r].op = "verify"
  BY <1>1 DEF Core, Control, StateOf, ControlOf, SupersedeOf, Verifying, Closed
<1>3. PICK new : new = [ctx[r] EXCEPT !.isNew = ~registered]
  OBVIOUS
<1>4. /\ new \in Context /\ new.op = ctx[r].op /\ new.target = ctx[r].target
      /\ new.stamp = ctx[r].stamp /\ new.at = ctx[r].at /\ new.verdict = ctx[r].verdict
      /\ new.known = ctx[r].known
  BY <1>2, <1>3 DEF Context, Core, TypeOK
<1>5. /\ ctx' \in [Requests -> Context \cup {None}] /\ ctx'[r] = new
      /\ \A q \in Requests \ {r} : ctx'[q] = ctx[q]
  <2>1. ctx' = [ctx EXCEPT ![r].isNew = ~registered]
    BY DEF FindAccount
  <2> QED BY <1>2, <1>3, <1>4, <2>1 DEF Core, TypeOK
<1>6. /\ pc' \in [Requests -> PC] /\ pc'[r] = "login"
      /\ \A q \in Requests \ {r} : pc'[q] = pc[q]
  BY <1>1, GotoStep DEF Core, PC
<1>7. TypeOK'
  BY <1>1, <1>5, <1>6 DEF Core, TypeOK, budgets, BudgetsTypeOK
<1>8. /\ Spares(r) /\ LocksHaveRows' /\ LedgerStands
      /\ Stored' = Stored /\ Live' = Live
  BY <1>1, <1>2, <1>4, <1>5, <1>6, RowsSame DEF Closed
<1>9. ControlOf(r)'
  <2>1. /\ pc'[ctx[r].target] = "done"
        /\ \A d \in ctx[r].known : Closed(d)'
    BY <1>1, <1>2, <1>8 DEF Spares, StateOf, ControlOf, Context
  <2>2. reply[r] = None
    BY <1>1, <1>2 DEF StateOf, ControlOf
  <2> QED BY <1>1, <1>2, <1>4, <1>5, <1>6, <2>1, <2>2 DEF ControlOf, Verifying
<1>10. ClockOf(r)'
  BY <1>1, <1>2, <1>4, <1>5, <1>6 DEF StateOf, ClockOf
<1>11. SupersedeOf(r)' /\ VerdictOf(r)'
  BY <1>1, <1>2, <1>4, <1>5, <1>6, <1>8 DEF StateOf, SupersedeOf, VerdictOf
<1>12. Control'
  BY <1>8, <1>9, <1>10, <1>11, OwnState DEF StateOf
<1>13. CallsStand
  BY <1>1, <1>2, <1>4, <1>5 DEF CallsStand
<1> QED BY <1>7, <1>8, <1>12, <1>13 DEF Core

(* A request that fails lets go of the rows it held, and changes none.     *)
LEMMA FailStep ==
  ASSUME Core, NEW r \in Requests, Fail(r)
  PROVE  Core' /\ CallsStand /\ LedgerStands
<1> USE Distinct
<1>1. /\ pc[r] \notin {"idle", "done"} /\ Unlock(r) /\ Answer(r, "error") /\ "error" \in Reply
      /\ UNCHANGED <<now, budgets, challenge, judged, registered, ctx>>
  BY DEF Fail, Reply
<1>2. StateOf(r) /\ ctx[r] \in Context /\ reply[r] = None
  BY <1>1 DEF Core, Control, StateOf, ControlOf
<1>3. /\ pc' \in [Requests -> PC] /\ reply' \in [Requests -> Reply \cup {None}]
      /\ pc'[r] = "done" /\ reply'[r] = "error"
      /\ \A q \in Requests \ {r} : pc'[q] = pc[q] /\ reply'[q] = reply[q]
  BY <1>1, AnswerStep DEF Core
<1>4. /\ lock' \in [Requests -> Requests \cup {None}]
      /\ \A c \in Requests : IF lock[c] = r THEN lock'[c] = None ELSE lock'[c] = lock[c]
  BY <1>1, UnlockStep DEF Core
<1>5. TypeOK'
  BY <1>1, <1>3, <1>4 DEF Core, TypeOK, budgets, BudgetsTypeOK
<1>6. Stored' = Stored /\ Live' = Live
  BY <1>1 DEF Stored, Live
<1>7. LocksHaveRows'
  BY <1>4, <1>6 DEF Core, LocksHaveRows
<1>8. Spares(r)
  BY <1>1, <1>3, <1>4, <1>6 DEF Spares, Closed
<1>9. Closed(r)' /\ \A c \in Requests : Closed(c) => Closed(c)'
  BY <1>3, <1>8 DEF Closed, Spares
<1>10. ControlOf(r)'
  <2>1. /\ ctx[r].op = "verify" => pc'[ctx[r].target] = "done"
        /\ \A c \in ctx[r].known : Closed(c)'
    BY <1>1, <1>2, <1>8, <1>9 DEF StateOf, ControlOf, Context, Spares
  <2> QED BY <1>1, <1>2, <1>3, <2>1 DEF ControlOf, Verifying
<1>11. ClockOf(r)'
  BY <1>1, <1>2, <1>3 DEF StateOf, ClockOf
<1>12. SupersedeOf(r)' /\ VerdictOf(r)'
  BY <1>1, <1>2, <1>3, <1>6, <1>9 DEF StateOf, SupersedeOf, VerdictOf
<1>13. Control'
  BY <1>8, <1>10, <1>11, <1>12, OwnState DEF StateOf
<1>14. CallsStand
  <2>1. reply[r] # "rate_limited" /\ reply'[r] # "rate_limited"
    BY <1>2, <1>3 DEF Reply
  <2> QED BY <1>1, <1>3, <2>1 DEF CallsStand
<1>15. LedgerStands
  BY <1>1, <1>6 DEF LedgerStands
<1> QED BY <1>5, <1>7, <1>13, <1>14, <1>15 DEF Core

(* The purge takes rows that nobody holds.                                 *)
LEMMA PurgeStep ==
  ASSUME Core, NEW c \in Requests, Purge(c)
  PROVE  Core' /\ CallsStand /\ LedgerStands
<1> USE Distinct
<1>1. /\ lock[c] = None /\ challenge' = [challenge EXCEPT ![c] = None]
      /\ UNCHANGED <<now, budgets, lock, judged, registered, pc, ctx, reply>>
  BY DEF Purge
<1>2. /\ challenge' \in [Requests -> Row \cup {None}] /\ challenge'[c] = None
      /\ \A d \in Requests \ {c} : challenge'[d] = challenge[d]
  BY <1>1 DEF Core, TypeOK
<1>3. TypeOK'
  BY <1>1, <1>2 DEF Core, TypeOK, budgets, BudgetsTypeOK
<1>4. /\ \A d \in Requests : d \in Stored' <=> d \in Stored /\ d # c
      /\ \A d \in Requests : d \in Live' <=> d \in Live /\ d # c
  BY <1>2 DEF Stored, Live
<1>5. LocksHaveRows'
  BY <1>1, <1>4 DEF Core, LocksHaveRows
<1>6. Spares(None)
  BY <1>1, <1>2, <1>4 DEF Spares, Closed
<1>7. Control'
  BY <1>6, SparedKeepState DEF Control
<1>8. CallsStand
  BY <1>1 DEF CallsStand
<1>9. LedgerStands
  <2>1. Stored' \subseteq Requests
    BY DEF Stored
  <2> QED BY <1>1, <1>2, <1>4, <2>1 DEF LedgerStands
<1> QED BY <1>3, <1>5, <1>7, <1>8, <1>9 DEF Core

(* Time does not pass a call by that is about to run its script.           *)
LEMMA TickStep ==
  ASSUME Core, Tick
  PROVE  Core' /\ CallsStand /\ LedgerStands
<1>1. /\ now' = now + 1 /\ now \in Nat
      /\ UNCHANGED <<budgets, challenge, lock, judged, registered, pc, ctx, reply>>
      /\ \A r \in Requests : pc[r] = "limit" => now < ctx[r].stamp + MaxDelay
  BY DEF Tick, Core, TypeOK
<1>2. TypeOK'
  BY <1>1 DEF Core, TypeOK, budgets, BudgetsTypeOK
<1>3. Stored' = Stored /\ Live' = Live
  BY <1>1 DEF Stored, Live
<1>4. LocksHaveRows'
  BY <1>1, <1>3 DEF Core, LocksHaveRows
<1>5. ASSUME NEW r \in Requests PROVE StateOf(r)'
  <2>1. StateOf(r)
    BY DEF Core, Control
  <2>2. ControlOf(r)'
    BY <1>1, <2>1 DEF StateOf, ControlOf, Closed
  <2>3. ClockOf(r)'
    <3>1. pc[r] # "idle" => ctx[r].stamp \in Nat /\ ctx[r].at \in Nat \cup {None}
      BY <2>1 DEF StateOf, ControlOf, Context
    <3> QED BY <1>1, <2>1, <3>1, OtpAssumption DEF StateOf, ClockOf, OtpAssumption
  <2>4. SupersedeOf(r)' /\ VerdictOf(r)'
    BY <1>1, <1>3, <2>1 DEF StateOf, SupersedeOf, VerdictOf, Closed
  <2> QED BY <2>2, <2>3, <2>4 DEF StateOf
<1>6. CallsStand
  BY <1>1 DEF CallsStand
<1>7. LedgerStands
  BY <1>1, <1>3 DEF LedgerStands
<1> QED BY <1>2, <1>4, <1>5, <1>6, <1>7 DEF Core, Control

-----------------------------------------------------------------------------
(* Guesses                                                                 *)

(* A step that leaves verdicts alone leaves what was counted of them.      *)
LEMMA CountStands ==
  ASSUME Core, SingleUse, Counted, LedgerStands
  PROVE  SingleUse' /\ Counted'
<1>1. judged' = judged /\ judged \subseteq Requests /\ Stored' \subseteq Requests
  BY DEF LedgerStands, Core, TypeOK, Stored
<1>2. \A c \in Requests : Accepted(c)' = Accepted(c) /\ Guesses(c)' = Guesses(c)
  BY <1>1 DEF LedgerStands, Accepted, Guesses
<1>3. SingleUse'
  BY <1>2 DEF SingleUse
<1>4. ASSUME NEW c \in Stored' PROVE Cardinality(Guesses(c)') <= challenge'[c].attempts
  <2>1. CASE c \in Stored /\ challenge'[c].attempts = challenge[c].attempts
    BY <1>1, <1>2, <2>1 DEF Counted
  <2>2. CASE Guesses(c) = {} /\ challenge'[c].attempts \in Nat
    BY <1>1, <1>2, <2>2, FS_EmptySet
  <2> QED BY <1>4, <2>1, <2>2 DEF LedgerStands
<1> QED BY <1>1, <1>2, <1>3, <1>4 DEF Counted

-----------------------------------------------------------------------------
(* Budgets                                                                 *)

(* The moments and stamps of the calls that were charged.                  *)
LEMMA CalledFacts ==
  ASSUME Core, NEW b, NEW s \in Called(b)
  PROVE  /\ s \in Requests /\ ctx[s] \in Context /\ ctx[s].op = b
         /\ ctx[s].stamp \in Nat /\ ctx[s].at \in Nat /\ now \in Nat
         /\ ctx[s].stamp <= ctx[s].at /\ ctx[s].at <= ctx[s].stamp + MaxDelay
         /\ ctx[s].at <= now
<1>1. s \in Requests /\ ctx[s] # None /\ ctx[s].at # None /\ ctx[s].op = b
  BY DEF Called
<1>2. StateOf(s) /\ now \in Nat
  BY <1>1 DEF Core, Control, TypeOK
<1>3. pc[s] # "idle" /\ ctx[s] \in Context
  BY <1>1, <1>2 DEF StateOf, ControlOf
<1> QED BY <1>1, <1>2, <1>3 DEF StateOf, ClockOf, Context

(* The two properties, with the moment of the call by a name of its own.   *)
KeptAt ==
  \A b \in {"request", "verify"} : \A r \in Granted(b) : \A t :
    t = ctx[r].at => Cardinality(Stamps(b, t - (Window - MaxDelay) + 1, t)) <= Limit[b]

JustifiedAt ==
  \A b \in {"request", "verify"} : \A r \in Called(b) \ Granted(b) : \A t :
    t = ctx[r].at => Cardinality(Stamps(b, t - (Window + MaxDelay) + 1, t)) >= Limit[b]

(* They are the same.                                                      *)
LEMMA MomentsNamed == (BudgetKept <=> KeptAt) /\ (RefusalJustified <=> JustifiedAt)
BY DEF BudgetKept, RefusalJustified, KeptAt, JustifiedAt

(* Only so many stamps fit into the past.                                  *)
LEMMA StampsAreFinite ==
  ASSUME Core, NEW b, NEW from, NEW to
  PROVE  IsFiniteSet(Stamps(b, from, to))
<1>1. now \in Nat
  BY DEF Core, TypeOK
<1>2. \A s \in Granted(b) : ctx[s].stamp \in 0..now
  BY <1>1, CalledFacts DEF Granted
<1>3. Stamps(b, from, to) \subseteq 0..now
  BY <1>2 DEF Stamps
<1>4. IsFiniteSet(0..now)
  BY <1>1, FS_Interval
<1> QED BY <1>3, <1>4, FS_Subset

(* A step that leaves calls alone leaves what budgets say of them, as time *)
(* goes by.                                                                *)
LEMMA BudgetsStand ==
  ASSUME Core, Buckets, BudgetKept, RefusalJustified, CallsStand, UNCHANGED budgets,
         now' \in Nat, now <= now'
  PROVE  Buckets' /\ BudgetKept' /\ RefusalJustified'
<1>1. ASSUME NEW b
      PROVE  Called(b)' = Called(b) /\ Granted(b)' = Granted(b)
  <2>1. \A q \in Requests : q \in Called(b)' <=> q \in Called(b)
    BY DEF CallsStand, Called
  <2>2. \A q \in Called(b) : q \in Requests /\ ctx[q] # None /\ ctx[q].at # None
    BY DEF Called
  <2>3. Called(b)' = Called(b)
    BY <2>1 DEF Called
  <2>4. \A q \in Called(b) : reply'[q] = "rate_limited" <=> reply[q] = "rate_limited"
    BY <2>2 DEF CallsStand
  <2> QED BY <2>3, <2>4 DEF Granted
<1>2. ASSUME NEW b
      PROVE  \A s \in Called(b) : ctx'[s].at = ctx[s].at /\ ctx'[s].stamp = ctx[s].stamp
  BY DEF CallsStand, Called
<1>3. ASSUME NEW b, NEW from, NEW to
      PROVE  Stamps(b, from, to)' = Stamps(b, from, to)
  <2>1. Granted(b) \subseteq Called(b)
    BY DEF Granted
  <2>2. {q \in Granted(b) : ctx[q].at \in from..to}' = {q \in Granted(b) : ctx[q].at \in from..to}
    BY <1>1, <1>2, <2>1
  <2>3. PICK G : G = {q \in Granted(b) : ctx[q].at \in from..to}
    OBVIOUS
  <2>4. /\ Stamps(b, from, to) = {ctx[s].stamp : s \in G}
        /\ Stamps(b, from, to)' = {ctx'[s].stamp : s \in G}
    BY <2>2, <2>3 DEF Stamps
  <2>5. \A s \in G : ctx'[s].stamp = ctx[s].stamp
    BY <1>2, <2>1, <2>3
  <2> QED BY <2>4, <2>5
<1>4. Buckets'
  <2> SUFFICES ASSUME NEW b \in {"request", "verify"} PROVE BucketOf(b)'
    BY DEF Buckets
  <2>1. BucketOf(b) /\ UNCHANGED <<bucket, expiry>> /\ now \in Nat /\ Window \in Nat
    BY OtpAssumption DEF Buckets, budgets, Core, TypeOK, OtpAssumption
  <2>2. \A s \in Granted(b) : ctx[s].stamp \in Nat /\ s \in Called(b)
    BY CalledFacts DEF Granted
  <2> QED BY <1>1, <1>2, <2>1, <2>2 DEF BucketOf
<1>5. KeptAt'
  <2> SUFFICES ASSUME NEW b \in {"request", "verify"}, NEW r \in Granted(b), NEW t,
                      t = ctx'[r].at
               PROVE  Cardinality(Stamps(b, t - (Window - MaxDelay) + 1, t)') <= Limit[b]
    BY <1>1 DEF KeptAt
  <2>1. t = ctx[r].at
    BY <1>2 DEF Granted
  <2>2. Cardinality(Stamps(b, t - (Window - MaxDelay) + 1, t)) <= Limit[b]
    BY <2>1, MomentsNamed DEF KeptAt
  <2> QED BY <1>3, <2>2
<1>6. JustifiedAt'
  <2> SUFFICES ASSUME NEW b \in {"request", "verify"}, NEW r \in Called(b) \ Granted(b), NEW t,
                      t = ctx'[r].at
               PROVE  Cardinality(Stamps(b, t - (Window + MaxDelay) + 1, t)') >= Limit[b]
    BY <1>1 DEF JustifiedAt
  <2>1. t = ctx[r].at
    BY <1>2
  <2>2. Cardinality(Stamps(b, t - (Window + MaxDelay) + 1, t)) >= Limit[b]
    BY <2>1, MomentsNamed DEF JustifiedAt
  <2> QED BY <1>3, <2>2
<1>7. BudgetKept' /\ RefusalJustified'
  BY <1>5, <1>6, MomentsNamed, PTL
<1> QED BY <1>4, <1>7

(* The script keeps what it must of the bucket and admits a call only if   *)
(* that is less than the limit.                                            *)
LEMMA SpendKeeps ==
  ASSUME Core, Buckets, BudgetKept, RefusalJustified, NEW r \in Requests, Enforce(r)
  PROVE  Buckets' /\ BudgetKept' /\ RefusalJustified'
<1> USE Distinct
<1>1. PICK b, sigma, kept, granted :
        /\ b = ctx[r].op /\ sigma = ctx[r].stamp /\ kept = Kept(b, sigma, now)
        /\ granted \in BOOLEAN /\ Spend(b, sigma, now, granted)
        /\ IF granted THEN UNCHANGED reply ELSE Answer(r, "rate_limited")
  <2>1. PICK g \in BOOLEAN :
          /\ Spend(ctx[r].op, ctx[r].stamp, now, g)
          /\ IF g THEN UNCHANGED reply ELSE Answer(r, "rate_limited")
    BY DEF Enforce
  <2> QED BY <2>1
<1>2. /\ pc[r] = "limit" /\ ctx' = [ctx EXCEPT ![r].at = now] /\ UNCHANGED now
  BY DEF Enforce
<1>3. /\ ctx[r] \in Context /\ ctx[r].at = None /\ reply[r] = None
      /\ b \in {"request", "verify"} /\ sigma \in Nat /\ now \in Nat
      /\ sigma <= now /\ now <= sigma + MaxDelay
  BY <1>1, <1>2 DEF Core, Control, StateOf, ControlOf, ClockOf, Context, TypeOK
<1>4. Window \in Nat /\ MaxDelay \in Nat /\ MaxDelay <= Window /\ Limit[b] \in Nat
  BY <1>3, OtpAssumption DEF OtpAssumption
<1>5. /\ bucket'[b] = IF granted THEN kept \cup {sigma} ELSE kept
      /\ expiry'[b] = IF granted THEN now + Window ELSE expiry[b]
      /\ expiry[b] \in Nat /\ bucket[b] \subseteq Nat
      /\ granted <=> Cardinality(kept) < Limit[b]
      /\ \A o \in {"request", "verify"} \ {b} : bucket'[o] = bucket[o] /\ expiry'[o] = expiry[o]
  BY <1>1, <1>3 DEF Spend, Core, TypeOK, BudgetsTypeOK
<1>6. /\ ctx'[r] # None /\ ctx'[r].op = b /\ ctx'[r].at = now /\ ctx'[r].stamp = sigma
      /\ \A q \in Requests \ {r} : ctx'[q] = ctx[q]
  <2>1. PICK new : new = [ctx[r] EXCEPT !.at = now]
    OBVIOUS
  <2>2. new \in Context /\ new.op = b /\ new.at = now /\ new.stamp = sigma
    BY <1>1, <1>3, <2>1 DEF Context
  <2> QED BY <1>2, <2>1, <2>2 DEF Core, TypeOK
<1>7. /\ \A q \in Requests \ {r} : reply'[q] = reply[q]
      /\ reply'[r] # "rate_limited" <=> granted
  <2>1. "rate_limited" \in Reply
    BY DEF Reply
  <2> QED BY <1>1, <1>3, <2>1, AnswerStep DEF Core
<1>8. r \notin Called(b) /\ \A o : r \notin Called(o) /\ r \notin Granted(o)
  BY <1>3 DEF Called, Granted
<1>9. /\ Called(b)' = Called(b) \cup {r}
      /\ Granted(b)' = IF granted THEN Granted(b) \cup {r} ELSE Granted(b)
  <2>1. \A q \in Requests : q \in Called(b)' <=> q \in Called(b) \cup {r}
    BY <1>3, <1>6 DEF Called
  <2>2. Called(b)' = Called(b) \cup {r}
    BY <2>1 DEF Called
  <2>3. \A q \in Called(b) : q \in Requests
    BY DEF Called
  <2> QED BY <1>7, <1>8, <2>2, <2>3 DEF Granted
<1>10. ASSUME NEW o, o # b
       PROVE  Called(o)' = Called(o) /\ Granted(o)' = Granted(o)
  <2>1. \A q \in Requests : q \in Called(o)' <=> q \in Called(o)
    BY <1>6, <1>8, <1>10 DEF Called
  <2>2. Called(o)' = Called(o)
    BY <2>1 DEF Called
  <2>3. \A q \in Called(o) : q \in Requests
    BY DEF Called
  <2> QED BY <1>7, <1>8, <2>2, <2>3 DEF Granted
<1>11. ASSUME NEW o, NEW s \in Called(o)
       PROVE  ctx'[s].at = ctx[s].at /\ ctx'[s].stamp = ctx[s].stamp
  BY <1>6, <1>8, <1>11 DEF Called
<1>12. \A o : Granted(o) \subseteq Called(o)
  BY DEF Granted
<1>13. ASSUME NEW o, NEW from, NEW to
       PROVE  Stamps(o, from, to)' =
                IF o = b /\ granted /\ now \in from..to
                THEN Stamps(o, from, to) \cup {sigma} ELSE Stamps(o, from, to)
  <2>1. PICK G, H : G = {q \in Granted(o) : ctx[q].at \in from..to}
                    /\ H = {q \in Granted(o)' : ctx'[q].at \in from..to}
    OBVIOUS
  <2>2. /\ Stamps(o, from, to) = {ctx[s].stamp : s \in G}
        /\ Stamps(o, from, to)' = {ctx'[s].stamp : s \in H}
    BY <2>1 DEF Stamps
  <2>3. \A s \in G : ctx'[s].stamp = ctx[s].stamp
    BY <1>11, <1>12, <2>1
  <2>4. CASE o = b /\ granted /\ now \in from..to
    <3>1. H = G \cup {r}
      BY <1>6, <1>9, <1>11, <1>12, <2>1, <2>4
    <3> QED BY <1>6, <2>2, <2>3, <2>4, <3>1
  <2>5. CASE ~(o = b /\ granted /\ now \in from..to)
    <3>1. Granted(o)' = Granted(o) \/ (o = b /\ granted /\ Granted(o)' = Granted(o) \cup {r})
      BY <1>9, <1>10
    <3>2. H = G
      BY <1>6, <1>11, <1>12, <2>1, <2>5, <3>1
    <3> QED BY <2>2, <2>3, <2>5, <3>2
  <2> QED BY <2>4, <2>5
<1>14. \A s \in Granted(b) :
         /\ ctx[s].stamp \in Nat /\ ctx[s].at \in Nat
         /\ ctx[s].stamp <= ctx[s].at /\ ctx[s].at <= ctx[s].stamp + MaxDelay /\ ctx[s].at <= now
  BY <1>12, CalledFacts
<1>15. \A s \in Granted(b) : now < ctx[s].stamp + Window => ctx[s].stamp \in kept
  <2>1. BucketOf(b)
    BY <1>3 DEF Buckets
  <2> QED BY <1>1, <1>3, <1>4, <1>5, <1>14, <2>1 DEF BucketOf, Kept
<1>16. \A t \in kept : t \in Nat /\ sigma < t + Window /\ \E s \in Granted(b) : ctx[s].stamp = t
  <2>1. BucketOf(b)
    BY <1>3 DEF Buckets
  <2> QED BY <1>1, <1>3, <1>4, <1>5, <2>1 DEF BucketOf, Kept
<1>17. IsFiniteSet(kept) /\ Cardinality(kept) \in Nat
  <2>1. IsFiniteSet(0..now)
    BY <1>3, FS_Interval
  <2>2. kept \subseteq 0..now
    BY <1>3, <1>14, <1>16
  <2> QED BY <2>1, <2>2, FS_Subset, FS_CardinalityType
<1>18. ASSUME NEW o \in {"request", "verify"} PROVE BucketOf(o)'
  <2>1. CASE o = b
    <3>1. BucketOf(b)
      BY <1>3 DEF Buckets
    <3>2. ASSUME NEW s \in Granted(b)'
          PROVE  /\ now < ctx'[s].stamp + Window => ctx'[s].stamp \in bucket'[b]
                 /\ ctx'[s].at + Window <= expiry'[b]
      <4>1. CASE s \in Granted(b)
        <5>1. ctx'[s].at = ctx[s].at /\ ctx'[s].stamp = ctx[s].stamp
          BY <1>11, <1>12, <4>1
        <5>2. ctx[s].at + Window <= expiry[b]
          BY <3>1, <4>1 DEF BucketOf
        <5> QED BY <1>3, <1>4, <1>5, <1>14, <1>15, <4>1, <5>1, <5>2
      <4>2. CASE s = r /\ granted
        BY <1>3, <1>4, <1>5, <1>6, <4>2
      <4> QED BY <1>9, <3>2, <4>1, <4>2
    <3>3. ASSUME NEW t \in bucket'[b] PROVE \E s \in Granted(b)' : ctx'[s].stamp = t
      <4>1. CASE t \in kept
        <5>1. PICK s \in Granted(b) : ctx[s].stamp = t
          BY <1>16, <4>1
        <5> QED BY <1>9, <1>11, <1>12, <5>1
      <4>2. CASE t = sigma /\ granted
        BY <1>6, <1>9, <4>2
      <4> QED BY <1>5, <3>3, <4>1, <4>2
    <3> QED BY <1>2, <2>1, <3>2, <3>3 DEF BucketOf
  <2>2. CASE o # b
    <3>1. BucketOf(o)
      BY <1>18 DEF Buckets
    <3>2. Granted(o)' = Granted(o) /\ bucket'[o] = bucket[o] /\ expiry'[o] = expiry[o]
      BY <1>5, <1>10, <1>18, <2>2
    <3>3. \A s \in Granted(o) : ctx'[s].at = ctx[s].at /\ ctx'[s].stamp = ctx[s].stamp
      BY <1>11, <1>12
    <3> QED BY <1>2, <3>1, <3>2, <3>3 DEF BucketOf
  <2> QED BY <2>1, <2>2
<1>19. KeptAt /\ JustifiedAt
  BY MomentsNamed
<1>20. KeptAt'
  <2> SUFFICES ASSUME NEW o \in {"request", "verify"}, NEW q \in Granted(o)', NEW t, t = ctx'[q].at
               PROVE  Cardinality(Stamps(o, t - (Window - MaxDelay) + 1, t)') <= Limit[o]
    BY DEF KeptAt
  <2>1. PICK from : from = t - (Window - MaxDelay) + 1
    OBVIOUS
  <2>2. CASE q \in Granted(o) /\ ~(o = b /\ granted /\ now \in from..t)
    <3>1. t = ctx[q].at
      BY <1>11, <1>12, <2>2
    <3> QED BY <1>13, <1>19, <2>1, <2>2, <3>1 DEF KeptAt
  <2>3. CASE o = b /\ granted /\ t = now
    <3>1. \A s \in Granted(b) : ctx[s].at \in from..t => ctx[s].stamp \in kept
      BY <1>3, <1>4, <1>14, <1>15, <2>1, <2>3
    <3>2. Stamps(b, from, t) \subseteq kept
      BY <3>1 DEF Stamps
    <3>3. Stamps(b, from, t)' \subseteq kept \cup {sigma}
      BY <1>13, <3>2
    <3>4. /\ IsFiniteSet(kept \cup {sigma})
          /\ Cardinality(kept \cup {sigma}) <= Cardinality(kept) + 1
      BY <1>17, FS_AddElement
    <3>5. Cardinality(Stamps(b, from, t)') <= Cardinality(kept \cup {sigma})
      BY <3>3, <3>4, FS_Subset
    <3>6. Cardinality(Stamps(b, from, t)') \in Nat /\ Cardinality(kept \cup {sigma}) \in Nat
      BY <3>3, <3>4, FS_Subset, FS_CardinalityType
    <3> QED BY <1>4, <1>5, <1>17, <2>1, <2>3, <3>4, <3>5, <3>6
  <2>4. \/ q \in Granted(o) /\ ~(o = b /\ granted /\ now \in from..t)
        \/ o = b /\ granted /\ t = now
    <3>1. CASE q = r
      BY <1>6, <1>8, <1>9, <1>10, <3>1
    <3>2. CASE q # r
      <4>1. q \in Granted(o)
        BY <1>9, <1>10, <3>2
      <4>2. o = b => t \in Nat /\ t <= now
        BY <1>11, <1>12, <1>14, <4>1
      <4> QED BY <1>3, <4>1, <4>2
    <3> QED BY <3>1, <3>2
  <2> QED BY <2>2, <2>3, <2>4
<1>21. JustifiedAt'
  <2> SUFFICES ASSUME NEW o \in {"request", "verify"}, NEW q \in Called(o)' \ Granted(o)', NEW t,
                      t = ctx'[q].at
               PROVE  Cardinality(Stamps(o, t - (Window + MaxDelay) + 1, t)') >= Limit[o]
    BY DEF JustifiedAt
  <2>1. PICK from : from = t - (Window + MaxDelay) + 1
    OBVIOUS
  <2>2. IsFiniteSet(Stamps(o, from, t)) /\ IsFiniteSet(Stamps(o, from, t)')
    <3>1. IsFiniteSet(Stamps(o, from, t))
      BY StampsAreFinite
    <3> QED BY <1>13, <3>1, FS_AddElement
  <2>3. CASE q # r
    <3>1. q \in Called(o) \ Granted(o)
      BY <1>9, <1>10, <2>3
    <3>2. t = ctx[q].at
      BY <1>11, <3>1
    <3>3. Cardinality(Stamps(o, from, t)) >= Limit[o]
      BY <1>19, <2>1, <3>1, <3>2 DEF JustifiedAt
    <3>4. Stamps(o, from, t) \subseteq Stamps(o, from, t)'
      BY <1>13
    <3>5. Cardinality(Stamps(o, from, t)) <= Cardinality(Stamps(o, from, t)')
      BY <2>2, <3>4, FS_Subset
    <3>6. /\ Cardinality(Stamps(o, from, t)) \in Nat /\ Cardinality(Stamps(o, from, t)') \in Nat
          /\ Limit[o] \in Nat
      BY <2>2, FS_CardinalityType, OtpAssumption DEF OtpAssumption
    <3> QED BY <2>1, <3>3, <3>5, <3>6
  <2>4. CASE q = r
    <3>1. o = b /\ ~granted /\ t = now
      BY <1>6, <1>8, <1>9, <1>10, <2>4
    <3>2. ASSUME NEW x \in kept PROVE x \in Stamps(b, from, t)
      <4>1. PICK s \in Granted(b) : ctx[s].stamp = x
        BY <1>16
      <4>2. ctx[s].at \in from..t
        BY <1>3, <1>4, <1>14, <1>16, <2>1, <3>1, <4>1
      <4> QED BY <4>1, <4>2 DEF Stamps
    <3>3. kept \subseteq Stamps(o, from, t)'
      BY <1>13, <3>1, <3>2
    <3>4. Cardinality(kept) <= Cardinality(Stamps(o, from, t)')
      BY <2>2, <3>3, FS_Subset
    <3>5. Cardinality(Stamps(o, from, t)') \in Nat
      BY <2>2, FS_CardinalityType
    <3> QED BY <1>4, <1>5, <1>17, <2>1, <3>1, <3>4, <3>5
  <2> QED BY <2>3, <2>4
<1>22. BudgetKept' /\ RefusalJustified'
  BY <1>20, <1>21, MomentsNamed, PTL
<1> QED BY <1>18, <1>22 DEF Buckets

-----------------------------------------------------------------------------
(* The whole                                                               *)

(* Before the first request.                                               *)
LEMMA InvInit == Init => Inv
<1> SUFFICES ASSUME Init PROVE Inv
  OBVIOUS
<1> USE DEF Init, BudgetsInit
<1>1. TypeOK
  BY DEF TypeOK, BudgetsTypeOK, PC
<1>2. Stored = {} /\ Live = {}
  BY DEF Stored, Live
<1>3. Control /\ LocksHaveRows
  BY <1>2 DEF Control, StateOf, ControlOf, ClockOf, SupersedeOf, VerdictOf, LocksHaveRows, Verifying
<1>4. \A c \in Requests : Guesses(c) = {} /\ Accepted(c) = {}
  BY DEF Guesses, Accepted
<1>5. SingleUse /\ Counted
  BY <1>2, <1>4, FS_EmptySet, OtpAssumption DEF SingleUse, Counted, OtpAssumption
<1>6. \A b : Called(b) = {} /\ Granted(b) = {}
  BY DEF Called, Granted
<1>7. Buckets /\ BudgetKept /\ RefusalJustified
  BY <1>6 DEF Buckets, BucketOf, BudgetKept, RefusalJustified
<1> QED BY <1>1, <1>3, <1>5, <1>7 DEF Inv, Core

(* Every step keeps what requests rely on, verdicts and budgets.           *)
LEMMA InvStep == Inv /\ [Next]_vars => Inv'
<1> SUFFICES ASSUME Inv, [Next]_vars PROVE Inv'
  OBVIOUS
<1>0. /\ Core /\ SingleUse /\ Counted /\ Buckets /\ BudgetKept /\ RefusalJustified
      /\ now \in Nat
  BY DEF Inv, Core, TypeOK
<1> USE <1>0
<1>1. ASSUME Core', CallsStand, LedgerStands, UNCHANGED <<now, budgets>> PROVE Inv'
  BY <1>1, CountStands, BudgetsStand DEF Inv
<1>2. ASSUME NEW r \in Requests, RequestCode(r) PROVE Inv'
  BY <1>1, <1>2, ArriveStep DEF RequestCode, Arrive
<1>3. ASSUME NEW r \in Requests, NEW c \in Requests, NEW right \in BOOLEAN, SubmitCode(r, c, right)
      PROVE  Inv'
  <2>1. pc[c] = "done"
    BY <1>3, Distinct DEF SubmitCode, Core, Control, StateOf, ControlOf, Reply
  <2>2. Arrive(r, "verify", c, right) /\ UNCHANGED <<now, budgets>>
    BY <1>3 DEF SubmitCode, Arrive
  <2> QED BY <1>1, <2>1, <2>2, ArriveStep
<1>4. ASSUME NEW r \in Requests, Enforce(r) PROVE Inv'
  BY <1>4, EnforceStep, CountStands, SpendKeeps DEF Inv
<1>5. ASSUME NEW r \in Requests, BeginSupersede(r) PROVE Inv'
  BY <1>1, <1>5, BeginSupersedeStep DEF BeginSupersede
<1>6. ASSUME NEW r \in Requests, NEW c \in Requests, Supersede(r, c) PROVE Inv'
  BY <1>1, <1>6, SupersedeStep DEF Supersede
<1>7. ASSUME NEW r \in Requests, CommitChallenge(r) PROVE Inv'
  BY <1>1, <1>7, CommitChallengeStep DEF CommitChallenge
<1>8. ASSUME NEW r \in Requests, NEW what \in Reply \ {"rate_limited"}, Answer(r, what),
             pc[r] \notin {"idle", "done"}, registered' \in BOOLEAN,
             UNCHANGED <<now, budgets, challenge, lock, judged, ctx>>
      PROVE  Inv'
  BY <1>1, <1>8, AnswerKeeps
<1>9. {"sent", "refused", "error", "session"} \subseteq Reply \ {"rate_limited"}
  BY DEF Reply
<1>10. registered \in BOOLEAN
  BY DEF Core, TypeOK
<1>11. ASSUME NEW r \in Requests, SendSms(r) PROVE Inv'
  BY <1>8, <1>9, <1>10, <1>11 DEF SendSms
<1>12. ASSUME NEW r \in Requests, Select(r) PROVE Inv'
  BY <1>1, <1>12, SelectStep DEF Select
<1>13. ASSUME NEW r \in Requests, SelectNothing(r) PROVE Inv'
  BY <1>8, <1>9, <1>10, <1>13 DEF SelectNothing
<1>14. ASSUME NEW r \in Requests, CommitVerdict(r) PROVE Inv'
  <2>1. Core' /\ CallsStand /\ SingleUse' /\ Counted'
    BY <1>14, CommitVerdictStep
  <2>2. UNCHANGED <<now, budgets>>
    BY <1>14 DEF CommitVerdict
  <2> QED BY <2>1, <2>2, BudgetsStand DEF Inv
<1>15. ASSUME NEW r \in Requests, FindAccount(r) PROVE Inv'
  BY <1>1, <1>15, FindAccountStep DEF FindAccount
<1>16. ASSUME NEW r \in Requests, Login(r) PROVE Inv'
  BY <1>8, <1>9, <1>10, <1>16 DEF Login
<1>17. ASSUME NEW r \in Requests, Fail(r) PROVE Inv'
  BY <1>1, <1>17, FailStep DEF Fail
<1>18. ASSUME NEW c \in Requests, Purge(c) PROVE Inv'
  BY <1>1, <1>18, PurgeStep DEF Purge
<1>19. CASE Tick
  <2>1. UNCHANGED budgets /\ now' \in Nat /\ now <= now'
    BY <1>19 DEF Tick
  <2> QED BY <1>19, <2>1, TickStep, CountStands, BudgetsStand DEF Inv
<1>20. CASE Finished \/ UNCHANGED vars
  <2>1. UNCHANGED vars
    BY <1>20 DEF Finished
  <2>2. Core'
    BY <2>1 DEF vars, budgets, Core, TypeOK, BudgetsTypeOK, LocksHaveRows, Stored, Live, Control,
                StateOf, ControlOf, ClockOf, SupersedeOf, VerdictOf, Closed
  <2>3. CallsStand
    BY <2>1 DEF vars, CallsStand
  <2>4. LedgerStands
    BY <2>1 DEF vars, LedgerStands, Stored
  <2> QED BY <1>1, <2>1, <2>2, <2>3, <2>4 DEF vars, budgets
<1> QED BY <1>2, <1>3, <1>4, <1>5, <1>6, <1>7, <1>11, <1>12, <1>13, <1>14, <1>15, <1>16,
           <1>17, <1>18, <1>19, <1>20 DEF Next

(* What requests rely on, what was counted of verdicts, and what buckets   *)
(* remember, always.                                                       *)
THEOREM VerdictsAreHeld == Spec => []Inv
BY InvInit, InvStep, PTL DEF Spec

(* Challenges, locks, budgets, requests and answers have their types.      *)
THEOREM TypeCorrect == Spec => []TypeOK
<1>1. Inv => TypeOK
  BY DEF Inv, Core
<1> QED BY <1>1, VerdictsAreHeld, PTL

(* A code lets one request in, however many carry it.                      *)
THEOREM CodesAreSingleUse == Spec => []SingleUse
<1>1. Inv => SingleUse
  BY DEF Inv
<1> QED BY <1>1, VerdictsAreHeld, PTL

(* No more guesses are compared than otp_max_attempts allows.              *)
THEOREM GuessesAreBounded == Spec => []GuessesBounded
<1>1. Inv => GuessesBounded
  BY DEF Inv, Counted, Guesses, GuessesBounded
<1> QED BY <1>1, VerdictsAreHeld, PTL

(* A new code kills those its request could see.                           *)
THEOREM SupersededAreDead == Spec => []SupersededIsDead
<1>1. Inv => SupersededIsDead
  BY DEF Inv, Core, Control, StateOf, SupersedeOf, SupersededIsDead, Stored
<1> QED BY <1>1, VerdictsAreHeld, PTL

(* A budget admits no more stamps in a window, less the delay, than it     *)
(* should.                                                                 *)
THEOREM BudgetsAreKept == Spec => []BudgetKept
<1>1. Inv => BudgetKept
  BY DEF Inv
<1> QED BY <1>1, VerdictsAreHeld, PTL

(* A budget refuses nobody before it is used up.                           *)
THEOREM RefusalsAreJustified == Spec => []RefusalJustified
<1>1. Inv => RefusalJustified
  BY DEF Inv
<1> QED BY <1>1, VerdictsAreHeld, PTL
=============================================================================
