------------------------------ MODULE RateLimit ------------------------------
(***************************************************************************)
(* The sliding-window budgets of app/core/ratelimit.py: one Redis sorted   *)
(* set for each budget, changed by one Lua script, which Redis runs        *)
(* atomically.  A member is named by the millisecond the caller read from  *)
(* its clock, so the set of members is a set of stamps.  The replicas and  *)
(* Redis have one clock here; cost is 1, as in every call of check.        *)
(***************************************************************************)
EXTENDS Integers, FiniteSets

CONSTANTS
  Budgets,
  Limit,      \* [Budgets -> Nat], the number of calls a window admits
  Window      \* the length of the window

VARIABLES
  bucket,     \* the sorted set of each budget
  expiry      \* when Redis drops the key, PEXPIRE

BudgetsTypeOK ==
  /\ bucket \in [Budgets -> SUBSET Nat]
  /\ expiry \in [Budgets -> Nat]

BudgetsInit ==
  /\ bucket = [b \in Budgets |-> {}]
  /\ expiry = [b \in Budgets |-> 0]

(* Mutant: no ZREMRANGEBYSCORE.                                            *)
KeptAll(b, stamp, now) == IF expiry[b] < now THEN {} ELSE bucket[b]

(* The members left once the key may have expired and ZREMRANGEBYSCORE has *)
(* removed what is older than the window.                                  *)
Kept(b, stamp, now) ==
  IF expiry[b] < now THEN {} ELSE {t \in bucket[b] : stamp - Window < t}

(* Mutant: one call too many.                                              *)
SpendOneMore(b, stamp, now, granted) ==
  LET kept == Kept(b, stamp, now) IN
    /\ granted <=> Cardinality(kept) <= Limit[b]
    /\ bucket' = [bucket EXCEPT ![b] = IF granted THEN kept \cup {stamp} ELSE kept]
    /\ expiry' = [expiry EXCEPT ![b] = IF granted THEN now + Window ELSE @]

(* The script, called at "now" with the caller's earlier "stamp".          *)
Spend(b, stamp, now, granted) ==
  LET kept == Kept(b, stamp, now) IN
    /\ granted <=> Cardinality(kept) < Limit[b]
    /\ bucket' = [bucket EXCEPT ![b] = IF granted THEN kept \cup {stamp} ELSE kept]
    /\ expiry' = [expiry EXCEPT ![b] = IF granted THEN now + Window ELSE @]
=============================================================================
