SPECIFICATION Spec
CONSTANTS
  Requests = {r1, r2, r3}
  MaxAttempts = 1
  Ttl = 2
  Retention = 0
  Limit <- MCLimit
  Window = 3
  MaxDelay = 1
  MaxTime = 4
  None = None
INVARIANTS
  TypeOK
  SingleUse
  GuessesBounded
  SupersededIsDead
  BudgetKept
  RefusalJustified
SYMMETRY Symmetry
