SPECIFICATION Spec
CONSTANTS
  Sessions = {s1, s2, s3}
  Families = {f1}
  Requests = {r1, r2, r3}
  None = None
INVARIANTS
  FamilyIsDead
