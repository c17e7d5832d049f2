SPECIFICATION FairSpec
CONSTANTS
  Sessions = {s1, s2, s3, s4}
  Families = {f1, f2}
  Requests = {r1, r2}
  None = None
INVARIANTS
  TypeOK
  SingleUse
  OneLiveToken
  RevokedIsMarked
PROPERTIES
  RequestsAnswered
