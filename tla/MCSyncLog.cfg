SPECIFICATION Spec
CONSTANTS
  Writers = {w1, w2, w3}
  Conversations = {c1, c2, c3}
  Mine = {c1, c2}
  Lag = 1
  Limit = 2
  MaxOpen = 3
  MaxTime = 3
  None = None
INVARIANTS
  TypeOK
  IdsFollowSeqs
  SkipsExplained
PROPERTIES
  ReplayMovesOn
SYMMETRY Symmetry
