SPECIFICATION Spec
CONSTANTS
  Writers = {w1, w2}
  Conversations = {c1}
  Mine = {c1}
  Lag = 2
  Limit = 2
  MaxOpen = 1
  MaxTime = 4
  None = None
INVARIANTS
  NoEventSkipped
