SPECIFICATION Spec
CONSTANTS
  alice = alice
  bob = bob
  photo = photo
  hello = hello
  Conversations = {c1}
  Users = {alice, bob}
  Moderators = {bob}
  Keys = {k1}
  Bodies = {hello, bye}
  Attachments = {photo}
  Owner <- MCOwner
  Payloads <- MCPayloads
  Requests = {r1, r2, r3}
  MaxUpTo = 1
  None = None
INVARIANTS
  LoserReturnsWinner
