SPECIFICATION FairSpec
CONSTANTS
  hello = hello
  Entries = {hello}
  Connects <- MCConnects
  Loops <- MCLoops
  Callers <- MCCallers
  Sockets <- MCSockets
  Of <- MCOf
  Conversations = {c1}
  MaxSession = 2
  MAX_ATTEMPTS = 2
  None = None
INVARIANTS
  TypeOK
  OwnRefreshesSpare
  SocketDiscipline
  NothingDropped
PROPERTIES
  EveryMessageSettles
