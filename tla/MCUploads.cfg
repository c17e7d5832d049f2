SPECIFICATION FairSpec
CONSTANTS
  Uploads <- MCUploadSet
  Requests <- MCRequests
  alice = alice  bob = bob  carol = carol  c1 = c1  c2 = c2
  Conversations <- MCConversations
  Targets <- MCTargets
  Users <- MCUsers
  Owner = alice
  Readers <- MCReaders
  Known = {png}
  Other = {text}
  MaxCrashes = 1
  Worker = Worker
  None = None
INVARIANTS
  TypeOK
  ShownFilesStay
PROPERTIES
  ImplementsLife
  UnattachedGoes
