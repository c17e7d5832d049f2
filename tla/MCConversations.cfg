SPECIFICATION Spec
CONSTANTS
  alice = alice
  bob = bob
  carol = carol
  Users = {alice, bob, carol}
  Requests = {r1, r2, r3}
  Founded = founded
  Founder = alice
  MemberLimit = 2
  MaxUses = 2
  Offered = {"ADMIN", "MEMBER"}
  Kinds = {"CHANNEL"}
  None = None
SYMMETRY Symmetry
INVARIANTS
  TypeOK
  DirectChatsConverge
  InviteUsesExact
  OneOwner
PROPERTIES
  RolesAreTheOwners
