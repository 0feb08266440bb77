SPECIFICATION PartSpec
CONSTANTS
  c2 = c2
  Clients = {c1, c2}
  alice = alice
  bob = bob
  Users = {alice, bob}
  Managers = {alice}
  None = None
  Keep = Keep
  MacOf <- SharedMac
  DefaultAssignee <- BobOwns
  Requests = {r1}
  AskedStatus <- AnyStatus
  MaxTries = 1
INVARIANTS WorkHasOwner NoOrphanCase
PROPERTIES UnreachableStaysOpen ReachableIsTaken ListedClientGetsCase
