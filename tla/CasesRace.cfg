SPECIFICATION Spec
CONSTANTS
  Clients = {c1}
  alice = alice
  bob = bob
  Users = {alice, bob}
  Managers = {alice}
  None = None
  Keep = Keep
  MacOf <- OwnMac
  DefaultAssignee <- BobOwns
  Requests = {r1, r2}
  MaxTries = 2
  AskedStatus = {"UNASSIGNED", "DISCUSSING", "RESOLVED"}
INVARIANTS PassSettles
PROPERTIES WorkUndisturbed ShowsDesk
SYMMETRY SameSlots
