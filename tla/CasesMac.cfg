SPECIFICATION Spec
CONSTANTS
  Clients = {c1, c2}
  alice = alice
  bob = bob
  Users = {bob}
  Managers = {}
  None = None
  Keep = Keep
  MacOf <- SharedMac
  DefaultAssignee <- BobOwns
  Requests = {}
  AskedStatus = {}
  MaxTries = 1
PROPERTY CaseGoesWithItsClient
