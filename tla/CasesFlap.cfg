SPECIFICATION AgedSpec
CONSTANTS
  bob = bob
  Clients = {c1}
  Users = {bob}
  Managers = {}
  None = None
  Keep = Keep
  MacOf <- OwnMac
  DefaultAssignee <- BobOwns
  Requests = {}
  AskedStatus = {}
  MaxTries = 1
PROPERTY ResolvedWhenStable
