SPECIFICATION Spec
CONSTANTS
  Clients = {c1}
  MacOf <- SharedMac
  Data = {d1, d2}
  NotSeen = NotSeen
  NoPointer = NoPointer
  Retention = 2
  MaxRound = 1
  MaxNow = 5
INVARIANT PointerHasRow
CHECK_DEADLOCK FALSE
