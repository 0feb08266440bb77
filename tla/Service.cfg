SPECIFICATION ServiceSpec
CONSTANTS
  Maintenances = {m1}
  Kinds = {"get_fan"}
  InPlace = {}
  Items <- MCItems
  Results <- MCResults
  s1 = s1
  s2 = s2
  Savers = {s1, s2}
  SaverKind <- MCKind
  SaverPhase <- MCPhase
  SaverCall <- MCCall
  Retries = 1
  MaxBatch = 1
  MaxCrashes = 1
  None = None
PROPERTIES LoopGoesOn StopIsFinal QuietsDown DataRecovers
CHECK_DEADLOCK FALSE
