SPECIFICATION TimerSpec
CONSTANTS
  Callers = {c1}
  Jobs = {j1}
  Second = 2
  Limit = 2
  MaxTime = 3
  MaxCall = 2
  MaxSlack = 2
  Unset = Unset
PROPERTY StoppedOnlyOver
CHECK_DEADLOCK FALSE
