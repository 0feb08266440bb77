SPECIFICATION AccountsSpec
CONSTANTS
  Projects = {q1}
  MaxUsers = 2
  NoProject = NoProject
  Keep = Keep
INVARIANT AlwaysStarts
CHECK_DEADLOCK FALSE
