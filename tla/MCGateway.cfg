SPECIFICATION Spec
CONSTANTS
  Conn = {c1, c2}
  MaxMessage = 1
INVARIANTS
  GroupAccounting
  StopComplete
PROPERTIES
  AgentFollows
  StopDrains
CHECK_DEADLOCK FALSE
