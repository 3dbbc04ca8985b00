SPECIFICATION Spec
CONSTANTS
  Request = {r1, r2, r3}
  Unrouted = {r3}
  None = None
  Capacity = 2
  MaxCalls = 2
  MaxTells = 1
INVARIANT RespondedOnce
CHECK_DEADLOCK FALSE
