SPECIFICATION Spec
CONSTANTS
  Conn <- MCConn
  MaxDials = 2
  MaxData = 2
  MaxFaults = 1
INVARIANTS
  DataAfterHello
  OpenIsTracked
  CloseComplete
PROPERTY Reconnects
CHECK_DEADLOCK FALSE
