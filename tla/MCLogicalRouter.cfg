SPECIFICATION FairSpec
CONSTANTS
  Node = {n1, n2}
  None = None
  MaxInst = 2
  Caller = {n1}
  MaxRequests = 2
  MaxFaults = 1
  MaxStops = 1
INVARIANTS
  CacheFenced
  SingleActivation
PROPERTY RequestsEnd
CHECK_DEADLOCK FALSE
