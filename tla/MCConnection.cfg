SPECIFICATION Spec
CONSTANTS
  QueueCap = 1
  MaxPush = 2
  Sending = {"server"}
  Failing = {"server"}
  Encryption = {TRUE, FALSE}
INVARIANTS
  NoEarlyData
  DeliveredInOrder
  DrainComplete
PROPERTIES
  ImplementsCallbacks
CHECK_DEADLOCK FALSE
