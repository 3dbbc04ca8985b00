SPECIFICATION Spec
CONSTANTS
  QueueCap = 1
  MaxPush = 1
  Sending = {}
  Failing = {"client"}
  Encryption = {TRUE}
PROPERTIES
  HandshakeEnds
  ClosesTogether
CHECK_DEADLOCK FALSE
