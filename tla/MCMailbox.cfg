CONSTANTS
  Producer = {p1, p2}
  Runner = {r1, r2}
  Capacity = 1
  MaxPush = 2
SPECIFICATION FairSpec
INVARIANTS
  SingleRunner
  NoLostWakeup
PROPERTIES
  InvokedInOrder
  AcceptedHandled
  ImplementsInbox
