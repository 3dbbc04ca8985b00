CONSTANTS
  Req = {r1, r2}
  Width = 3
  MaxPending = 1
  MaxForward = 1
SPECIFICATION FairSpec
INVARIANTS
  CompletedAtMostOnce
  PendingIsOwned
  WaiterHasCompleter
  AnsweredAtMostOnce
PROPERTIES
  AskReturns
