CONSTANTS
  a1 = a1
  a2 = a2
  a3 = a3
  n = n
  None = None
  Proc = {a1, a2, a3}
  Name = {n}
  NameOf <- MCNameOf
  Client = {c1}
  Capacity = 1
  MaxOps = 1
  Spawner = {a1}
  Timed = {a1}
  Forcer = {a3}
SPECIFICATION FairSpec
INVARIANTS
  DestroyIsFinal
  RegistryAgrees
  StopIsComplete
PROPERTIES
  StopLeadsToRemoval
  StopReturns
