SPECIFICATION Spec
CONSTANTS
  n1 = n1
  n2 = n2
  Addr = {a1}
  Session = {s1, s2}
  MaxConns = 4
  MaxCloses = 2
  Goroutine = {g1, g2}
  maxSequence = 1
  maxMachineID = 3
  machineID = 2
  offsetTime = 1
  MaxTime = 4
  MaxIds = 5
  CoreComponents <- MCCore
  OptionComponents <- MCOptions
  Added = {"x", "late"}
  Priority <- MCPriority
  HeaderLen = 2
  MaxInboundSize = 4
  MaxOutboundSize = 5
  ChunkSize = 3
  InitialCap = 2
  transforms <- MCTransforms
  MinSize <- MCMinSize
  MaxDecodedSize <- MCMaxDecodedSize
  Bodies <- MCBodies
  MaxFrames = 3
  Service = {"game", "gate"}
  Instance = {n1, n2}
  ServiceOf <- MCServiceOf
  MaxChanges = 3
  MaxErrors = 1
  MaxWatchers = 3
INVARIANTS
  OneOpenPerAddr
  IdsIncrease
  StopMirrorsInit
  FramesIntact
  LegalFits
PROPERTY MembersConverge
CHECK_DEADLOCK FALSE
