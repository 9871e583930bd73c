SPECIFICATION SafetySpec
CONSTANTS
  Thread = {t1, t2, t3}
  Nobody = Nobody
  MaxThin = 1
  MaxDepth = 3
  Hash = {1, 2}
  MaxCheckpoints = 2
  MaxRequests = 3
  MaxDetaches = 1
  classA = classA
  classB = classB
  classC = classC
  Class = {classA, classB, classC}
  NoClass = NoClass
  Super <- SuperOf
  Uses <- Circular
  MaxInits = 1
  Client = {c1, c2}
  Path = {p, q}
  Service = Service
  Chunk = 2
  Sizes <- FileSizes
  MaxFileCalls = 1
  MaxWrites = 1
  MaxCallbacks = 3
  d1 = d1
  d2 = d2
  Dir = {d1, d2}
  Framework = Framework
  SysId = {1}
  AppId = {2, 3}
  Bit <- BitOf
  Setter = {s1, s2}
  MaxSets = 2
  MaxMods = 2
SYMMETRY Symmetry
INVARIANTS
  SafetyTypeOK
  LockWordKept
  NobodyForgotten
  WorldStops
  CheckpointOnce
  ClinitOnce
  ToldIsReady
  
  CallContract
  SetIsFound
CHECK_DEADLOCK FALSE
