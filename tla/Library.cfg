SPECIFICATION LibrarySpec
CONSTANTS
  Callback = {1, 2}
  Hooker = {1, 2}
  Caller = {c1}
  None = None
  MaxOps = 5
  MaxCalls = 2
  Reader = {1, 2}
  MaxReads = 2
  MaxChanges = 3
  NoModule = NoModule
  Apk = {a1, a2}
  MaxJobs = 2
  MaxRetryCount = 2
  MaxDeaths = 1
  Keys = {1, 2}
  Device = {1, 2}
  DetectionPresses = 3
  MaxPresses = 4
  Client = {1}
  Path = {p}
  Service = Service
  Chunk = 2
  Sizes <- FileSizes
  MaxFileCalls = 2
  MaxWrites = 1
INVARIANTS
  LibraryTypeOK
  HandlerIsExact
  SettledIsHooked
  StampCoversMap
  
  
PROPERTIES
  LibraryReturns
CHECK_DEADLOCK FALSE
