SPECIFICATION RuntimeSpec
CONSTANTS
  Thread = {t1, t2, t3}
  Nobody = Nobody
  MaxCheckpoints = 2
  MaxRequests = 2
  MaxDetaches = 1
  classA = classA
  classB = classB
  classC = classC
  Class = {classA, classB, classC}
  NoClass = NoClass
  Super <- SuperOf
  Uses <- UsesOf
  MaxInits = 1
  MaxMutexOps = 5
  MaxRwOps = 4
  MaxTasks = 2
  MaxPoolCalls = 3
  Mutator = {m1}
  x = x
  y = y
  Obj = {x, y}
  Root = Root
  NoObj = NoObj
  soft = soft
  weak = weak
  finalizer = finalizer
  phantom = phantom
  Ref = {soft, weak, finalizer, phantom}
  Kind <- KindOf
  Points <- PointsTo
  MaxGets = 2
INVARIANTS
  RuntimeTypeOK
  OwnerIsInside
  HoldersAgree
  SweepIsSafe
PROPERTIES
  SignalReaches
  WaitMeansDone
  RequestsFinish
  InitFinishes
  LockReturns
  RwLockReturns
  ServicesAnswer
CHECK_DEADLOCK FALSE
