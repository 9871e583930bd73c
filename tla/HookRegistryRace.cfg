SPECIFICATION Spec
CONSTANTS
  Callback = {1, 2}
  Hooker = {t1, t2}
  Caller = {c1}
  None = None
  MaxOps = 2
  MaxCalls = 1
INVARIANTS
  EveryCallIntercepted
CHECK_DEADLOCK FALSE
