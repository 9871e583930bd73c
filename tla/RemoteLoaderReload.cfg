SPECIFICATION Spec
CONSTANTS
  Loader = {l1}
  None = None
  MaxProcs = 1
  MaxXloads = 2
  MaxKills = 0
  SameBase = TRUE
  MayFault = FALSE
INVARIANT LoadOnce
CHECK_DEADLOCK FALSE
