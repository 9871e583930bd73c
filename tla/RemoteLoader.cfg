SPECIFICATION MixedSpec
CONSTANTS
  Loader = {l1, l2}
  Single = l1
  None = None
  MaxProcs = 2
  MaxXloads = 4
  MaxPairXloads = 3
  MaxKills = 1
  SameBase = FALSE
  MayFault = FALSE
INVARIANTS
  ContextRestored
  LoadOnce
  SuccessWithoutFault
PROPERTY XloadReturns
CHECK_DEADLOCK FALSE
