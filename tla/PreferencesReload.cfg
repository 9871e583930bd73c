SPECIFICATION PrefsSpec
CONSTANTS
  Reader = {r1}
  MaxReads = 2
  MaxChanges = 2
INVARIANTS
  ReloadSees
CHECK_DEADLOCK FALSE
