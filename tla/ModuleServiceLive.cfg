SPECIFICATION LiveSpec
CONSTANTS
  Key = {k1, k2}
  Path = {p1}
  Client = {c1, c2}
  None = None
  MaxCalls = 2
  MaxStarts = 1
  MaxKills = 1
PROPERTIES
  RestartCatchesUp
  AddedIsTried
  PendingIsTried
CHECK_DEADLOCK FALSE
