SPECIFICATION Spec
CONSTANTS
  Key = {k1}
  Path = {p1, p2}
  Client = {c1}
  None = None
  MaxCalls = 2
  MaxStarts = 0
  MaxKills = 0
PROPERTIES
  UpdateTakesEffect
CHECK_DEADLOCK FALSE
