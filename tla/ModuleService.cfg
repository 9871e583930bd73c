SPECIFICATION ScopedSpec
CONSTANTS
  Key = {k1, k2}
  Path = {p1, p2}
  Client = {c1, c2}
  None = None
  MaxCalls = 4
  MaxStarts = 2
  MaxKills = 1
SYMMETRY Symmetry
INVARIANTS
  PendingIsWatched
  SentWasAdded
  CrashAtomic
CHECK_DEADLOCK FALSE
