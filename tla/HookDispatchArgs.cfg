SPECIFICATION DispatchSpec
CONSTANTS
  MaxCallbacks = 2
INVARIANTS
  ThrowerIsIgnored
CHECK_DEADLOCK FALSE
