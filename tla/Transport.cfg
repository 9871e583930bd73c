SPECIFICATION FairSpec
CONSTANTS
  MaxCalls = 3
  MaxDeaths = 2
  MaxKills = 1
PROPERTIES
  KeepsContract
  TransactionReturns
CHECK_DEADLOCK FALSE
