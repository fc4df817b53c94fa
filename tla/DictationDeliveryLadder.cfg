SPECIFICATION FairSpec
CONSTANTS
  HasKey = TRUE
  BatchLimit = 1
  MaxAttempts = 2
  WritesFail = FALSE
  MaxCalls = 2
  MaxKills = 0
  MaxRestarts = 1
  Skewed = {}
  Takes = {t1}
INVARIANTS AtMostOneRow DeliveredIsTraced
PROPERTIES TakeEnds
CHECK_DEADLOCK FALSE
