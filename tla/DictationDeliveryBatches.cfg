SPECIFICATION FairSpec
CONSTANTS
  HasKey = TRUE
  BatchLimit = 2
  MaxAttempts = 2
  WritesFail = FALSE
  MaxCalls = 0
  MaxKills = 1
  MaxRestarts = 0
  Skewed = {}
  Takes = {t1, t2}
PROPERTIES EntriesEndWell EntrySettles
CHECK_DEADLOCK FALSE
