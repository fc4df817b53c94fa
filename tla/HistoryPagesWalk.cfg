SPECIFICATION PagesSpec
CONSTANTS
  FirstId = 9
  MaxDictations = 3
  Jobs = {1}
  Limit = 1
  Days = 2
  MaxTime = 3
  MaxPages = 4
INVARIANTS PagesTypeOK NoRowTwice NoRowSkipped FirstPageIsNewest
CONSTRAINT WalkGoesOn
CHECK_DEADLOCK FALSE
