SPECIFICATION FairSpec
CONSTANTS
  Events = {e1, e2, e3}
  Cap = 2
  BatchMax = 2
  MaxPools = 2
  MaxOutages = 1
INVARIANTS SavedOnce
PROPERTIES PoolReturns QueueMoves
CHECK_DEADLOCK FALSE
