\* Two sessions of one user on one slot, one restart, under fairness.
SPECIFICATION FairSpec
CONSTANTS
  Sids = {s1, s2}
  Users = {u1}
  NoUser = NoUser
  MaxActive = 1
  MaxDepth = 2
  MaxChunks = 2
  Durations <- OneLength
  ChunkCap = 2
  TotalCap = 3
  Repeats = FALSE
  MaxRestarts = 1
INVARIANTS SlotsWithinCap
PROPERTIES PersistedIsWhole SessionEndsOnce SessionEnds
CHECK_DEADLOCK FALSE
