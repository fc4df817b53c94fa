SPECIFICATION FairSpec
CONSTANTS
  Users = {u1, u2}
  Quiet = {u1, u2}
  NoUser = NoUser
  Budget = 2
  Costs = {1, 2}
  Window = 2
  Catchup = TRUE
  MaxWeek = 2
  MaxBoots = 1
  MaxByHand = 1
INVARIANTS TypeOK SpendNearCap
PROPERTIES KeepsRows CronReturns
CHECK_DEADLOCK FALSE
