SPECIFICATION FairSpec
CONSTANTS
  Users = {u1, u2}
  Admin = u1
  Tokens = {t1, t2}
  First = t1
  NoToken = NoToken
  Requests = {r1}
  Desks = {d1}
  Rotators = {a1, a2}
  Ttl = 0
  Transit = 0
  MaxItems = 2
  MaxRestarts = 0
PROPERTIES RotationEnds
CHECK_DEADLOCK FALSE
