SPECIFICATION Spec
CONSTANTS
  Users = {u1, u2}
  Admin = u1
  Tokens = {t1, t2, t3}
  First = t1
  NoToken = NoToken
  Requests = {r1}
  Desks = {d1}
  Rotators = {a1, a2}
  Ttl = 1
  Transit = 1
  MaxItems = 2
  MaxRestarts = 1
SYMMETRY FreshSymmetry
INVARIANTS TypeOK KeysKeepKind
PROPERTIES GoneTokensFade BreakGlassOpens
CHECK_DEADLOCK FALSE
