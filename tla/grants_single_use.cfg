SPECIFICATION Spec
CONSTANTS
  Users = {u1}
  Tokens = {t1, t2, t3}
  Requests = {r1, r2}
  NoValue = NoValue
  RefreshTTL = 2
  MaxTime = 1
INVARIANTS
  SingleUse
