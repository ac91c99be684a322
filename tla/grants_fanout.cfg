SPECIFICATION Spec
CONSTANTS
  Users = {u1}
  Tokens = {t1, t2, t3, t4}
  Requests = {r1, r2}
  NoValue = NoValue
  RefreshTTL = 1
  MaxTime = 0
SYMMETRY Symmetry
INVARIANTS
  BoundedFanOut
