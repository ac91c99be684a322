SPECIFICATION Spec
CONSTANTS
  Pairs = {p1}
  AccessTTL = 1
  RefreshTTL = 2
  MaxSkew = 500
  Moments <- AroundTheHalf
INVARIANTS
  TypeOK
  Lifetimes
  RefreshOutlivesAccess
