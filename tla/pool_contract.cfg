SPECIFICATION FairSpec
CONSTANTS
  Clients = {c1, c2, c3, c4}
  Conns = {k1, k2}
  None = None
  Lost = Lost
INVARIANTS
  TypeOK
  NoConnectionLeaks
  NoTransactionIsInherited
PROPERTIES
  ImplementsContract
