SPECIFICATION Spec
CONSTANTS
  Ids = {u0, u1, u2}
  Names = {n0, n1, n2}
  Mails = {m0, m1, m2}
  Roles = {citizen, admin}
  Requests = {r1, r2}
  NoValue = NoValue
  Citizen = citizen
  Seeded = {citizen}
  Bootstrap = u0
  BootName = n0
  BootMail = m0
  BootRoles = {citizen}
  PoolSize = 2
SYMMETRY Symmetry
INVARIANTS
  TypeOK
  OneAccountEach
  ConflictIsReal
  CreatedHasRoles
  NoConnectionLost
PROPERTIES
  RoleWritesAreWhole
