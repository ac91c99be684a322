SPECIFICATION Spec
CONSTANTS
  Ids = {u0, u1, u2}
  Names = {n0, n1}
  Mails = {m0, m1}
  Roles = {citizen, admin}
  Requests = {r1, r2}
  NoValue = NoValue
  Citizen = citizen
  Seeded = {citizen}
  Bootstrap = u0
  BootName = n0
  BootMail = m0
  BootRoles = {citizen}
  PoolSize = 2
INVARIANTS
  RegistrationIsWhole
