SPECIFICATION Spec
CONSTANTS
  Ids = {u0, u1}
  Roles = {citizen, admin}
  Requests = {r1, r2}
  Default = citizen
  Bootstrap = u0
  BootRoles = {citizen, admin}
  MaxVersions = 4
SYMMETRY Symmetry
INVARIANTS
  TypeOK
  ListIsOfTwoMoments
  AnswerIsOfOneMoment
  UpdateShowsItsWrite
