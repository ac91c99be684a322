SPECIFICATION Spec
CONSTANTS
  Users = {u1, u2}
  Roles = {citizen, admin}
  Citizen = citizen
  Required = admin
  Grants = {g1}
  Calls = {c1}
  NoValue = NoValue
  TTL = 2
  MaxTime = 3
  MaxTokens = 2
SYMMETRY Symmetry
INVARIANTS
  TypeOK
  SignedRolesAreOfOneMoment
  AdmissionIsBounded
