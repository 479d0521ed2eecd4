SPECIFICATION Spec
CONSTANTS
  Users = {alice, bob}
  AdminRole = ADMIN
  Roles = {ADMIN, MEMBER}
  Requests = {r1, r2, r3}
  LinkTtl = 2
  SessionTtl = 3
  MaxLinks = 1
  MaxTime = 3
  None = None
INVARIANTS IInv OneSessionPerLink LinksBounded AnAdminRemains
PROPERTY NobodyBarredEnters
SYMMETRY Symmetry
CHECK_DEADLOCK FALSE
