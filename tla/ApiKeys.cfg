SPECIFICATION Spec
CONSTANTS
  r1 = r1  r2 = r2  r3 = r3
  Requests = {r1, r2, r3}
  Seeds = {root}
  KeyAdmin = KEY_ADMIN
  read = MAIL_READ
  Capabilities = {KEY_ADMIN, MAIL_READ}
  Globals = {KEY_ADMIN}
  d1 = d1  d2 = d2
  Domains = {d1, d2}
  Characters = {"a", "b", "*"}
  Star = "*"
  Hosts = {"x"}
  All = All
  Addresses <- MCAddresses
  Patterns <- MCPatterns
  Orders <- MCOrders
  Admin = Admin
  None = None
INVARIANTS IInv NoEscalation RevocationStands
SYMMETRY Symmetry
CHECK_DEADLOCK FALSE
