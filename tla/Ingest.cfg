SPECIFICATION Spec
CONSTANTS
  Mails = {m1, m2}
  Anonymous = {m2}
  TooLarge = {}
  Addresses = {a1}
  Bound = a1
  Deliveries = {d1}
  Runs = {r1, r2}
  Ids = {i1, i2}
  Kind = "POP3"
  Max = 2
  None = None
SYMMETRY Symmetry
INVARIANTS
  IInv
  NoMailLost
  StoredOnce
  FetchedOnce
CHECK_DEADLOCK FALSE
