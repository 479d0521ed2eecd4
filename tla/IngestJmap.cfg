SPECIFICATION FairSpec
CONSTANTS
  Mails = {m1, m2}
  Anonymous = {m2}
  TooLarge = {}
  Addresses = {a1}
  Bound = a1
  Deliveries = {}
  Runs = {r1}
  Ids = {i1, i2}
  Kind = "JMAP"
  Max = 1
  None = None
PROPERTIES
  FetchedAtLast
CHECK_DEADLOCK FALSE
