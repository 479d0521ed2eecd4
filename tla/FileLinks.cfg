SPECIFICATION Spec
CONSTANTS
  l1 = l1  t1 = t1
  d1 = d1  d2 = d2  r1 = r1  r2 = r2
  Links = {l1}
  Targets = {t1}
  Downloads = {d1, d2}
  Revokers = {r1, r2}
  Unlimited = Unlimited
  NotGiven = NotGiven
  None = None
  Limits <- MCLimits
  TtlRequests <- MCTtls
  MinTtl = 1
  DefaultTtl = 1
  MaxTtl = 2
  MaxNow = 2
INVARIANTS IInv GrantsWithinLimit
PROPERTIES DeadStaysDead ImplementsPromise
SYMMETRY Symm
CHECK_DEADLOCK FALSE
