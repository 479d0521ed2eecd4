SPECIFICATION FairSpec
CONSTANTS
  Events = {u1, u2}
  Syncs = {s1}
  Requests = {r1}
  MaxObjects = 1
  MaxEdits = 2
  MaxFaults = 1
  None = None
INVARIANTS
  IInv
  CleanIsSynced
PROPERTY Converges
CHECK_DEADLOCK FALSE
