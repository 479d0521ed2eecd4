SPECIFICATION FairSpec
CONSTANTS
  Files = {f1}
  Messages = {m1, m2}
  Events = {e1}
  Requests = {r1, r2, r3}
  Staged = Staged
  None = None
INVARIANTS
  IInv
  FilesReadable
PROPERTIES
  StagedReclaimed
CHECK_DEADLOCK FALSE
