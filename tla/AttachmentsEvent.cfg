SPECIFICATION Spec
CONSTANTS
  Files = {f1}
  Messages = {m1}
  Events = {e1}
  Requests = {r1}
  Staged = Staged
  None = None
INVARIANT EventFilesReadable
CHECK_DEADLOCK FALSE
