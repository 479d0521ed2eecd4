SPECIFICATION FairSpec
CONSTANTS
  Msgs = {m1}
  Requests = {r1, r2, r3}
  Versions = {v1, v2, v3}
  Incomplete = {v3}
  Transport = "raw"
  None = None
INVARIANTS
  PipelineInv
  MailedAtMostOnce
  StatusTellsTruth
  MailedAsStored
PROPERTIES
  KeepsPromise
  EveryDispatchSettles
CHECK_DEADLOCK FALSE
