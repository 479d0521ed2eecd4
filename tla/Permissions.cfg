SPECIFICATION Spec
CONSTANTS
  c1 = c1  c2 = c2
  Calls = {c1, c2}
  Seed = Seed
  me = me  other = other
  Me = me
  Owners = {me, other}
  d1 = d1  d2 = d2  a1 = a1  a2 = a2  one = one
  Domains = {d1, d2}
  Addresses = {a1, a2}
  Star = Star
  Patterns = {Star, one}
  Covers <- MCCovers
  Targets <- MCTargets
  Scopes <- MCScopes
  Null = Null
  Mails <- MCMails
INVARIANTS IInv ListsKeepToRights ViewerTimely
PROPERTIES AnswersTrue
SYMMETRY Symmetry
CHECK_DEADLOCK FALSE
