CONSTANTS
  Tokens = {p1, p2}
  Readers = {r1, r2}
  BillingStatusChangesMax = 2
  CacheLimit = 1
  BillingStatuses = {"active", "completed"}
  Idle = {p2}
  MaxEdits = 1
SPECIFICATION Spec
SYMMETRY Symmetry
CHECK_DEADLOCK FALSE
INVARIANT
  RepliesWereTrue
