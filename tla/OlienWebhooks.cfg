SPECIFICATION FairSpec
CONSTANTS
  books = books
  p = p
  q = q
  Hooks = {books}
  TopicsOf <- MCBoth
  Proposals = {p, q}
  PerCycle = 1
  MaxAttempts = 2
  MaxFailures = 3
  MaxEvents = 2
  Faults = {"crash", "error", "load", "view", "late", "together"}
INVARIANTS
  WebhooksTypeOK
  NoneBehindCursor
PROPERTIES
  OffOnlyAfterFailures
  DeliveriesEnd
  LatestTold
CHECK_DEADLOCK FALSE
