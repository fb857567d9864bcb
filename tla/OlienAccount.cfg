SPECIFICATION Spec
CONSTANTS
  a = a
  b = b
  c = c
  g = g
  k = k
  v1 = v1
  v2 = v2
  Ids <- MCIds
  Addresses <- MCAddresses
  OffChain <- MCOffChain
  Implementations = {v1, v2}
  MAX_DELAY = 3
  MIN_RECOVERY_DELAY = 1
  UINT16 = 65536
  SCHEDULE_WINDOW = 1
  MAX_VALIDITY = 3
  MaxTime = 3
  MaxEpoch = 6
  MaxSeq = 2
  MaxApprovals = 1
  Genesis = v1
  Keys = {k}
  Batches <- MCBatches
  CallsOf <- MCCallsOf
  Validities <- MCWindows
  Inits <- MCInits
  NoFrame = NoFrame
  NoHash = NoHash
INVARIANTS
  TypeOK
  RegistryConsistent
  AlwaysUsable
  DeadNotPending
  EpochPinsRules
  VetoStops
PROPERTIES
  DeadIsFinal
  RunsOnce
  RulesChangeAsAgreed
  RecoveryNeverEscalates
  VetoNeedsQuorum
CHECK_DEADLOCK FALSE
