SPECIFICATION SpecUserOps
CONSTANTS
  a = a
  b = b
  c = c
  k = k
  o = o
  p = p
  v1 = v1
  Ids <- MCIds
  Addresses <- MCAddresses
  OffChain <- MCOffChain
  Implementations = {v1}
  MAX_DELAY = 1
  MIN_RECOVERY_DELAY = 1
  UINT16 = 65536
  SCHEDULE_WINDOW = 1
  MAX_VALIDITY = 1
  MaxTime = 1
  MaxEpoch = 3
  MaxSeq = 1
  MaxApprovals = 1
  Genesis = v1
  Keys = {k, o, p}
  OpKeys = {o, p}
  MaxBundle = 2
  Batches <- MCBatches
  CallsOf <- MCCallsOf
  Validities <- MCWindows
  Inits <- MCInits
  NoFrame = NoFrame
  NoHash = NoHash
INVARIANTS
  UserOpsTypeOK
PROPERTIES
  DeadIsFinal
  RulesChangeAsAgreed
  SignersActForThemselves
CHECK_DEADLOCK FALSE
