SPECIFICATION SpecLimits
CONSTANTS
  p = p
  x = x
  d = d
  e = e
  v1 = v1
  Ids <- MCIds
  Addresses <- MCAddresses
  Implementations = {v1}
  MAX_DELAY = 1
  MIN_RECOVERY_DELAY = 1
  UINT16 = 65536
  MaxLimits = 1
  Destinations = {d}
  Amounts = {1, 2}
  Periods = {0, 2}
  SignerInputs <- MCSignerInputs
  StartRules <- MCStartRules
  MaxTime = 5
  MaxEpoch = 3
  MaxSets = 2
  MaxLive = 1
  NoPayment = NoPayment
  NoOperation = NoOperation
INVARIANTS
  LimitsTypeOK
PROPERTIES
  KeepsPromise
CHECK_DEADLOCK FALSE
