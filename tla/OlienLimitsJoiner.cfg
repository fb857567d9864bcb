SPECIFICATION SpecLimits
CONSTANTS
  p = p
  x = x
  d = d
  e = e
  v1 = v1
  Ids <- MCIds
  Addresses <- MCAddresses
  Implementations = {v1}
  MAX_DELAY = 1
  MIN_RECOVERY_DELAY = 1
  UINT16 = 65536
  MaxLimits = 2
  Destinations = {d}
  Amounts = {1}
  Periods = {1}
  SignerInputs <- MCSignerInputs
  StartRules <- MCStartRules
  MaxTime = 1
  MaxEpoch = 3
  MaxSets = 3
  MaxLive = 1
  NoPayment = NoPayment
  NoOperation = NoOperation
INVARIANTS
  JoinerIsAStranger
CHECK_DEADLOCK FALSE
