SPECIFICATION Spec
CONSTANTS
  a = a
  b = b
  RulesOf <- MCRules
  Queue <- MCPayment
  MaxRequests = 1
  MaxSeq = 0
  MaxBlocks = 1
  ChunkBlocks = 2
  Operations = {0}
  Faults = {}
  Foreign = Foreign
INVARIANTS
  ReplacedLostItsSlot
CHECK_DEADLOCK FALSE
