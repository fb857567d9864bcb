SPECIFICATION FairSpec
CONSTANTS
  a = a
  b = b
  RulesOf <- MCRules
  Queue <- MCPayment
  MaxRequests = 1
  MaxSeq = 0
  MaxBlocks = 1
  ChunkBlocks = 2
  Operations = {}
  Faults = {"lapse"}
  Foreign = Foreign
PROPERTIES
  RunsStayTold
CHECK_DEADLOCK FALSE
