SPECIFICATION FairSpec
CONSTANTS
  a = a
  b = b
  RulesOf <- MCRules
  Queue <- MCChange
  MaxRequests = 1
  MaxSeq = 1
  MaxBlocks = 2
  ChunkBlocks = 2
  Operations = {0}
  Faults = {"lapse", "crash", "cycle", "log", "request"}
  Foreign = Foreign
INVARIANTS
  ProposalsTypeOK
  NeverAheadOfChain
PROPERTIES
  RunsAreTold
  SlotsSettle
  ClaimsEnd
CHECK_DEADLOCK FALSE
