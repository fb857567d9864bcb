SPECIFICATION FairSpec
CONSTANTS
  a = a
  b = b
  r1 = r1
  r2 = r2
  Signers = {a, b}
  Requests = {r1, r2}
  Rules <- MCRules
  ValidBefore = 1
  Lag = 1
  MaxTime = 2
  MaxChanges = 1
  MaxFaults = 1
INVARIANTS
  ChequesTypeOK
  TrueOutcome
  EnoughIsIssued
PROPERTIES
  RefusedOnceVoided
  Settles
CHECK_DEADLOCK FALSE
