\* Two calls at a time, two challenges, windows of one, one and two units.
SPECIFICATION Spec
CONSTANTS
  Callers = {tab1, tab2}
  ChallengeTTL = 1
  AccessTTL = 1
  RefreshTTL = 2
  MaxTime = 4
  MaxNonces = 2
  MaxBegun = 4
  MaxFaults = 1
SYMMETRY Symmetry
INVARIANTS SessionsTypeOK ExchangedOnce SignedOutIsRevoked
CHECK_DEADLOCK FALSE
