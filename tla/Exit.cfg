CONSTANTS
  Shares = 3
  MaxPasses = 2
  MaxFaults = 2
SPECIFICATION FairSpec
INVARIANTS NotOversold ProtectedAtRest
PROPERTY GoneIsClosed
CHECK_DEADLOCK FALSE
