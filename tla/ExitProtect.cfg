CONSTANTS
  Shares = 2
  MaxPasses = 1
  MaxFaults = 0
SPECIFICATION Spec
INVARIANT ScaleOutReplacesStop
CHECK_DEADLOCK FALSE
