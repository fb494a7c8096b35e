CONSTANTS
  m1 = m1
  m2 = m2
  Keys = {m1, m2}
  Consumers = {c1, c2}
  Priority <- MCPriority
  MaxAttempts = 2
  MaxDefers = 1
  MaxCrashes = 1
  Nobody = Nobody
  Nothing = Nothing
SPECIFICATION FairSpec

PROPERTY EveryMessageSettles
CHECK_DEADLOCK FALSE
