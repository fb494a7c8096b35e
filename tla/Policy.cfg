CONSTANTS
  Prices = {0, 1, 2, 3, 4, 5}
  MaxSpread = 2
  Entry = 2
  RUnit = 1
  BreakevenAt = 1
  TrailAt = 3
  TrailBehind = 1
  TargetAt = 2
  LockAt = 3
  LockBehind = 1
  Qty = 4
  MipBehind = 2
  MaxNews = 2
  MaxFaults = 1
  MaxRefusals = 1
SPECIFICATION FairSpec
INVARIANT ScaledOncePerFault
PROPERTIES LoosenedOnlyByInvalidation GuardArmIsSold
CHECK_DEADLOCK FALSE
