CONSTANTS
  MaxTrips = 2
  Window = 3
  MaxDay = 4
  MaxOps = 0
  MaxAborts = 0
SPECIFICATION Spec
PROPERTY RefusalHolds
CHECK_DEADLOCK FALSE
