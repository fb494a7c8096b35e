CONSTANTS
  MaxTrips = 2
  Window = 3
  MaxDay = 0
  MaxOps = 1
  MaxAborts = 1
SPECIFICATION Spec
PROPERTY ManualBlockStays
CHECK_DEADLOCK FALSE
