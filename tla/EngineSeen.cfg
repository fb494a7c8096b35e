CONSTANTS
  Positions = {p1, p2}
  Kinds = {"full"}
  MaxDays = 1
  MaxFaults = 1
  MaxRestarts = 0
  MaxEvents = 1
SPECIFICATION Spec
PROPERTY EveryPositionSeen
CHECK_DEADLOCK FALSE
