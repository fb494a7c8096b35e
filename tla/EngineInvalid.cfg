CONSTANTS
  Positions = {p1, p2}
  Kinds = {"full"}
  MaxDays = 1
  MaxFaults = 0
  MaxRestarts = 1
  MaxEvents = 0
SPECIFICATION Spec
INVARIANT InvalidatedSoldBeforeClose
CHECK_DEADLOCK FALSE
