CONSTANTS
  Positions = {p1, p2}
  Kinds = {"full", "closed"}
  MaxDays = 2
  MaxFaults = 0
  MaxRestarts = 0
  MaxEvents = 0
SPECIFICATION Spec
INVARIANT SessionBarOnce
CHECK_DEADLOCK FALSE
