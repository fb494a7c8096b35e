CONSTANTS
  Positions = {p1, p2}
  Kinds = {"full", "half"}
  MaxDays = 1
  MaxFaults = 0
  MaxRestarts = 0
  MaxEvents = 0
SPECIFICATION Spec
INVARIANT NoScalpOvernight
CHECK_DEADLOCK FALSE
