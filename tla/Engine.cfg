CONSTANTS
  Positions = {p1, p2}
  Kinds = {"full", "closed"}
  MaxDays = 2
  MaxFaults = 1
  MaxRestarts = 1
  MaxEvents = 1
SPECIFICATION Spec
INVARIANTS ScalpsFlatOnFullDays MonitoredSoldBeforeClose
SYMMETRY Symmetry
CHECK_DEADLOCK FALSE
