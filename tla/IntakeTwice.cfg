SPECIFICATION IntakeSpec
CONSTANTS
  a = a
  b = b
  early = early
  edited = edited
  update = update
  X = X
  Items = {a, b}
  Shows <- MCShows
  Alike <- MCAlike
  Outlet <- MCOutlet
  Symbols <- MCSymbols
  Archived = {}
  Immutable = {}
  Markets = {"open"}
  Verdicts <- MCVerdicts
  HeldNames <- MCHeldNames
  MaxRevision = 2
  MaxTries = 2
  MaxIntakeFaults = 1
  MaxTime = 1
  DiscardWindow = 0
  Window = 1
  VectorWindow = 0
  Reescalate = 3
INVARIANT OneAnalysisPerStory
CHECK_DEADLOCK FALSE
