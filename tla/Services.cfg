SPECIFICATION ServicesSpec
CONSTANTS
  Parts = {"risk", "sizing", "scanner", "guard", "plan", "themes", "night"}
  Capitals = {3, 6}
  Budget <- MCBudget
  NotionalCap <- MCNotional
  HeatCap <- MCHeat
  TotalHeatCap <- MCTotal
  SectorCap <- MCSector
  ShortHeatCap <- MCShorts
  GrossShortCap <- MCShorts
  MaxSpreadBps = 1
  BlackoutMin = 1
  MaxTrades = 2
  Signals = {"s1", "b1"}
  Planned = {"c1"}
  Strays = {"x1"}
  Sig <- MCSig
  ThesisBudget <- MCThesisBudget
  MaxFound = 1
  MaxScanner = 1
  ClusterMode = "veto"
  ClusterMax = 1
  ShortMode = "live"
  Versions = {1}
  MaxDays = 1
  Tickers = {"a", "b"}
  Readings <- MCReadings
  Losers = TRUE
  ObserveAfterCap = TRUE
  MaxPerScan = 2
  MaxPerHour = 1
  MaxPerDay = 1
  MaxConcurrent = 2
  MaxLosses = 1
  Cooloff = 3
  EarlyUntil = 1
  MaxTime = 2
  HourLength = 1
  MaxDay = 2
  MaxFaults = 1
  Notices = {"a1", "a4"}
  Holdings = {1, 2}
  Answers <- MCAnswers
  GuardRetries = 0
  MaxDeliveries = 2
  MaxCloses = 1
  Theses <- MCTheses
  TradingDays = {3, 4}
  Days = 4
  MaxNewPerDay = 2
  MaxOpenPositions = 2
  MaxPerThesis = 2
  ReviewVerdicts = 1
  CooloffDays = 1
  MaxCrashes = 1
  ThesisLane <- MCLane
  Wide <- MCWide
  Seeds = {"t1"}
  NewIds <- MCNewIds
  TopK = 2
  ReviewLists <- MCReviews
  MaxAttempts = 2
  MaxLaneAge = 0
  StaleNights = 0
  Nights = 2
  MaxDeaths = 1
  News = {"a"}
  Synthetics = {"y", "z"}
  Slots = 2
  LateMax = 2
  PassMax = 2
  MaxAge = 1
  None = None
INVARIANTS HeatExceededOnlyByUnseen SizedToTheCaps SentWithinCaps JudgedOnce OneEntryPerTicker EvidenceCountedOnce BudgetLastsToTheOpen SympathyStopsAfterOneHop NightIsWorkedOff
PROPERTY DeadThesisIsLeft
CHECK_DEADLOCK FALSE
