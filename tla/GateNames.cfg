SPECIFICATION Spec
CONSTANTS
  ShortLanes = {"news_short_dilution", "news_long", "scanner", "fade"}
  Window = 4
  Margin = 1
  Step = 2
  MinBars = 2
  FastBars = 1
  DeferCap = 3
  Msgs = {"m1"}
  Items <- MCItems
  Markets <- MCMarkets
  Stories <- MCStories
  NamesBound = FALSE
  MaxAttempts = 2
  SweepLimit = 1
  MaxTime = 5
  MaxFaults = 2
INVARIANT DeadOnlyByFaults
CHECK_DEADLOCK FALSE
