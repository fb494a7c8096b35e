CONSTANTS
  m1 = m1
  m2 = m2
  Keys = {m1, m2}
  Consumers = {c1, c2}
  Priority <- MCPriority
  MaxAttempts = 3
  MaxDefers = 1
  MaxCrashes = 2
  Nobody = Nobody
  Nothing = Nothing
  None = None
  Parts = {"queue", "feeds", "alerts"}
  Feeds = {"x"}
  Shown = 2
  Newest = 2
  Retries = 1
  FeedDegradeAfter = 2
  AggregateDegradeAfter = 2
  Threshold = 1
  OffhoursThreshold = 3
  MaxFaults = 2
  ConfirmPasses = 2
  Realert = 2
  MailAttempts = 2
  MaxPasses = 3
  MaxStops = 1
SPECIFICATION BackgroundSpec
INVARIANTS DeadLetterEarned GapsAreBookedOnce CriticalIsTold
PROPERTIES DoneIsFinal SettledUnlessStranded AtLeastOnce ShownIsStored EveryMailSettles
CHECK_DEADLOCK FALSE
