CONSTANTS
  MaxTrips = 2
  Window = 3
  MaxDay = 3
  MaxOps = 1
  MaxAborts = 1
SPECIFICATION FairSpec
INVARIANTS CleanBlockStays AtMostOneSlips
PROPERTIES LadderFollowsHeartbeats TripHoldsForTheDay
CHECK_DEADLOCK FALSE
