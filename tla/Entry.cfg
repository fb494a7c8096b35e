CONSTANTS
  Intents = {i1}
  Adopted = {a1, a2, a3}
  Qty <- MCQty
  Capacity = 3
  MaxAttempts = 2
  MaxCrashes = 2
  MaxExternal = 1
  None = None
SPECIFICATION FairSpec
INVARIANTS OneEntryOrder NeverSilentlyNaked
PROPERTIES OutcomeIsFinal BooksFollowBroker
CHECK_DEADLOCK FALSE
