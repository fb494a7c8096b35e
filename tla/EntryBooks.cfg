CONSTANTS
  Intents = {i1}
  Adopted = {a1}
  Qty <- MCQty
  Capacity = 2
  MaxAttempts = 1
  MaxCrashes = 0
  MaxExternal = 0
  None = None
SPECIFICATION Spec
PROPERTY ReconcileRestoresQuantity
CHECK_DEADLOCK FALSE
