SPECIFICATION Spec
CONSTANTS
  MaxTx = 3
  MaxRequests = 0
  Capacity = 2
  Faults <- OnlyClean
  Serial = TRUE
  None = None
CHECK_DEADLOCK FALSE
INVARIANTS
  AttachedContextComplete
  ContextsInv
