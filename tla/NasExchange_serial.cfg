SPECIFICATION Spec
CONSTANTS
  MaxTx = 2
  MaxRequests = 1
  Capacity = 2
  Faults <- FewFaults
  Serial = TRUE
  None = None
CHECK_DEADLOCK FALSE
INVARIANTS
  AttachedAgree
  CleanRunSucceeds
  UplinkCountAdvances
