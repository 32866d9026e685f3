SPECIFICATION Spec
CONSTANTS
  MaxTx = 1
  MaxRequests = 1
  Capacity = 2
  Faults <- PossibleFaults
  Serial = FALSE
  None = None
CHECK_DEADLOCK FALSE
INVARIANTS
  OnlyGenuineCommitted
  VisibleFaultNeverAttaches
PROPERTIES
  ImplementsHandshake
