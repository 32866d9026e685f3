SPECIFICATION Spec
CONSTANTS
  MaxTx = 1
  MaxOps = 4
  Callers = {c1, c2}
  None = None
  PersistMayFail = TRUE
INVARIANTS
  TypeOK
  AttachedMeansAllSteps
  QuiescentRunIsClosed
CHECK_DEADLOCK FALSE
