SPECIFICATION Spec
CONSTANTS
  MaxTx = 2
  MaxOps = 3
  Callers = {c1}
  None = None
  PersistMayFail = FALSE
INVARIANTS
  CompletedIsPrefix
  SingleFlight
  FailedStepIsFirstIncomplete
  NoOrphanTimers
  OutcomesAccounted
PROPERTIES
  AttachedEndsByRequest
  ImplementsLifecycle
CHECK_DEADLOCK FALSE
