SPECIFICATION FairSpec
CONSTANTS
  MaxTx = 1
  MaxOps = 3
  Callers = {c1}
  None = None
  PersistMayFail = TRUE
PROPERTIES
  EveryAttachEnds
CHECK_DEADLOCK FALSE
