SPECIFICATION FairSpec
CONSTANTS
  MaxTx = 2
  MaxRows <- RowsMade
  Keep = 2
  Window = 1
  PageSize = 1
  Saved = 1
  Failing = {"reverse"}
ACTION_CONSTRAINT PathOrRuns
INVARIANTS
  DashboardIsTrue
  ArchivedRunsAreTrue
PROPERTIES
  TakenAtOnce
  EveryFinishedRunIsArchived
