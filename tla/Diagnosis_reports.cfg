SPECIFICATION Spec
CONSTANTS
  Seconds = 0
  Faults <- EveryFault
CHECK_DEADLOCK FALSE
INVARIANTS
  ReportIsAboutTheFailure
  RejectionIsKept
  RootNamesTheFault
  BlindRerunAgrees
  StatusIsTrue
