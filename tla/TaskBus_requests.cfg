SPECIFICATION FairSpec
CONSTANTS
  Order <- Chain
  Below <- NextBelow
  Targets <- UplinkTargets
  Callers = {c1}
  InboxSize = 1
  None = None
INVARIANTS
  BusInv
  OwnAnswer
PROPERTIES
  CallEnds
  WorkersStop
CHECK_DEADLOCK FALSE
