SPECIFICATION Spec
CONSTANTS
  Writers = {w1, w2}
  Timers = {t1, t2}
  Clients = {c1}
  QueueSize = 1
  None = None
  w1 = w1
  w2 = w2
  t1 = t1
  t2 = t2
SYMMETRY StoreSymmetry
INVARIANTS
  TypeOK
  LogRefreshUnderWay
  AckedIsDurable
