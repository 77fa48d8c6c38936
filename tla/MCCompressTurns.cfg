CONSTANTS
  c1 = c1
  c2 = c2
  d1 = d1
  sA = sA
  sB = sB
  None = None
  Calls = {c1, c2, d1}
  Sessions = {sA, sB}
  SessionOf <- TurnsOf
  Workers = 2
  Threshold = 1
  Timeout = 2
  LockTimeout = 1
  QuarantineMax = 1
  Cap = 1
  EvictsQueued = FALSE
SPECIFICATION Spec
CHECK_DEADLOCK FALSE
INVARIANT TypeOK
INVARIANT HandedOutIsKept
INVARIANT DebtIsExact
PROPERTY EveryCallAnswered
PROPERTY ParkedWorkersReturn
PROPERTY QuarantineLifts
