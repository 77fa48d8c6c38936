CONSTANTS
  Turns = {t1, t2}
  Lanes = {l1, l2}
  None = None
  MaxInflight = 1
  MaxAttempts = 1
  MaxFailovers = 1
  OverloadRounds = 0
  TransportRounds = 0
  MaxLimits = 1
  MaxLost = 1
SPECIFICATION Spec
CHECK_DEADLOCK FALSE
PROPERTY EveryTurnEnds
PROPERTY GateLifts
