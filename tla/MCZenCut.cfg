CONSTANTS
  Turns = {t1, t2}
  Lanes = {l1, l2}
  None = None
  MaxInflight = 1
  MaxAttempts = 1
  MaxFailovers = 1
  OverloadRounds = 1
  TransportRounds = 1
  MaxLimits = 1
  MaxLost = 1
SPECIFICATION Spec
CHECK_DEADLOCK FALSE
SYMMETRY Symmetry
INVARIANT NoTurnIsCut
