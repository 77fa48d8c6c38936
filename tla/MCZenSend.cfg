CONSTANTS
  Turns = {t1, t2}
  Lanes = {l1, l2}
  None = None
  MaxInflight = 1
  MaxAttempts = 2
  MaxFailovers = 1
  OverloadRounds = 1
  TransportRounds = 1
  MaxLimits = 2
  MaxLost = 1
SPECIFICATION Spec
CHECK_DEADLOCK FALSE
SYMMETRY Symmetry
INVARIANT TypeOK
INVARIANT CountsExact
INVARIANT OnlyResumedTurnsAreCut
