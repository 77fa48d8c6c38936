CONSTANTS
  Requests = {r1, r2, r3}
  Keys = {k1, k2}
  Capacity = 1
  WaitCap = 2
  WarmTtl = 2
  NONE = NONE
SPECIFICATION Spec
INVARIANT TypeOK
INVARIANT ColdEntryHasLiveLeader
INVARIANT WarmMeansBegun
INVARIANT FollowerBudget
PROPERTY EveryWaitEnds
