CONSTANTS
  Requests = {r1, r2, r3}
  Keys = {k1}
  Capacity = 1
  WaitCap = 1
  WarmTtl = 2
  NONE = NONE
SPECIFICATION SafetySpec
INVARIANT StaysWarm
