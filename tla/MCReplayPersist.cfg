CONSTANTS
  Texts = {"u1", "a1", "u2", "a2", "u3", "x2", "rem"}
  Reminder = "rem"
  ServerToolTexts = {}
  ErrandTexts = {}
  MinAgreeingRun = 2
  TailEditSlack = 1
  AdoptMin = 2
  Requests = {r1, r2, r3}
  Sessions = {"s1"}
  Systems = {"sys1"}
  Turns <- PersistTurns
  FrozenCounts = {1}
  Capacity = 1
  PendingCapacity = 2
  MaxAlternates = 2
  MaxAlternateMsgs = 5
  Ttl = 1
  PersistDir = TRUE
  MaxInFlight = 2
  MaxCrashes = 1
  NONE = NONE
  UNREAD = UNREAD
SPECIFICATION Spec
SYMMETRY Symmetry
INVARIANT TypeOK
INVARIANT StoredPairWasSent
INVARIANT ChainIdsDistinct
INVARIANT AlternatesWithinBudget
INVARIANT ClientContentKept
PROPERTY DiskMovesForward
