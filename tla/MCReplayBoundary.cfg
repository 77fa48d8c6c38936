CONSTANTS
  Texts = {"u1", "a1", "u2", "a2", "u3", "x2", "rem"}
  Reminder = "rem"
  ServerToolTexts = {}
  ErrandTexts = {}
  MinAgreeingRun = 2
  TailEditSlack = 1
  AdoptMin = 2
  Requests = {r1, r2, r3}
  Sessions = {"s1"}
  Systems = {"sys1"}
  Turns <- BoundaryTurns
  FrozenCounts = {0, 1, 3}
  Capacity = 1
  PendingCapacity = 2
  MaxAlternates = 2
  MaxAlternateMsgs = 5
  Ttl = 1
  PersistDir = FALSE
  MaxInFlight = 2
  MaxCrashes = 0
  NONE = NONE
  UNREAD = UNREAD
SPECIFICATION Spec
SYMMETRY Symmetry
INVARIANT BoundaryTurnReplaysNothing
