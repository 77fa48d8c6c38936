CONSTANTS
  Texts = {"u1", "a1", "u2", "a2", "u3", "x2", "rem"}
  Reminder = "rem"
  ServerToolTexts = {}
  ErrandTexts = {}
  MinAgreeingRun = 2
  TailEditSlack = 1
  AdoptMin = 2
  Requests = {r1, r2, r3, r4}
  Sessions = {"s1", "s2"}
  Systems = {"sys1"}
  Turns <- BudgetTurns
  FrozenCounts = {1}
  Capacity = 2
  PendingCapacity = 2
  MaxAlternates = 2
  MaxAlternateMsgs = 3
  Ttl = 1
  PersistDir = TRUE
  MaxInFlight = 1
  MaxCrashes = 0
  NONE = NONE
  UNREAD = UNREAD
SPECIFICATION Spec
SYMMETRY Symmetry
INVARIANT AlternatesWithinBudget
