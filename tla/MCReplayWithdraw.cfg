CONSTANTS
  Texts = {"u1", "srv", "note", "note2", "u2", "x2", "a2", "u3", "rem", "errand"}
  Reminder = "rem"
  ServerToolTexts = {"srv"}
  ErrandTexts = {"errand"}
  MinAgreeingRun = 4
  TailEditSlack = 2
  AdoptMin = 2
  Requests = {r1, r2, r3, r4}
  Sessions = {"s1"}
  Systems = {"sys1"}
  Turns <- WithdrawTurns
  FrozenCounts = {0}
  Capacity = 1
  PendingCapacity = 1
  MaxAlternates = 2
  MaxAlternateMsgs = 5
  Ttl = 1
  PersistDir = FALSE
  MaxInFlight = 1
  MaxCrashes = 0
  NONE = NONE
  UNREAD = UNREAD
SPECIFICATION Spec
SYMMETRY Symmetry
INVARIANT AdjacencyNetNeverFires
INVARIANT ForwardedCoversOriginals
INVARIANT ClientContentKept
