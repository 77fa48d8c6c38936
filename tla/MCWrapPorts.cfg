CONSTANTS
  a = a
  b = b
  c = c
  p = p
  q = q
  Sessions = {a, b}
  Ports = {p, q}
  PortOf <- OwnPorts
  Healers = {}
  Unwraps = {}
  UserUrls = {u}
  NoUrl = NoUrl
  None = None
  HookAtStart = TRUE
  OtherEnv = FALSE
  IdleUnwrap = TRUE
  MaxLive = 2
  MaxCrashes = 0
  MaxKills = 0
  QuietStart = TRUE
SPECIFICATION Spec
CHECK_DEADLOCK FALSE
INVARIANT LiveSessionStaysRouted
