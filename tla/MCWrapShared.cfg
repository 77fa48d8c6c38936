CONSTANTS
  a = a
  b = b
  c = c
  p = p
  q = q
  Sessions = {a, b, c}
  Ports = {p}
  PortOf <- SharedPort
  Healers = {}
  Unwraps = {}
  UserUrls = {u}
  NoUrl = NoUrl
  None = None
  HookAtStart = FALSE
  OtherEnv = FALSE
  IdleUnwrap = TRUE
  MaxLive = 3
  MaxCrashes = 2
  MaxKills = 0
  QuietStart = TRUE
SPECIFICATION Spec
CHECK_DEADLOCK FALSE
INVARIANT TypeOK
INVARIANT UserValueRestored
INVARIANT LiveSessionStaysRouted
