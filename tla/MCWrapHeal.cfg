CONSTANTS
  a = a
  b = b
  c = c
  p = p
  q = q
  Sessions = {a, b, c}
  Ports = {p}
  PortOf <- SharedPort
  Healers = {h1, h2}
  Unwraps = {w}
  UserUrls = {u}
  NoUrl = NoUrl
  None = None
  HookAtStart = TRUE
  OtherEnv = TRUE
  IdleUnwrap = FALSE
  MaxLive = 1
  MaxCrashes = 2
  MaxKills = 1
  QuietStart = TRUE
SPECIFICATION Spec
CHECK_DEADLOCK FALSE
INVARIANT UserValueRestored
