CONSTANTS
  a = a
  b = b
  c = c
  d = d
  x = x
  y = y
  memory = memory
  None = None
  Sessions = {a, b, c, d}
  Routings = {x, y}
  Features = {memory}
  MaxPort = 2
  AskPort <- OnePort
  Want <- WantTwo
  Need <- NeedLast
  Grace = 2
  MaxDeaths = 1
  DiesInBoot = FALSE
  LooksInStop = FALSE
SPECIFICATION Spec
CHECK_DEADLOCK FALSE
INVARIANT TypeOK
INVARIANT ServedAsAsked
INVARIANT NoSpawnRace
PROPERTY EveryStartEnds
PROPERTY OrphansStop
