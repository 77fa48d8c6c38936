CONSTANTS
  a = a
  b = b
  c = c
  d = d
  x = x
  y = y
  memory = memory
  None = None
  Sessions = {b, d}
  Routings = {x, y}
  Features = {memory}
  MaxPort = 2
  AskPort <- OnePort
  Want <- WantTwo
  Need <- NeedLast
  Grace = 2
  MaxDeaths = 0
  DiesInBoot = FALSE
  LooksInStop = TRUE
SPECIFICATION Spec
CHECK_DEADLOCK FALSE
INVARIANT ServedAsAsked
