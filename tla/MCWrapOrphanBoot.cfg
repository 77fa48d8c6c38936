CONSTANTS
  a = a
  b = b
  c = c
  d = d
  x = x
  y = y
  memory = memory
  None = None
  Sessions = {a, b}
  Routings = {x, y}
  Features = {memory}
  MaxPort = 2
  AskPort <- OnePort
  Want <- WantTwo
  Need <- NeedLast
  Grace = 2
  MaxDeaths = 0
  DiesInBoot = TRUE
  LooksInStop = FALSE
SPECIFICATION Spec
CHECK_DEADLOCK FALSE
INVARIANT ServedAsAsked
