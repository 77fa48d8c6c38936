CONSTANTS
  Threads = {t1}
  Keys = {a, b, c, d}
  Ttls = {2}
  MaxEntries = 2
  MaxTime = 5
  MaxRestarts = 0
  NoEntry = NoEntry
  NoStore = NoStore
SPECIFICATION Spec
INVARIANT CapacityHeld
SYMMETRY Symmetry
CHECK_DEADLOCK FALSE
