CONSTANTS
  Threads = {t1, t2}
  Keys = {a, b, c}
  Ttls = {1, 3}
  MaxEntries = 2
  MaxTime = 5
  MaxRestarts = 1
  NoEntry = NoEntry
  NoStore = NoStore
SPECIFICATION Spec
INVARIANT TypeOK
INVARIANT IndexComplete
INVARIANT StaleCountsExact
PROPERTY ImplementsContract
CHECK_DEADLOCK FALSE
SYMMETRY Symmetry
