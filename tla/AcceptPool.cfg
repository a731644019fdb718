CONSTANTS
  Workers = {w1, w2}
  Low = 1
  Target = 3
  WordSize = 16
  MaxConnects = 5
  MaxFaults = 1
SPECIFICATION FairSpec
INVARIANTS Accounting QuietPoolFull
PROPERTIES ConnectsAreAccepted
CHECK_DEADLOCK FALSE
