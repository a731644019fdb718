CONSTANTS
  Workers = {w1, w2}
  Low = 1
  Target = 3
  WordSize = 16
  MaxConnects = 5
  MaxFaults = 0
SPECIFICATION FairSpec
PROPERTIES EveryConnectIsAccepted
CHECK_DEADLOCK FALSE
