CONSTANTS
  Callers = {c1, c2}
  SaveThread = SaveThread
  NoThread = NoThread
  Limit = 2
  FileLimit = 2
  MaxPrints = 3
  MaxFaults = 1
SPECIFICATION FairSpec
INVARIANTS SavedInOrder Accounted ExceptionOnDisk
PROPERTIES SyncIsSaved
CHECK_DEADLOCK FALSE
