CONSTANTS
  MaxPrints = 4
  MaxCallers = 2
  MaxWindows = 2
  s = s
  t = t
  Callers = {s, t}
  Async = Async
  MaxQueued = 3
  MaxRuns = 2
  MaxFaults = 1
SPECIFICATION Queues
INVARIANTS ShownInOrder Queued1by1 HandlesNested
PROPERTIES QueuedIsTaken ThreadServes
CHECK_DEADLOCK FALSE
