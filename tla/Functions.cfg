SPECIFICATION FunctionsSpec
CONSTANTS
  Entered <- MCEntered
  Bits = 8
  ReadValue <- MCMemory
  t1 = t1
  t2 = t2
  Threads = {t1, t2}
  Calls <- MCCalls
  Drives = {"C", "D"}
  nSatTypes = 2
  Images <- MCImages
  There <- MCThere
  Keys <- MCKeys
  PageSize = 3
  Addresses = 8
  MaxSearchCount = 3
  Orders = {0, 1}
  Offsets = {0}
  Movs = {0, 1}
  MaxSearches = 3
  Base = 4
  Heads = {27}
  Values <- MCValues
  MaxWrites = 2
  MaxReads = 2
  Tasks <- MCTasks
  Functions_ <- MCFunctionNames
  Procs <- MCProcs
  NopCounts = {0, 3, 4}
  MaxHooks = 2
  MaxFailed = 1
  N = 4
  KeyTexts <- MCKeyTexts
  Texts <- MCTexts
  MaxTexts = 3
  Primes = {1, 2, 3, 5, 7, 11, 13}
  E = 5
  MaxText = 40
INVARIANTS Calculates GivenBack Finds Decodes TextsKept Hooked Enciphers
CHECK_DEADLOCK FALSE
