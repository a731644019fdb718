CONSTANTS
  Clients = {p}
  Names = {"x", "y"}
  RunAgain = FALSE
  Handles = {1, 2}
  MaxConns = 3
  MaxCmds = 1
  MaxCalls = 2
  MaxFaults = 1
SPECIFICATION FairSpec
INVARIANTS ListIsTrue OnlyMeant
PROPERTIES ComesBack SentIsRun
CHECK_DEADLOCK FALSE
