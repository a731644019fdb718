CONSTANTS
  Says <- MCSays
  Texts = {"x"}
  Types = {"debug"}
  None = None
  Short = Short
  Bad = Bad
  Batch = 2
  nMaxLogCount = 3
  OtherFiles <- MCFiles
  MaxTasks = 2
  MaxClicks = 2
SPECIFICATION FairSpec
INVARIANTS ListsAgree
PROPERTIES ThrowsOnlyBare SavedComesBack MovesOn
CHECK_DEADLOCK FALSE
