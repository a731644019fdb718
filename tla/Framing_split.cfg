CONSTANTS
  Payloads <- SmallPayloads
  RecvLen = 9
  MaxPackets = 4
  SplitHeaders = TRUE
SPECIFICATION Spec
INVARIANTS SizeFromHead
CHECK_DEADLOCK FALSE
