CONSTANTS
  Workers = {1}
  Lengths = {2, 3}
  SizeLen = 2
  ClientRecvLen = 5
  Numbers = {7}
  MaxRequests = 1
  MaxAnswers = 2
  MaxFaults = 0
SPECIFICATION ClientSpec
INVARIANTS NextSizeIsItsPackets
CHECK_DEADLOCK FALSE
