CONSTANTS
  Payloads <- SmallPayloads
  RecvLen = 9
  MaxPackets = 4
  SplitHeaders = FALSE
  Workers = {1, 2}
  Lengths = {2, 3}
  SizeLen = 2
  ClientRecvLen = 5
  Numbers = {7}
  MaxRequests = 2
  MaxAnswers = 2
  MaxFaults = 1
SPECIFICATION Streams
INVARIANTS Reassembled ToldRight
PROPERTIES IsStream EarlierDelivered ClientIsStream ClientGoesOn
CHECK_DEADLOCK FALSE
