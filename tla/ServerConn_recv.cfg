CONSTANTS
  Workers = {w1, w2, w3}
  Clients = {c1}
  NoClient = NoClient
  MaxSends = 0
  Faults = {"post_accept", "accept", "tp_io", "half_close", "reset"}
SPECIFICATION FairSpec
INVARIANTS RefExact NoUseAfterRelease OnlineListens
PROPERTIES GoneIsReleased SilentIsReleased
CHECK_DEADLOCK FALSE
