CONSTANTS
  Workers = {w1, w2, w3}
  Clients = {c1}
  NoClient = NoClient
  MaxSends = 2
  Faults = {"post_accept", "accept", "tp_io", "post_recv", "sem_timeout", "half_close", "reset"}
SPECIFICATION Spec
SYMMETRY Symmetry
INVARIANTS RecvExclusive ReleasedOnce
CHECK_DEADLOCK FALSE
