CONSTANTS
  Requests = {r1, r2, r3}
  Workers = {w1, w2}
  Null = Null
  Kinds = {"connect", "drive"}
  Discipline = "session"
  Verdicts = {"ack", "nack"}
  Lossy = FALSE
  FdLimit = 2
SPECIFICATION Spec
INVARIANTS
  SuccessOnlyIfAcked
CHECK_DEADLOCK FALSE
