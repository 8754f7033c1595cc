CONSTANTS
  Requests = {r1, r2, r3}
  Workers = {w1, w2}
  Null = Null
  Kinds = {"index", "connect", "drive"}
  Discipline = "free"
  Verdicts = {"ack"}
  Lossy = FALSE
  FdLimit = 2
SPECIFICATION Spec
INVARIANTS
  NoUseAfterDelete
CHECK_DEADLOCK FALSE
