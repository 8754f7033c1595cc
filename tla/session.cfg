CONSTANTS
  Requests = {r1, r2, r3}
  Workers = {w1, w2}
  Null = Null
  Kinds = {"index", "connect", "telemetry"}
  Discipline = "session"
  Verdicts = {"ack"}
  Lossy = FALSE
  FdLimit = 2
SPECIFICATION FairSpec
INVARIANTS
  NoUseAfterDelete
  Owned
PROPERTIES
  Answered
CHECK_DEADLOCK FALSE
