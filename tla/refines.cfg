CONSTANTS
  Requests = {r1, r2, r3}
  Workers = {w1, w2}
  Null = Null
  Kinds = {"index", "connect", "drive", "telemetry", "sleep", "malformed"}
  Discipline = "one"
  Verdicts = {"ack", "nack"}
  Lossy = FALSE
  FdLimit = 2
SPECIFICATION FairSpec
PROPERTIES
  Implements
CHECK_DEADLOCK FALSE
