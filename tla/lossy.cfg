CONSTANTS
  Requests = {r1, r2, r3, r4}
  Workers = {w1, w2}
  Null = Null
  Kinds = {"index", "connect", "drive", "telemetry", "malformed"}
  Discipline = "one"
  Verdicts = {"ack", "nack"}
  Lossy = TRUE
  FdLimit = 2
SPECIFICATION Spec
SYMMETRY Symmetry
INVARIANTS
  AnswerIsMine
  CountsDistinct
  FaultsOnlyUnconnected
  WaitsOnlyForLost
CHECK_DEADLOCK FALSE
