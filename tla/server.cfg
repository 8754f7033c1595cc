CONSTANTS
  MaxConns = 3
  Concurrency = 3
  Timeout = 1
  Asks = 1
  MaxOpen = 2
SPECIFICATION Spec
INVARIANTS
  OneTaskEach
  IdleHasDeadline
  RobberKnown
  LengthsCountConnections
PROPERTIES
  Ends
  StopEnds
CHECK_DEADLOCK FALSE
