CONSTANTS
  Counts <- MCCounts
  Bodies <- MCBodies
  Datagrams <- MCDatagrams
  Null = Null
  Garbage = Garbage
SPECIFICATION Spec
INVARIANTS
  BodyMatchesLength
  RoundTrips
  DamageDetected
  FaultMeansNoBody
  UnsetOnlyForDriveBody
CHECK_DEADLOCK FALSE
