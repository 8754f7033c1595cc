CONSTANTS
  Objects = {a, b}
  Fds <- MCFds
  NoFd = NoFd
  Garbage = Garbage
  Closed = Closed
  Nobody = Nobody
SPECIFICATION Spec
SYMMETRY Symmetry
INVARIANTS
  StrayOnlySpoiled
  ConnectedMeansOpen
  LeaksKnown
  DeathExplained
CHECK_DEADLOCK FALSE
