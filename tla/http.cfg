SPECIFICATION Spec
CONSTANTS
  UllongMax = 50
  MaxHeaderSize = 36
  Site <- MCSite
  Messages <- MCMessages
  Later <- MCLater
  MaxMessages = 2
  MaxCuts = 1
  Threshold = 2

INVARIANTS
  TypeOK
  ExecutedInOrder
  AnsweredAsAsked
  NothingForgotten
  Framed
  CloseHonoured
PROPERTIES
  ClosedInTheEnd
CHECK_DEADLOCK FALSE
