SPECIFICATION Spec
CONSTANTS
  blockSize = 2
  Headers <- AllHeaders
  PaxSize = 3
  MaxHeaders = 2
  MaxWrite = 3
  SinkFails = TRUE
INVARIANT TypeOK
INVARIANT OutputPrefix
INVARIANT CloseComplete
PROPERTY ClosedIsFinal
CHECK_DEADLOCK FALSE
