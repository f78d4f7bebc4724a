SPECIFICATION FairSpec
CONSTANTS
  tailSize = 1
  defaultBlockSize = 2
  defaultBlocks = 1
  Settings <- SmallBlocks
  MaxWrite = 3
  MaxSlots = 4
  MaxChans = 3
  MaxResets = 1
  SinkFails = TRUE
  CompressorFails = TRUE
  ResetAnytime = FALSE
  WriteAfterClose = TRUE
INVARIANT TypeOK
INVARIANT InOrder
INVARIANT StreamIntact
INVARIANT FlushSync
INVARIANT DictionaryMatches
INVARIANT Backpressure
PROPERTY ImplementsStream
PROPERTY CallReturns
PROPERTY ListenerStops
CHECK_DEADLOCK FALSE
