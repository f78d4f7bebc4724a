SPECIFICATION FairSpec
CONSTANTS
  tailSize = 1
  defaultBlockSize = 2
  defaultBlocks = 1
  Settings <- NoSettings
  MaxWrite = 2
  MaxSlots = 3
  MaxChans = 0
  MaxResets = 0
  SinkFails = TRUE
  CompressorFails = FALSE
  ResetAnytime = FALSE
  WriteAfterClose = FALSE

PROPERTY FlushReturns
CHECK_DEADLOCK FALSE
