SPECIFICATION Spec
CONSTANTS
  tailSize = 1
  defaultBlockSize = 2
  defaultBlocks = 1
  Settings <- NoSettings
  MaxWrite = 2
  MaxSlots = 3
  MaxChans = 0
  MaxResets = 0
  SinkFails = FALSE
  CompressorFails = FALSE
  ResetAnytime = FALSE
  WriteAfterClose = FALSE

INVARIANT ConcurrencyLimit
CHECK_DEADLOCK FALSE
