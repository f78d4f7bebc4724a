SPECIFICATION Spec
CONSTANTS
  tailSize = 1
  defaultBlockSize = 2
  defaultBlocks = 1
  Settings <- NoSettings
  MaxWrite = 2
  MaxSlots = 3
  MaxChans = 3
  MaxResets = 1
  SinkFails = FALSE
  CompressorFails = FALSE
  ResetAnytime = TRUE
  WriteAfterClose = FALSE
INVARIANT ResetDiscards

CHECK_DEADLOCK FALSE
