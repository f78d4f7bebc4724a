SPECIFICATION Spec
CONSTANTS
  blockSize = 2
  maxInt64 = 31
  Sources <- NameSources
  MaxBuffer = 1
  MaxResumes = 0
  IOFails = FALSE
  SaveAfterError = FALSE
INVARIANT MetaApplies
CHECK_DEADLOCK FALSE
