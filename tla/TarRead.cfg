SPECIFICATION FairSpec
CONSTANTS
  blockSize = 2
  maxInt64 = 31
  Sources <- ReadSources
  MaxBuffer = 2
  MaxResumes = 1
  IOFails = TRUE
  SaveAfterError = TRUE
INVARIANT TypeOK
INVARIANT NeverStray
INVARIANT ContentExact
INVARIANT EOFMeansComplete
INVARIANT MetaApplies
INVARIANT ReadProgress
INVARIANT PersistentError
INVARIANT SparseInside
PROPERTY NextEnds
CHECK_DEADLOCK FALSE
