SPECIFICATION Spec
CONSTANTS
  fileHeaderLen = 2
  directoryHeaderLen = 2
  directoryEndLen = 2
  dataDescriptorLen = 1
  dataDescriptor64Len = 2
  directory64LocLen = 1
  directory64EndLen = 2
  extTimeLen = 1
  zip64ExtraLen = 2
  uint16max = 3
  uint32max = 12
  Inner <- NoInner
  uint64max = 255
  SearchLen = 8
  HeaderSets <- DeflatedHeaders
  PrefixLens = {0}
  Chunks = {1, 11}
  Comments = {1, 4}
  MaxEntries = 3
  MaxWrites = 1
  MaxLate = 2
  MaxSettings = 0
  MaxFlush = 1
  SinkFails = FALSE
  CustomFails = TRUE
  FlushRaces = TRUE
INVARIANT FlushKeepsData
CHECK_DEADLOCK FALSE
