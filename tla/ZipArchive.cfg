SPECIFICATION Spec
CONSTANTS
  fileHeaderLen = 2
  directoryHeaderLen = 2
  directoryEndLen = 2
  dataDescriptorLen = 1
  dataDescriptor64Len = 2
  directory64LocLen = 1
  directory64EndLen = 2
  extTimeLen = 1
  zip64ExtraLen = 2
  uint16max = 3
  uint32max = 12
  Inner <- InnerArchives
  uint64max = 255
  SearchLen = 8
  HeaderSets <- AllHeaders
  PrefixLens = {0, 2}
  Chunks = {1, 11}
  Comments = {1, 4}
  MaxEntries = 3
  MaxWrites = 1
  MaxLate = 2
  MaxSettings = 0
  MaxFlush = 1
  SinkFails = TRUE
  CustomFails = TRUE
  FlushRaces = FALSE
INVARIANT TypeOK
INVARIANT FlushKeepsData
INVARIANT EntriesInPlace
INVARIANT TruncatedRefused
INVARIANT CloseReadable
INVARIANT ContentKept
INVARIANT NamesKept
CHECK_DEADLOCK FALSE
