SPECIFICATION Spec
CONSTANTS
  Handles = {1, 2}
  FlateReaders = {x1, x2}
  EntryChoices <- SomeChoices
  MaxRead = 1
  NoReader = NoReader
INVARIANT TypeOK
INVARIANT ReaderExclusive
INVARIANT OwnData
INVARIANT EOFMeansIntact
PROPERTY FailureIsFinal
PROPERTY CallsReturn
CHECK_DEADLOCK FALSE
