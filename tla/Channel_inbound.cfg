SPECIFICATION FairSpec
CONSTANTS
  Writers = {}
  Closers = {c1, c2}
  InitialCredit = 4
  CreditModulus = 16
  FrameSizes = {0, 2}
  BufferSizes = {1, 4}
  MaxChunks = 1
  MaxBytes = 4
INVARIANTS InboundWindow WindowReopens InOrder CloseToldOnce
PROPERTIES ImplementsByteStream ReaderWakes
CHECK_DEADLOCK FALSE
