SPECIFICATION FairSpec
CONSTANTS
  Writers = {w1, w2}
  Closers = {c1}
  InitialCredit = 2
  CreditModulus = 16
  FrameSizes = {1}
  BufferSizes = {1}
  MaxChunks = 2
  MaxBytes = 1
INVARIANTS TypeOK OutboundWindow NoLostWakeup
PROPERTIES WriterWakes
CHECK_DEADLOCK FALSE
