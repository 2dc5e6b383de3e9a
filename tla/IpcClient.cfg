SPECIFICATION FairSpec
CONSTANTS
  Callers = {c1}
  Inbound = {m1, m2}
  Requests = {m1}
  Nested = {m1}
  MaxCalls = 2
  MaxRepeats = 1
  PipeSize = 1
INVARIANTS OwnAnswer PendingExact
PROPERTIES CallsReturn RequestsAnswered
CHECK_DEADLOCK FALSE
