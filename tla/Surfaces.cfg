SPECIFICATION FairSpec
CONSTANTS
  Logs = {l1}
  Consoles = {k1}
  MaxData = 1
  MaxClosed = 1
INVARIANTS NoOrphanStream ReadyIsTracked
PROPERTIES WorkEnds ConsoleTabStops
CHECK_DEADLOCK FALSE
