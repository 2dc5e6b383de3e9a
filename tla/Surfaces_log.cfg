SPECIFICATION FairSpec
CONSTANTS
  Logs = {l1}
  Consoles = {}
  MaxData = 1
  MaxClosed = 1
PROPERTIES LogTabStops
CHECK_DEADLOCK FALSE
