SPECIFICATION FairSpec
CONSTANTS
  Openers = {o1, o2}
  MaxFrames = 2
  EarlyClose = TRUE
PROPERTIES HostCloseArrives
CHECK_DEADLOCK FALSE
