SPECIFICATION FairSpec
CONSTANTS
  Openers = {o1, o2}
  MaxFrames = 2
  EarlyClose = FALSE
INVARIANTS MapHoldsOpenChannels ToldOnce NoFrameLost
PROPERTIES HostCloseArrives
CHECK_DEADLOCK FALSE
