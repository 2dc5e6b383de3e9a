SPECIFICATION FairSpec
CONSTANTS
  Observers = {o1}
  Actors = {}
  NoWatcher = none
  MaxConns = 1
  MaxClients = 2
PROPERTIES ControlRecovers
CHECK_DEADLOCK FALSE
