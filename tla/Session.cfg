SPECIFICATION Spec
CONSTANTS
  Observers = {o1, o2}
  Actors = {}
  NoWatcher = none
  MaxConns = 2
  MaxClients = 2
INVARIANTS TypeOK NoOrphanClient OneWatcher
CHECK_DEADLOCK FALSE
