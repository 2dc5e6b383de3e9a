SPECIFICATION FairSpec
CONSTANTS
  Observers = {o1}
  Actors = {a1}
  NoWatcher = none
  MaxConns = 2
  MaxClients = 3
PROPERTIES SessionForgotten
CHECK_DEADLOCK FALSE
