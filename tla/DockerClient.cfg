SPECIFICATION FairSpec
CONSTANTS
  Callers = {c1, c2}
  Opener = c1
  Free = free
  MaxCalls = 2
  MaxData = 2
INVARIANTS OwnResponse ShellComplete
PROPERTIES ExchangesEnd
CHECK_DEADLOCK FALSE
