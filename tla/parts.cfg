SPECIFICATION FairSpec
CONSTANTS
  MayRun = {"refresh", "tree", "dialogs", "settings", "codec"}
  Docker = docker
  Containers = containers
  NodeGroups = {containers, images}
  None = none
  Error = error
  Missing = missing
  Budgets <- Scenarios
  MaxObserves = 3
  MaxStreams = 2
  MaxFlushes = 2
  Ctrs = {c1}
  Objects = {i1, i2}
  Tags = {t1}
  Absent = absent
  MaxChanges = 2
  MaxFailures = 1
  Actions = {a1, a2}
  Targets = {n1, n2}
  MaxDialogs = 3
  MaxRefusals = 1
  Values = {v1, v2}
  Uncached = uncached
  NoFile = nofile
  Loaders = {o1, o2}
  Applies = {p1, p2}
  MaxFaults = 1
  HeaderLen = 2
  MaxFrameLength = 2
  CreditPayloadLen = 2
  MaxFrames = 2
INVARIANTS
  TypeOK EventKept FilledOrComing Actionable DotsTrue OneDialogPerAction NothingSkipped ChangesListed SettingsKept FramesWhole
PROPERTIES TreeCatchesUp
CHECK_DEADLOCK FALSE
