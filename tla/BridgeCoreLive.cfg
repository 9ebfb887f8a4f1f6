SPECIFICATION FairSpec
CONSTANTS
  UIs = {u1}
  Targets = {t1, t2}
  u1 = u1
  t1 = t1
  t2 = t2
  Capacity = 1
  MaxSessions = 3
  MaxShaders = 0
  MaxPerf = 1
PROPERTIES
  ViewsConverge
  DeadTargetUnregistered
