SPECIFICATION Spec
CONSTANTS
  UIs = {u1}
  Targets = {t1, t2}
  u1 = u1
  t1 = t1
  t2 = t2
  Capacity = 2
  MaxSessions = 3
  MaxShaders = 0
  MaxPerf = 0
INVARIANTS
  NoStaleView
