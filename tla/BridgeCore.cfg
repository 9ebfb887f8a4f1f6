SPECIFICATION Spec
CONSTANTS
  UIs = {u1}
  Targets = {t1, t2}
  u1 = u1
  t1 = t1
  t2 = t2
  Capacity = 1
  MaxSessions = 3
  MaxShaders = 2
  MaxPerf = 2
SYMMETRY TargetSymmetry
INVARIANTS
  ViewsFollowAnnouncements
  ShaderUpToDate
PROPERTIES
  ImplementsRelay
  SessionEndsOnlyOnLoss
