SPECIFICATION FairSpec
CONSTANTS
  None = None
  Sizes = {s1, s2}
  MaxShaders = 2
  Rejected = {1}
  MaxTouches = 2
INVARIANTS
  NoRenderingWithoutSurface
  NewestShaderKept
  PointerDownMeansFinger
PROPERTIES
  PendingShaderDrawn
  DeviceInfoReported
  SurfaceDestroyedReturns
