SPECIFICATION FairSpec
CONSTANTS
  Extents = {small, large}
  small = small
  large = large
  Failures = {"acquire", "record", "surface", "views", "chainImages", "direct",
              "image", "blitPipe", "uniform", "compSets"}
  MaxCalls = 3
  MaxResizes = 2
INVARIANTS
  PendingFrameAlive
  FrameOfOneExtent
  OwnsWhatIsLive
  FenceWillSignal
PROPERTIES
  SizeCatchesUp
\* A renderer that was dropped is used no more.
CHECK_DEADLOCK FALSE
