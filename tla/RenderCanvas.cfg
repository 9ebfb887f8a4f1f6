SPECIFICATION FairSpec
CONSTANTS
  MaxRuns = 3
  MaxSteps = 2
  MaxFrames = 2
  Sizes = {1, 3}
  MaxTexture = 4
  OnceRuns = {2}
  ImageRuns = {1, 3}
INVARIANTS
  OneRenderer
  LoopDrawsOneRun
  ScreenTexturesFollowWindow
PROPERTIES
  NoFrameOfSupersededRun
  NewestRunDrawn
