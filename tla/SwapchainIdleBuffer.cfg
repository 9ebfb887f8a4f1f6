SPECIFICATION Spec
CONSTANTS
  Extents = {small, large}
  small = small
  large = large
  Failures = {}
  MaxCalls = 1
  MaxResizes = 0
PROPERTIES
  TransitionResetsIdleBuffer
\* A renderer that was dropped is used no more.
CHECK_DEADLOCK FALSE
