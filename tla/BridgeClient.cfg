SPECIFICATION FairSpec
CONSTANTS
  c1 = c1
  c2 = c2
  c3 = c3
  Clients = {c1, c2, c3}
  Nobody = Nobody
INVARIANTS
  SlotNamesRunningCall
PROPERTIES
  OnlyLiveCallBlocksShutdown
\* An application whose clients are all joined has stopped.
CHECK_DEADLOCK FALSE
