SPECIFICATION FairSpec
CONSTANTS
  Devices = {d1, d2}
  NoDevice = NoDevice
  AppConfigured = TRUE
  MaxChanges = 2
  MaxDrops = 1
INVARIANTS
  RecordMatchesTunnels
  ShutdownRemovesTunnels
PROPERTIES
  UsableDeviceTunneled
  AppReady
  RunningAppUndisturbed
  SeesStream
\* The daemon may exit.
CHECK_DEADLOCK FALSE
