SPECIFICATION FairSpec
CONSTANTS
  Sockets = {s1, s2, s3}
  Devices = {a, b}
  NoSocket = NoSocket
  NoDevice = NoDevice
  MaxConnects = 2
  MaxDisconnects = 1
  MaxQueued = 1
  MaxDue = 1
INVARIANTS
  OneConnection
  StatusOfConnection
  ReadoutOfConnection
PROPERTIES
  ComesBack
\* Nothing is left to do once disconnect() was called and nobody connects again.
CHECK_DEADLOCK FALSE
