SPECIFICATION FairSpec
CONSTANTS
  Serials = {d1, d2}
  NoSerial = NoSerial
  Lists <- MCLists
  MaxSends = 3
  MaxDials = 2
PROPERTIES
  ImplementsStream
  ConnectReturns
  SnapshotsReturned
CHECK_DEADLOCK FALSE
