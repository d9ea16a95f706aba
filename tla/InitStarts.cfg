CONSTANTS
  NServices = 2
  Stream <- MCStream
  Sizes = {3}
  InbufSize = 16
  MaxPackets = 22
SPECIFICATION FairSpec
INVARIANT TypeOK
INVARIANT Ready
PROPERTY Started
CHECK_DEADLOCK FALSE
