CONSTANTS
  NServices = 2
  Stream <- MCStream
  Sizes = {1, 3}
  InbufSize = 21
  MaxPackets = 21
SPECIFICATION Spec
INVARIANT SdtDescribes
CHECK_DEADLOCK FALSE
