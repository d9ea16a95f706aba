CONSTANTS
  P = 2
  InSize = 5
  OutSize = 9
  Prefill = 6
  Block = 4
  ChunkSizes = {1, 4}
  Pcrs = {2, 8, 10}
  Mapped = {4}
  Eits = {6}
  StreamLen = 15
  MaxMade = 2
  MaxFaults = 1
SPECIFICATION Spec
INVARIANT TypeOK
INVARIANT InOrder
INVARIANT Intact
INVARIANT Aligned
PROPERTY DeviceIsFifo
PROPERTY Delivered
PROPERTY InputDrained
CHECK_DEADLOCK FALSE
