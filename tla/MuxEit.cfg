CONSTANTS
  NServices = 2
  PacketBits = 4
  Freq <- MCFreq
  TableLen <- MCTableLen
  Capacity = 4
  Clock = 3
  PcrPeriod = 1000
  Int64 = 100000
  StartPcrs = {5}
  PcrDeltas = {25, 36}
  Chunks <- MCChunks
  MaxPcrs = 1
  MaxBits = 240
SPECIFICATION Spec
PROPERTY EitContiguous
CHECK_DEADLOCK FALSE
