CONSTANTS
  NServices = 2
  PacketBits = 4
  Freq <- MCFreq
  TableLen <- MCTableLen
  Capacity = 4
  Clock = 3
  PcrPeriod = 1000
  Int64 = 512
  StartPcrs = {5}
  PcrDeltas = {25, 36}
  Chunks <- MCPlainChunks
  MaxPcrs = 3
  MaxBits = 240
SPECIFICATION Spec
INVARIANT PositionsAreBits
CHECK_DEADLOCK FALSE
