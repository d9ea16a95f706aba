CONSTANTS
  NServices = 2
  PacketBits = 4
  Freq <- MCFreq
  TableLen <- MCTableLen
  Capacity = 4
  Clock = 3
  PcrPeriod = 1000
  Int64 = 100000
  StartPcrs = {975}
  PcrDeltas = {36}
  Chunks <- MCPlainChunks
  MaxPcrs = 9
  MaxBits = 240
SPECIFICATION Spec
INVARIANT SiFrequencies
CHECK_DEADLOCK FALSE
