CONSTANTS
  SIZE = 30
  WORD = 512
  BASE = 100
  WriteCounts = {4, 17}
  ReadCounts = {2}
  StreamLen = 50
SPECIFICATION OutbufSpec
INVARIANT OneByteEmpty
CHECK_DEADLOCK FALSE
