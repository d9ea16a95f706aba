CONSTANTS
  SIZE = 15
  WORD = 256
  BASE = 100
  WriteCounts = {1, 3, 7}
  ReadCounts = {2, 4}
  StreamLen = 45
SPECIFICATION FairSafety
INVARIANT TypeOK
INVARIANT FillExact
INVARIANT NoRace
PROPERTY FifoInBand
PROPERTY Drained
CHECK_DEADLOCK FALSE
