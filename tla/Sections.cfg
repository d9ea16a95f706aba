CONSTANTS
  Round <- MCRound
  Wanted <- MCWanted
  Room = 4
  MaxLost = 3
  MaxMissed = 5
SPECIFICATION FairSpec
INVARIANT TypeOK
INVARIANT Genuine
INVARIANT LossCost
PROPERTY Recovers
