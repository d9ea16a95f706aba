CONSTANTS
  Files <- MCFiles
  Streams <- MCStreams
  LaterPmt <- MCLaterPmt
  LaterSdt <- MCLaterSdt
  EitSections <- MCEitSections
  MaxRounds = 18
SPECIFICATION Spec
INVARIANT TypeOK
INVARIANT ConfigMeans
INVARIANT StandardRate
INVARIANT TablesFit
INVARIANT PidsDistinct
INVARIANT ReceiverFinds
INVARIANT NamesKept
INVARIANT EventTextKept
INVARIANT LengthsFit
PROPERTY CcContinuous
CHECK_DEADLOCK FALSE
