CONSTANTS
  Files <- MCFiles
  Streams <- MCStreams
  LaterPmt <- MCLaterPmt
  LaterSdt <- MCLaterSdt
  EitSections <- MCEitSections
  MaxRounds = 1
SPECIFICATION Spec
INVARIANT NoCa
CHECK_DEADLOCK FALSE
