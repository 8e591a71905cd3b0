SPECIFICATION FairSpec
CONSTANTS
  Texts <- MCTexts
  Streams <- MCStreams
  Starts <- MCStarts
INVARIANTS
  TypeOK
  ParsedAsSent
  AssertHolds
PROPERTY EveryFrameArrives
CHECK_DEADLOCK FALSE
