SPECIFICATION ParseSpec
CONSTANTS
  Texts <- MCTexts
  Streams <- MixedStreams
  Starts <- MCStarts
INVARIANT ParsedAsSent
CHECK_DEADLOCK FALSE
