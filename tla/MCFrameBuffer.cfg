\* A buffer bounded below the longest frame, so that the overflow error fires too.
SPECIFICATION FramerSpec
CONSTANTS
  Streams <- MCStreams
  StreamEnd = 26
  MaxChunk = 26
  MaxFrame = 12
  MaxBuffer = 10
INVARIANTS
  NothingWithheld
  CutsWhatArrived
PROPERTIES
  FrameBufferImplementsStream
  FeedReturns
\* The stream ends: no further chunk is fed.
CHECK_DEADLOCK FALSE
