\* The exemption for time commands, on all three protocols.
SPECIFICATION SessionSpec
CONSTANTS
  Streams <- PlainStreams
  StreamEnd = 22
  MaxChunk = 22
  MaxFrame = 12
  MaxBuffer = 12
  Confs <- MCConfs
  ChunkSizes <- MCChunkSizes
  FrameTimeout = 1
  MaxTime = 0
INVARIANTS
  TimeCommandRelayed
CHECK_DEADLOCK FALSE
