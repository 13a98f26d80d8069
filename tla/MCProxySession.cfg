\* Every kind of record and configuration; on some streams every arrival time of
\* every part.
SPECIFICATION SessionSpec
CONSTANTS
  Streams <- MCStreams
  StreamEnd = 27
  MaxChunk = 27
  MaxFrame = 12
  MaxBuffer = 12
  Confs <- MCConfs
  ChunkSizes <- MCChunkSizes
  FrameTimeout = 1
  MaxTime = 4
CONSTRAINT
  TimePasses
INVARIANTS
  RelaysEverything
  RelaysInOrder
  DecodesForwarded
  ConfigureNeedsLeave
PROPERTIES
  OverdueNeverRead
\* The pair is closed.
CHECK_DEADLOCK FALSE
