SPECIFICATION EncoderSpec
CONSTANTS
  Sizes <- SomeSizes
  Threads = 2
  PerChunk = 2
  Row = 2
CHECK_DEADLOCK FALSE
INVARIANTS
  ResultIsWhole
PROPERTY DumpEnds
