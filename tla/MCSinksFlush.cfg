SPECIFICATION SinkSpec
CONSTANTS
  Formats = {f1, f2}
  None = None
  Capacity = 2
  Failing = {}
  MaxChunks = 0
  MaxChanges = 0
  Outputs = {"cpal"}
  PipeChunks = 0
  MaxReaders = 0
  Rates = {1, 5}
  Channels = 2
  RingCapacity = 9
  MaxFrames = 4
INVARIANTS CloseFlushes
CHECK_DEADLOCK FALSE
