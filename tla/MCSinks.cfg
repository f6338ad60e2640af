SPECIFICATION FairSpec
CONSTANTS
  Formats = {f1, f2}
  None = None
  Capacity = 2
  Failing = {"open", "write", "stall"}
  MaxChunks = 3
  MaxChanges = 3
  Outputs = {"alsa", "pipe", "cpal"}
  PipeChunks = 3
  MaxReaders = 3
  Rates = {1, 5}
  Channels = 2
  RingCapacity = 9
  MaxFrames = 8
INVARIANTS SinkTypeOK ClosedIsPlayed HeardAsCoded NoHole
PROPERTIES SinkCloseReturns
CHECK_DEADLOCK FALSE
