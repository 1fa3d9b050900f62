SPECIFICATION NetLiveSpec
CONSTANTS
  StreamIds = {1, 2}
  MaxSockets = 2
  Aggregate = 1
  WindowMin = 2
  WindowMax = 2
  Chunks = {1}
  Congested = 1
  MaxStreams = 2
  Plans <- OneByteOnly
PROPERTIES
  NoReaderStalls
CHECK_DEADLOCK FALSE
