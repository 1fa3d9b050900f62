SPECIFICATION Spec
CONSTANTS
  Endpoints = {1, 2}
  Limited = {2}
  MaxMessages = 2
  ClientIds = {2, 4}
  MaxId = 5
  MaxGeneration = 3
  Names = {"a"}
  Sizes = {1}
  Window = 2
  MaxUnconsumed = 2
  ListenPerClient = 2
  WatchPerClient = 2
  MaxListeners = 2
  HandlesPerClient = 2
  ConnectedPairs = 2
  BufferBytes = 8
  Honest = {1, 2}
  MaxSent = 2
  MaxPairs = 2
  MaxQueue = 2
  NameSets <- WatchA
  Requests <- Naming
INVARIANTS TypeOK
CHECK_DEADLOCK FALSE
