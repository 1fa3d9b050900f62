SPECIFICATION Spec
CONSTANTS
  Endpoints = {1, 2}
  Limited = {}
  MaxMessages = 3
  ClientIds = {2}
  MaxId = 5
  MaxGeneration = 2
  Names = {"a"}
  Sizes = {1, 2}
  Window = 2
  MaxUnconsumed = 1
  ListenPerClient = 2
  WatchPerClient = 2
  MaxListeners = 2
  HandlesPerClient = 2
  ConnectedPairs = 2
  BufferBytes = 8
  Honest = {1}
  MaxSent = 3
  MaxPairs = 1
  MaxQueue = 2
  NameSets <- WatchA
  Requests <- Duplex
INVARIANTS
  ClientsLearnTheTruth
  StreamsAreWhole
CHECK_DEADLOCK FALSE
