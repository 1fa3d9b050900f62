SPECIFICATION LiveSpec
CONSTANTS
  Endpoints = {1, 2}
  Limited = {1}
  MaxMessages = 2
  ClientIds = {2}
  MaxId = 5
  MaxGeneration = 3
  Names = {"a"}
  Sizes = {2}
  Window = 2
  MaxUnconsumed = 2
  ListenPerClient = 2
  WatchPerClient = 2
  MaxListeners = 2
  HandlesPerClient = 2
  ConnectedPairs = 2
  BufferBytes = 8
  Honest = {1, 2}
  MaxSent = 2
  MaxPairs = 3
  MaxQueue = 3
  NameSets <- WatchA
  Requests <- Limits
INVARIANTS
  BudgetsHold
  HandlesArePaired
  FramesFollowTheirOpen
PROPERTIES
  FailedEndpointsAreCleared
  ImplementsPipes
CHECK_DEADLOCK FALSE
