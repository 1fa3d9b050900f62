SPECIFICATION NetSpec
CONSTANTS
  StreamIds = {1, 2}
  MaxSockets = 2
  Aggregate = 2
  WindowMin = 2
  WindowMax = 2
  Chunks = {1}
  Congested = 1
  MaxStreams = 2
  Plans <- EachWay
INVARIANTS
  CreditIsTheSumOfShares
  QueuedIsCharged
CHECK_DEADLOCK FALSE
