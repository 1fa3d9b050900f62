SPECIFICATION PtyLiveSpec
CONSTANTS
  MaxTerminals = 1
  MaxChildren = 2
  Fds = {1}
  MaxPtys = 2
  MaxExited = 1
  ChannelCap = 2
  MaxOutput = 1
  AsInit = FALSE
  Signals = {"kill", "deadline"}
  Followed = {}
CHECK_DEADLOCK FALSE
PROPERTIES
  ExitsAreNoticed
  ClosedChildrenAreReaped
