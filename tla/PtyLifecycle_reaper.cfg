SPECIFICATION PtySpec
CONSTANTS
  MaxTerminals = 2
  MaxChildren = 2
  Fds = {1}
  MaxPtys = 2
  MaxExited = 1
  ChannelCap = 2
  MaxOutput = 1
  AsInit = FALSE
  Signals = {}
  Followed = {}
CHECK_DEADLOCK FALSE
INVARIANTS
  EveryChildHasAReaper
