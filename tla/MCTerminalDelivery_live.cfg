SPECIFICATION LiveSpec
CONSTANTS
  c1 = c1
  c2 = c2
  Clients = {c1}
  Ptys = {1}
  Sizes = {1}
  NoPty = 0
  Window = 2
  ReadyCap = 2
  MaxOffset = 1
  StartSubs <- AllWatch
  StartLead <- LeadsOne
  ChunkKinds = {"data", "open", "end"}
  ChunkMoves = {"clear"}
  AltScreen = TRUE
  MayLose = TRUE
  ParseBudget = 3
  MaxOutput = 3
  MaxRequests = 2
CONSTRAINT ThreeEvents
INVARIANTS
  LiveViewsGoForward
PROPERTIES
  ClientsCatchUp
CHECK_DEADLOCK FALSE
