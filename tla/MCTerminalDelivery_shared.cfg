SPECIFICATION LiveSpec
CONSTANTS
  c1 = c1
  c2 = c2
  Clients = {c1, c2}
  Ptys = {1}
  Sizes = {1}
  NoPty = 0
  Window = 2
  ReadyCap = 1
  MaxOffset = 0
  StartSubs <- AllWatch
  StartLead <- LeadsOne
  ChunkKinds = {"data"}
  ChunkMoves = {"stay"}
  AltScreen = FALSE
  MayLose = FALSE
  ParseBudget = 2
  MaxOutput = 2
  MaxRequests = 0
PROPERTIES
  ClientsCatchUp
CHECK_DEADLOCK FALSE
