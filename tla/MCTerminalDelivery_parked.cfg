SPECIFICATION LiveSpec
CONSTANTS
  c1 = c1
  c2 = c2
  Clients = {c1}
  Ptys = {1}
  Sizes = {1}
  NoPty = 0
  Window = 2
  ReadyCap = 1
  MaxOffset = 1
  StartSubs <- AllWatch
  StartLead <- LeadsOne
  ChunkKinds = {"data", "end"}
  ChunkMoves = {"scroll"}
  AltScreen = FALSE
  MayLose = FALSE
  ParseBudget = 2
  MaxOutput = 3
  MaxRequests = 2
PROPERTIES
  OutputIsParsed
CHECK_DEADLOCK FALSE
