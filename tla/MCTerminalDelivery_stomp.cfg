SPECIFICATION Spec
CONSTANTS
  c1 = c1
  c2 = c2
  Clients = {c1}
  Ptys = {1, 2}
  Sizes = {1}
  NoPty = 0
  Window = 2
  ReadyCap = 1
  MaxOffset = 1
  StartSubs <- AllWatch
  StartLead <- LeadsOne
  ChunkKinds = {"data"}
  ChunkMoves = {"scroll"}
  AltScreen = FALSE
  MayLose = FALSE
  ParseBudget = 2
  MaxOutput = 2
  MaxRequests = 2
INVARIANTS
  BaselineIsShown
CHECK_DEADLOCK FALSE
