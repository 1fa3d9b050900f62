SPECIFICATION Spec
CONSTANTS
  c1 = c1
  c2 = c2
  Clients = {c1, c2}
  Ptys = {1}
  Sizes = {1, 2}
  NoPty = 0
  Window = 2
  ReadyCap = 1
  MaxOffset = 1
  StartSubs <- AllWatch
  StartLead <- OneLeads
  ChunkKinds = {"data", "end"}
  ChunkMoves = {"scroll"}
  AltScreen = FALSE
  MayLose = TRUE
  ParseBudget = 2
  MaxOutput = 1
  MaxRequests = 1
CONSTRAINT SmallAtFirst
INVARIANTS
  TypeOK
  BaselineIsShown
CHECK_DEADLOCK FALSE
