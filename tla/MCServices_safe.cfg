SPECIFICATION Spec
CONSTANTS
  StreamIds = {1, 2}
  MaxSockets = 2
  Aggregate = 2
  WindowMin = 1
  WindowMax = 2
  Chunks = {1}
  Congested = 1
  MaxStreams = 2
  Plans <- EachWay
  Conns = {1, 2, 3}
  Extension = {1, 2}
  MaxConnections = 1
  Jobs = {11, 12}
  ActivePerEndpoint = 1
  ActiveGlobal = 1
  PendingPerEndpoint = 1
  PendingGlobal = 2
  Endpoints = {e1, e2}
  ProcessIds = {1}
  MaxPerEndpoint = 1
  MaxGenerations = 1
  MaxSpawning = 1
  MaxSpawns = 1
  MaxWatches = 1
  Watchers = {"w1", "w2"}
  Creator = "w1"
  Window = 1
  Loads <- TypedOrPrinted
  MaxRewatches = 1
  MaxTerminals = 2
  MaxChildren = 2
  Fds = {1}
  MaxPtys = 2
  MaxExited = 1
  ChannelCap = 2
  MaxOutput = 1
  AsInit = FALSE
  Signals = {}
  Followed = {}
  Producers = {r1, r2}
  SizeOf <- RecordSizes
  RingSizes = {2, 4}
  LiveCap = 2
  BatchBytes = 2
  Preferences = {"p"}
  MaxFrames = 2
  MaxMoves = 1
  MaxWishes = 3
  MaxFaults = 1
  NoneLimit = 2
CONSTRAINT FewAtOnce
INVARIANTS
  CreditIsTheSumOfShares
  QueuedIsCharged
  JobsHoldWhatIsCharged
  NobodySlipsPastShutdown
  CallsEndWithTheirConnection
  IdsFollowTheWriter
  NothingOutlivesTheServer
  GenerationsAreCharged
  StdinIsOneStream
  OutputIsWhole
  NoChildDiesForAnother
  TerminalsKeepTheirFds
  StreamsAccountForEveryRecord
  RecordingsEndWhole
PROPERTY OldPreferencesAreNotServed
CHECK_DEADLOCK FALSE
