SPECIFICATION SurfSpec
CONSTANTS
  Preferences = {"p"}
  MaxFrames = 2
  MaxMoves = 1
  MaxWishes = 3
  MaxFaults = 1
  NoneLimit = 2
PROPERTIES OldOutputIsRefused
CHECK_DEADLOCK FALSE
